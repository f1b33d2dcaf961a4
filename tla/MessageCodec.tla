---------------------------- MODULE MessageCodec ----------------------------
(***************************************************************************)
(* MessageEncoder, MessageDecoder and the message classes.  An application *)
(* encodes a message and a peer that uses the same library decodes it; or  *)
(* a frame of some other device arrives, complete or not, and is decoded.  *)
(* Either way the frame comes through the driver's receive callback.       *)
(* A message is [op, val]: its opcode and, for each operand, the value the *)
(* constructor is given; the decoder hands over [op, args], the operands'  *)
(* bytes, which the getters of module Operands turn into values again.     *)
(***************************************************************************)
EXTENDS Operands, SequencesExt

CONSTANTS Headers,   \* pairs of logical addresses, from and to
          Messages,  \* the messages an application encodes
          Frames     \* the frames that come from other devices

VARIABLES sent,  \* what was encoded: <<from, to, message>>, or <<>> for a received frame
          wire,  \* the frame under way
          out    \* what became of it

vars == <<sent, wire, out>>

Op == [FEATURE_ABORT |-> \h00, IMAGE_VIEW_ON |-> \h04, TEXT_VIEW_ON |-> \h0D,
       SET_MENU_LANGUAGE |-> \h32, STANDBY |-> \h36, USER_CONTROL_PRESSED |-> \h44,
       USER_CONTROL_RELEASED |-> \h45, GIVE_OSD_NAME |-> \h46, SET_OSD_NAME |-> \h47,
       SET_OSD_STRING |-> \h64, SYSTEM_AUDIO_MODE_REQUEST |-> \h70, GIVE_AUDIO_STATUS |-> \h71,
       SET_SYSTEM_AUDIO_MODE |-> \h72, REPORT_AUDIO_STATUS |-> \h7A, ROUTING_CHANGE |-> \h80,
       ROUTING_INFORMATION |-> \h81, ACTIVE_SOURCE |-> \h82, GIVE_PHYSICAL_ADDRESS |-> \h83,
       REPORT_PHYSICAL_ADDRESS |-> \h84, REQUEST_ACTIVE_SOURCE |-> \h85,
       SET_STREAM_PATH |-> \h86, DEVICE_VENDOR_ID |-> \h87, GIVE_DEVICE_VENDOR_ID |-> \h8C,
       GIVE_DEVICE_POWER_STATUS |-> \h8F, REPORT_POWER_STATUS |-> \h90,
       GET_MENU_LANGUAGE |-> \h91, INACTIVE_SOURCE |-> \h9D, CEC_VERSION |-> \h9E,
       GET_CEC_VERSION |-> \h9F, REPORT_SHORT_AUDIO_DESCRIPTOR |-> \hA3,
       REQUEST_SHORT_AUDIO_DESCRIPTOR |-> \hA4, GIVE_FEATURES |-> \hA5,
       REPORT_FEATURES |-> \hA6, REQUEST_CURRENT_LATENCY |-> \hA7,
       REPORT_CURRENT_LATENCY |-> \hA8, INITIATE_ARC |-> \hC0, REPORT_ARC_INITIATED |-> \hC1,
       REPORT_ARC_TERMINATED |-> \hC2, REQUEST_ARC_INITIATION |-> \hC3,
       REQUEST_ARC_TERMINATION |-> \hC4, TERMINATE_ARC |-> \hC5, ABORT |-> \hFF,
       POLLING |-> \h200]

(* Messages whose class has no data.                                       *)
Bare == {Op.IMAGE_VIEW_ON, Op.TEXT_VIEW_ON, Op.REQUEST_ACTIVE_SOURCE, Op.STANDBY,
         Op.GET_CEC_VERSION, Op.GIVE_OSD_NAME, Op.GIVE_PHYSICAL_ADDRESS,
         Op.GIVE_DEVICE_VENDOR_ID, Op.GET_MENU_LANGUAGE, Op.USER_CONTROL_RELEASED,
         Op.GIVE_DEVICE_POWER_STATUS, Op.ABORT, Op.INITIATE_ARC, Op.TERMINATE_ARC,
         Op.GIVE_FEATURES}

(* Messages that have a class, but no case in MessageDecoder::decode.      *)
EncodeOnly == {Op.GIVE_AUDIO_STATUS, Op.REPORT_ARC_INITIATED, Op.REPORT_ARC_TERMINATED,
               Op.REQUEST_ARC_INITIATION, Op.REQUEST_ARC_TERMINATION}

(* Messages whose one operand is a PhysicalAddress; the last two leave it  *)
(* out of the frame when it is F.F.F.F.                                    *)
OptionalAddress == {Op.SYSTEM_AUDIO_MODE_REQUEST, Op.REQUEST_CURRENT_LATENCY}
OneAddress == {Op.ACTIVE_SOURCE, Op.INACTIVE_SOURCE, Op.ROUTING_INFORMATION,
               Op.SET_STREAM_PATH} \cup OptionalAddress

(* The lengths of the operands of the messages with a fixed list of them.  *)
FixedOperands ==
    OneAddress \cup {Op.CEC_VERSION, Op.SET_MENU_LANGUAGE, Op.SET_OSD_NAME, Op.SET_OSD_STRING,
        Op.DEVICE_VENDOR_ID, Op.REPORT_POWER_STATUS, Op.SET_SYSTEM_AUDIO_MODE,
        Op.REPORT_AUDIO_STATUS, Op.USER_CONTROL_PRESSED, Op.REPORT_PHYSICAL_ADDRESS,
        Op.FEATURE_ABORT, Op.ROUTING_CHANGE}

Layout ==
    [op \in FixedOperands |->
        CASE op \in OneAddress -> <<PhysicalAddressLen>>
          [] op = Op.CEC_VERSION -> <<VersionLen>>
          [] op = Op.SET_MENU_LANGUAGE -> <<LanguageLen>>
          [] op = Op.SET_OSD_NAME -> <<OSDNameLen>>
          [] op = Op.SET_OSD_STRING -> <<OSDStringLen>>
          [] op = Op.DEVICE_VENDOR_ID -> <<VendorIDLen>>
          [] op = Op.REPORT_POWER_STATUS -> <<PowerStatusLen>>
          [] op = Op.SET_SYSTEM_AUDIO_MODE -> <<SystemAudioStatusLen>>
          [] op = Op.REPORT_AUDIO_STATUS -> <<AudioStatusLen>>
          [] op = Op.USER_CONTROL_PRESSED -> <<UICommandLen>>
          [] op = Op.REPORT_PHYSICAL_ADDRESS -> <<PhysicalAddressLen, DeviceTypeLen>>
          [] op = Op.FEATURE_ABORT -> <<OpCodeLen, AbortReasonLen>>
          [] op = Op.ROUTING_CHANGE -> <<PhysicalAddressLen, PhysicalAddressLen>>]

Lists == {Op.REQUEST_SHORT_AUDIO_DESCRIPTOR, Op.REPORT_SHORT_AUDIO_DESCRIPTOR,
          Op.REPORT_FEATURES, Op.REPORT_CURRENT_LATENCY}
-----------------------------------------------------------------------------
(* Encoding                                                                *)

(* The operands of the message object the constructors build.              *)
Built(m) ==
    CASE m.op \in OneAddress \cup {Op.ROUTING_CHANGE} ->
             [i \in DOMAIN m.val |-> PhysicalAddress(m.val[i])]
      [] m.op = Op.REPORT_PHYSICAL_ADDRESS -> <<PhysicalAddress(m.val[1]), m.val[2]>>
      [] m.op = Op.REPORT_AUDIO_STATUS -> <<AudioStatus(m.val[1])>>
      [] m.op = Op.REQUEST_SHORT_AUDIO_DESCRIPTOR ->
             [i \in 1 .. Least(4, Len(m.val)) |-> RequestAudioFormat(m.val[i])]
      [] m.op = Op.REPORT_SHORT_AUDIO_DESCRIPTOR ->
             [i \in 1 .. Least(4, Len(m.val)) |-> ShortAudioDescriptor(m.val[i])]
      [] m.op = Op.REPORT_FEATURES ->
             <<m.val[1], AllDeviceTypes(m.val[2]), RcProfile(m.val[3]), DeviceFeatures(m.val[4])>>
      [] m.op = Op.REPORT_CURRENT_LATENCY ->
             LET info == m.val[2]
             IN  <<PhysicalAddress(m.val[1]), <<info[1]>>, <<info[2]>>>>
                 \o (IF info[2] % 4 = 3 THEN <<<<info[3]>>>> ELSE <<>>)
      [] OTHER -> m.val

(* serialize(): the bytes it may append.  numberofdescriptor of a          *)
(* ReportShortAudioDescriptor that was not decoded is never assigned (the  *)
(* constructor's parameter hides it), so the loop may stop anywhere.  It   *)
(* may also run on behind the vector; what it reads there is not modelled. *)
Serialized(m) ==
    LET args == Built(m)
    IN  CASE m.op \in OptionalAddress /\ args[1] = <<255, 255>> -> {<<>>}
          [] m.op = Op.REPORT_SHORT_AUDIO_DESCRIPTOR ->
                 {FlattenSeq(SubSeq(args, 1, n)) : n \in 0 .. Len(args)}
          [] OTHER -> {FlattenSeq(args)}

(* Header::serialize and OpCode::serialize, which leaves POLLING out.      *)
HeaderByte(from, to) == from * 16 + to
OpCodeBytes(op) == IF op = Op.POLLING THEN <<>> ELSE <<op>>

Encodings(from, to, m) ==
    {<<HeaderByte(from, to)>> \o OpCodeBytes(m.op) \o bytes : bytes \in Serialized(m)}

(* Other devices send bytes; what an application encodes has an opcode and *)
(* values whose operands are bytes, too.                                   *)
ASSUME CodecAssumption ==
    /\ Headers \subseteq (0 .. 15) \X (0 .. 15) /\ Frames \subseteq Seq(Byte)
    /\ \A m \in Messages : m.op \in Byte \cup {Op.POLLING} /\ Serialized(m) \subseteq Seq(Byte)
-----------------------------------------------------------------------------
(* Decoding                                                                *)

(* Mutant: the second operand is taken to start at the second byte.        *)
OffsetByIndex(layout, i) == i - 1

(* Where the i-th operand starts: after MAX_LEN bytes for the first one.   *)
Offset(layout, i) == IF i = 1 THEN 0 ELSE layout[1]

(* Mutant: the first byte is not asked whether another one follows.        *)
ExtendedLate(in, first) ==
    1 + Cardinality({i \in first + 1 .. Len(in) - 1 : \A j \in first + 1 .. i : Bit(in[j + 1], 7) = 1})

(* The length of an operand whose bytes say with bit 7 that one more       *)
(* follows; the count goes on to the end of the frame.                     *)
Extended(in, first) ==
    1 + Cardinality({i \in first .. Len(in) - 1 : \A j \in first .. i : Bit(in[j + 1], 7) = 1})

(* Mutant: the audio output delay is never taken.                          *)
LatencyLenShort(in) == (Least(4, Len(in)) - 2) % SizeT

(* min(5, length) - 2, which is a huge number for a frame of one byte.     *)
LatencyLen(in) == (Least(5, Len(in)) - 2) % SizeT

(* The constructors of the messages with a variable list of operands, on   *)
(* the bytes behind the opcode.                                            *)
RequestShortAudioDescriptor(in) ==
    [i \in 1 .. Least(4, Len(in)) |-> CECBytes(in, i - 1, RequestAudioFormatLen)]

ReportShortAudioDescriptor(in) ==
    [i \in 1 .. Len(in) \div 3 |-> CECBytes(in, (i - 1) * 3, ShortAudioDescriptorLen)]

ReportFeatures(in) ==
    LET rc == Extended(in, 2)
        features == Extended(in, 2 + rc)
    IN  <<CECBytes(in, 0, VersionLen), CECBytes(in, VersionLen, AllDeviceTypesLen),
          CECBytes(in, 2, rc), CECBytes(in, 2 + rc, features)>>

ReportCurrentLatency(in) == <<CECBytes(in, 0, PhysicalAddressLen), CECBytes(in, 2, LatencyLen(in))>>

(* The first operand of <Feature Abort> is an OpCode, read with at().      *)
FeatureAbort(in) == <<At(in, 0), CECBytes(in, OpCodeLen, AbortReasonLen)>>

(* The cases of decode()                                                   *)
Constructed(op, in) ==
    CASE op \in Bare \cup {Op.POLLING} -> <<>>
      [] op = Op.FEATURE_ABORT -> FeatureAbort(in)
      [] op \in FixedOperands \ {Op.FEATURE_ABORT} ->
             [i \in DOMAIN Layout[op] |-> CECBytes(in, Offset(Layout[op], i), Layout[op][i])]
      [] op = Op.REQUEST_SHORT_AUDIO_DESCRIPTOR -> RequestShortAudioDescriptor(in)
      [] op = Op.REPORT_SHORT_AUDIO_DESCRIPTOR -> ReportShortAudioDescriptor(in)
      [] op = Op.REPORT_FEATURES -> ReportFeatures(in)
      [] op = Op.REPORT_CURRENT_LATENCY -> ReportCurrentLatency(in)

Outcome(kind, from, to, op, args) ==
    [kind |-> kind, from |-> from, to |-> to, op |-> op, args |-> args]
Idle == Outcome("idle", 0, 0, 0, <<>>)
Pending == Outcome("pending", 0, 0, 0, <<>>)

(* Mutant: decode() catches only the library's own exception.              *)
CaughtOwnOnly(error) == error = "InvalidParamException"

(* The handlers of decode() around the switch: the second one is for all   *)
(* that derives from std::exception, the library's own exceptions too.     *)
Caught(error) ==
    error \in {"InvalidParamException", "std::length_error", "std::out_of_range", "IOException"}

(* What the application's process() may end with: it returns, or throws    *)
(* one of the library's exceptions, which stands for all that derives from *)
(* std::exception.  Anything else would pass both handlers.                *)
ProcessErrors == {"none", "IOException"}

(* MessageDecoder::decode, with a process() that ends with `error'.  The   *)
(* first operand that cannot be had ends it before process() is called.    *)
(* Header and polling message are handled outside the try block.           *)
Decoded(frame, error) ==
    LET from == frame[1] \div 16
        to == frame[1] % 16
        op == IF Len(frame) = 1 THEN Op.POLLING ELSE frame[2]
        made == Constructed(op, SubFrame(frame, 2))
        bad == {i \in DOMAIN made : made[i].error # "none"}
        kind == CASE bad # {} -> IF Caught(made[Min(bad)].error) THEN "dropped" ELSE "escaped"
                  [] bad = {} /\ error = "none" -> "delivered"
                  [] bad = {} /\ error # "none" ->
                         IF op # Op.POLLING /\ Caught(error) THEN "delivered" ELSE "unwound"
    IN  CASE frame = <<>> -> Outcome("escaped", 0, 0, 0, <<>>)
          [] op \notin Bare \cup {Op.POLLING} \cup FixedOperands \cup Lists ->
                 Outcome("ignored", from, to, op, <<>>)
          [] OTHER -> Outcome(kind, from, to, op,
                              IF bad = {} THEN [i \in DOMAIN made |-> made[i].str] ELSE <<>>)
-----------------------------------------------------------------------------
Init == sent = <<>> /\ wire = <<>> /\ out = Idle

(* Mutant: append() does not look at the length.                           *)
SendUnbounded(h, m) ==
    /\ out = Idle
    /\ wire' \in Encodings(h[1], h[2], m)
    /\ sent' = <<h[1], h[2], m>> /\ out' = Pending

(* MessageEncoder::encode, and the frame goes to a peer ...                *)
Send(h, m) ==
    /\ out = Idle
    /\ \E f \in Encodings(h[1], h[2], m) : Len(f) <= MaxLength /\ wire' = f
    /\ sent' = <<h[1], h[2], m>> /\ out' = Pending

(* ... or CECFrame::append throws because the frame is full.               *)
SendTooLong(h, m) ==
    /\ out = Idle
    /\ \E f \in Encodings(h[1], h[2], m) : Len(f) > MaxLength
    /\ out' = Outcome("thrown", h[1], h[2], m.op, <<>>)
    /\ UNCHANGED <<sent, wire>>

(* DriverImpl::isValidReceiveFrame                                         *)
IsValidReceiveFrame(f) == Len(f) > 0 /\ Len(f) <= MaxLength

(* DriverReceiveCallback: a frame of another device is let in ...          *)
Receive(f) ==
    /\ out = Idle /\ IsValidReceiveFrame(f)
    /\ wire' = f /\ sent' = <<>> /\ out' = Pending

(* ... or discarded.                                                       *)
Discard(f) ==
    /\ out = Idle /\ ~IsValidReceiveFrame(f)
    /\ out' = Outcome("discarded", 0, 0, 0, <<>>)
    /\ UNCHANGED <<sent, wire>>

(* An encoded frame passes the peer's callback, too.                       *)
Decode ==
    /\ out = Pending /\ IsValidReceiveFrame(wire)
    /\ \E error \in ProcessErrors : out' = Decoded(wire, error)
    /\ UNCHANGED <<sent, wire>>

Finish ==
    /\ out \notin {Idle, Pending}
    /\ sent' = <<>> /\ wire' = <<>> /\ out' = Idle

Next ==
    \/ \E h \in Headers, m \in Messages : Send(h, m) \/ SendTooLong(h, m)
    \/ \E f \in Frames : Receive(f) \/ Discard(f)
    \/ Decode \/ Finish

Spec == Init /\ [][Next]_vars
-----------------------------------------------------------------------------
(* Properties                                                              *)

(* The variables have their types; frames fit CECFrame's buffer.           *)
TypeOK ==
    /\ wire \in Seq(Byte) /\ Len(wire) <= MaxLength
    /\ sent = <<>> \/ (sent[1] \in 0 .. 15 /\ sent[2] \in 0 .. 15 /\ sent[3] \in Messages)
    /\ out.kind \in {"idle", "pending", "thrown", "delivered", "dropped", "ignored", "unwound",
                    "escaped", "discarded"}
    /\ out.from \in 0 .. 15 /\ out.to \in 0 .. 15 /\ out.args \in Seq(Seq(Byte))

(* What the getters of a delivered message return.                         *)
Seen(op, args) ==
    CASE op \in OneAddress \cup {Op.ROUTING_CHANGE} -> [i \in DOMAIN args |-> GetByteValues(args[i])]
      [] op = Op.REPORT_PHYSICAL_ADDRESS -> <<GetByteValues(args[1]), args[2]>>
      [] op = Op.REPORT_AUDIO_STATUS -> <<GetAudioStatus(args[1])>>
      [] op = Op.REQUEST_SHORT_AUDIO_DESCRIPTOR -> [i \in DOMAIN args |-> GetAudioFormat(args[i])]
      [] op = Op.REPORT_FEATURES ->
             <<args[1], GetAllDeviceTypes(args[2]), GetRcProfile(args[3]), GetDeviceFeatures(args[4])>>
      [] op = Op.REPORT_CURRENT_LATENCY -> <<GetByteValues(args[1]), GetLatencyInfo(args[2])>>
      [] OTHER -> args

(* The decoder is the inverse of the encoder: what an application put into *)
(* header and message is what the peer's process() gets to see.  The code  *)
(* does not have this for messages decode() has no case for, and for       *)
(* <Report Short Audio Descriptor>, of which it keeps half the bits and an *)
(* uncertain number of descriptors.                                        *)
EncodeDecodeInverse ==
    sent # <<>> /\ out # Pending
      /\ sent[3].op \notin EncodeOnly \cup {Op.REPORT_SHORT_AUDIO_DESCRIPTOR} =>
        /\ out.kind \in {"delivered", "unwound"} /\ out.from = sent[1] /\ out.to = sent[2]
        /\ out.op = sent[3].op /\ Seen(out.op, out.args) = sent[3].val

(* The values the operands' classes are made for: nibbles, strings of at   *)
(* most MAX_LEN bytes, flags, at most four audio formats, and an audio     *)
(* output delay if and only if the latency flags are 3.  The address of an *)
(* optional operand is not F.F.F.F.                                        *)
Nibbles4 == [1 .. 4 -> 0 .. 15]
Text(n) == {s \in Seq(Byte) : Len(s) \in 1 .. n}
FlagList(n) == [1 .. n -> {0, 1}]
RcProfileValue == ({0} \X (0 .. 4)) \cup {v \in FlagList(6) : v[1] = 1}
LatencyValue ==
    {info \in Seq(Byte) : Len(info) = 3 /\ (info[2] = 3 \/ (info[2] % 4 # 3 /\ info[3] = 255))}

Values(op) ==
    CASE op \in Bare \cup {Op.POLLING} -> {<<>>}
      [] op \in OneAddress \ OptionalAddress -> [1 .. 1 -> Nibbles4]
      [] op \in OptionalAddress -> [1 .. 1 -> Nibbles4 \ {<<15, 15, 15, 15>>}]
      [] op = Op.ROUTING_CHANGE -> Nibbles4 \X Nibbles4
      [] op = Op.REPORT_PHYSICAL_ADDRESS -> Nibbles4 \X Text(DeviceTypeLen)
      [] op = Op.FEATURE_ABORT -> Text(OpCodeLen) \X Text(AbortReasonLen)
      [] op = Op.REPORT_AUDIO_STATUS -> [1 .. 1 -> {0, 1} \X (0 .. 127)]
      [] op = Op.REQUEST_SHORT_AUDIO_DESCRIPTOR ->
             {s \in Seq((0 .. 3) \X (0 .. 63)) : Len(s) <= 4}
      [] op = Op.REPORT_FEATURES -> Text(VersionLen) \X FlagList(6) \X RcProfileValue \X FlagList(6)
      [] op = Op.REPORT_CURRENT_LATENCY -> Nibbles4 \X LatencyValue
      [] OTHER -> [1 .. 1 -> Text(Layout[op][1])]

(* A message that fits a frame has such values, if its class is one the    *)
(* decoder is the inverse of.                                              *)
Fits(m) == \E bytes \in Serialized(m) : 1 + Len(OpCodeBytes(m.op)) + Len(bytes) <= MaxLength

Regular(m) ==
    m.op \in EncodeOnly \cup {Op.REPORT_SHORT_AUDIO_DESCRIPTOR}
    \/ (m.op \in Bare \cup {Op.POLLING} \cup FixedOperands \cup Lists
          /\ (Fits(m) => m.val \in Values(m.op)))

(* No frame the driver lets in makes an exception leave decode(), however  *)
(* short or odd its operands are and whatever process() throws that is     *)
(* derived from std::exception, except what process(Polling) throws:       *)
(* applications decode in notify(), and Reader::run would let the          *)
(* exception end the process.                                              *)
OnlyPollingEscapes ==
    /\ out.kind # "escaped"
    /\ out.kind = "unwound" => out.op = Op.POLLING

(* The operands of a delivered message are consecutive pieces of the       *)
(* frame from its third byte on: none overlaps another, skips a byte or    *)
(* reaches behind the end.                                                 *)
OperandsCoverFrame ==
    out.kind = "delivered" => IsPrefix(FlattenSeq(out.args), SubFrame(wire, 2))

(* What the operands of a message with a fixed list of them take.          *)
Total(layout) == layout[1] + (IF Len(layout) = 1 THEN 0 ELSE layout[2])

(* Messages whose operand has no length of its own.                        *)
Texts == {Op.SET_OSD_NAME, Op.SET_OSD_STRING}

(* A frame that holds all the bytes its opcode asks for is delivered, with *)
(* every operand at its full length.  A text that has any bytes is         *)
(* delivered with all of them up to MAX_LEN, 14 for a name and 13 for a    *)
(* string, and a longer one is cut there: the comment in the constructor   *)
(* of CECBytes says that it is to "consume all remaining bytes in the      *)
(* frame", but the classes call it with MAX_LEN and it obeys.              *)
CompleteFramesAreDelivered ==
    LET in == SubFrame(wire, 2)
        op == wire[2]
        lens == [i \in DOMAIN out.args |-> Len(out.args[i])]
    IN  out \notin {Idle, Pending} /\ Len(wire) > 1 =>
            /\ op \in FixedOperands \ Texts /\ Len(in) >= Total(Layout[op]) =>
                   out.kind = "delivered" /\ lens = Layout[op]
            /\ op \in Texts /\ Len(in) >= 1 =>
                   out.kind = "delivered" /\ lens = <<Least(Len(in), Layout[op][1])>>
            /\ op = Op.REPORT_CURRENT_LATENCY /\ Len(in) >= 4 =>
                   out.kind = "delivered" /\ lens = <<2, Least(3, Len(in) - 2)>>

(* In <Report Features> bit 7 delimits [RC Profile] and [Device Features]: *)
(* the first ends with its first byte without it, and so does the second   *)
(* unless the frame ends before; getRcProfileVal and getDeviceFeaturesVal, *)
(* which look at bit 7 again, return all their bytes.                      *)
ExtensionBitDelimits ==
    out.kind = "delivered" /\ out.op = Op.REPORT_FEATURES =>
        /\ \A k \in {3, 4} : GetByteChain(out.args[k]) = out.args[k]
        /\ Bit(Last(out.args[3]), 7) = 0
        /\ Bit(Last(out.args[4]), 7) = 1 => FlattenSeq(out.args) = SubFrame(wire, 2)

(* The inductive invariant behind these: there is a frame on the wire only *)
(* while it is decoded, and what became of it is what decode() makes of    *)
(* it.                                                                     *)
Unused == out.kind \in {"idle", "thrown", "discarded"}

DecodeInv ==
    /\ Unused => wire = <<>>
    /\ ~Unused /\ out # Pending =>
           IsValidReceiveFrame(wire) /\ \E error \in ProcessErrors : out = Decoded(wire, error)

(* What an application sent is on the wire until it is decoded.            *)
SentInv ==
    /\ Unused => sent = <<>>
    /\ sent # <<>> => wire \in Encodings(sent[1], sent[2], sent[3])

IInv == TypeOK /\ DecodeInv /\ SentInv
=============================================================================
