-------------------------- MODULE MessageCodecProofs --------------------------
(***************************************************************************)
(* Theorems about the decoder, for every frame the driver lets in, and     *)
(* about encoder and decoder together, for every message whose values are  *)
(* those its operands' classes are made for.                               *)
(***************************************************************************)
EXTENDS MessageCodec, FiniteSetTheorems, SequenceTheorems, WellFoundedInduction, TLAPS

(* What taking an operand out of a frame may end with.                     *)
Errors == {"none", "std::out_of_range", "std::length_error", "InvalidParamException"}
Result == [error : Errors, str : Seq(Byte)]

(* The range of size_t in the model, and half of it.                       *)
LEMMA SizeTValue == SizeT = 65536 /\ SizeT \div 2 = 32768
BY DEF SizeT

(* What size_t arithmetic makes of a number that is off by one range.      *)
LEMMA Wrapped ==
    ASSUME NEW x \in Int, 0 < x + 65536, x < 131072
    PROVE  x % SizeT = IF x < 0 THEN x + 65536 ELSE IF x < 65536 THEN x ELSE x - 65536
<1>1. CASE x < 0
    <2>1. x % 65536 = x + 65536
        BY <1>1
    <2> QED
        BY <1>1, <2>1, SizeTValue
<1>2. CASE 0 <= x /\ x < 65536
    <2>1. x % 65536 = x
        BY <1>2
    <2> QED
        BY <1>2, <2>1, SizeTValue
<1>3. CASE 65536 <= x
    <2>1. x % 65536 = x - 65536
        BY <1>3
    <2> QED
        BY <1>3, <2>1, SizeTValue
<1> QED
    BY <1>1, <1>2, <1>3

(* CECBytes settles for what is left of the frame, or for a huge length.   *)
LEMMA ClippedFacts ==
    ASSUME NEW in, NEW L \in Nat, L <= 128, Len(in) = L,
           NEW p \in Nat, p <= 256, NEW len \in Nat, len < 65536
    PROVE  LET n == Clipped(in, p, len)
           IN  /\ n \in Nat
               /\ n < 32768 => n = 0 \/ (p < L /\ n = Least(len, L - p))
               /\ 0 < len /\ len < 32768 /\ p < L => n = Least(len, L - p)
<1> DEFINE a == (p + len) % SizeT
           b == (L - p) % SizeT
<1>1. Clipped(in, p, len) = IF a > L THEN b ELSE len
    BY DEF Clipped
<1>2. a = IF p + len < 65536 THEN p + len ELSE p + len - 65536
    BY Wrapped
<1>3. b = IF L < p THEN L - p + 65536 ELSE L - p
    BY Wrapped
<1> HIDE DEF a, b
<1> QED
    BY <1>1, <1>2, <1>3 DEF Least

(* A piece of a frame.                                                     *)
LEMMA SubSeqFacts ==
    ASSUME NEW S, NEW in \in Seq(S), NEW p \in Nat, NEW n \in Nat, p + n <= Len(in)
    PROVE  SubSeq(in, p + 1, p + n) \in Seq(S) /\ Len(SubSeq(in, p + 1, p + n)) = n
OBVIOUS

(* An operand is a piece of the frame, never of what is behind its end;    *)
(* it is there if the frame has a byte where it starts.                    *)
LEMMA CECBytesFacts ==
    ASSUME NEW in \in Seq(Byte), Len(in) <= 128, NEW p \in Nat, p <= 256, NEW len \in Nat, len < 65536
    PROVE  LET r == CECBytes(in, p, len)
           IN  /\ r \in Result
               /\ r.error = "none" => /\ p < Len(in) /\ Len(r.str) = Least(len, Len(in) - p)
                                      /\ r.str = SubSeq(in, p + 1, p + Len(r.str))
               /\ 0 < len /\ len < 32768 /\ p < Len(in) => r.error = "none"
<1> DEFINE n == Clipped(in, p, len)
           r == CECBytes(in, p, len)
<1>1. Len(in) \in Nat
    OBVIOUS
<1>2. /\ n \in Nat
      /\ n < 32768 => n = 0 \/ (p < Len(in) /\ n = Least(len, Len(in) - p))
      /\ 0 < len /\ len < 32768 /\ p < Len(in) => n = Least(len, Len(in) - p)
    <2> DEFINE L == Len(in)
    <2>1. L \in Nat /\ L <= 128 /\ Len(in) = L
        BY <1>1
    <2> HIDE DEF L
    <2>2. /\ n \in Nat
          /\ n < 32768 => n = 0 \/ (p < L /\ n = Least(len, L - p))
          /\ 0 < len /\ len < 32768 /\ p < L => n = Least(len, L - p)
        BY <2>1, ClippedFacts
    <2> QED
        BY <2>1, <2>2
<1>3. r = CASE n >= 32768 -> [error |-> "std::length_error", str |-> <<>>]
            [] n = 0 -> [error |-> "InvalidParamException", str |-> <<>>]
            [] OTHER -> [error |-> "none", str |-> SubSeq(in, p + 1, p + n)]
    BY SizeTValue DEF CECBytes
<1> HIDE DEF n, r
<1>4. CASE n >= 32768
    <2>1. r = [error |-> "std::length_error", str |-> <<>>]
        BY <1>2, <1>3, <1>4
    <2>2. ~ (0 < len /\ len < 32768 /\ p < Len(in))
        BY <1>1, <1>2, <1>4 DEF Least
    <2> QED
        BY <2>1, <2>2 DEF r, Result, Errors
<1>5. CASE n = 0
    <2>1. r = [error |-> "InvalidParamException", str |-> <<>>]
        BY <1>2, <1>3, <1>5
    <2>2. ~ (0 < len /\ len < 32768 /\ p < Len(in))
        BY <1>1, <1>2, <1>5 DEF Least
    <2> QED
        BY <2>1, <2>2 DEF r, Result, Errors
<1>6. CASE n # 0 /\ n < 32768
    <2>1. r = [error |-> "none", str |-> SubSeq(in, p + 1, p + n)]
        BY <1>2, <1>3, <1>6
    <2>2. p < Len(in) /\ n = Least(len, Len(in) - p) /\ p + n <= Len(in)
        BY <1>1, <1>2, <1>6 DEF Least
    <2>3. SubSeq(in, p + 1, p + n) \in Seq(Byte) /\ Len(SubSeq(in, p + 1, p + n)) = n
        BY <1>2, <2>2, SubSeqFacts
    <2> QED
        BY <2>1, <2>2, <2>3 DEF r, Result, Errors
<1> QED
    BY <1>2, <1>4, <1>5, <1>6

(* OpCode's read with at().                                                *)
LEMMA AtFacts ==
    ASSUME NEW in \in Seq(Byte), NEW i \in Nat
    PROVE  /\ At(in, i) \in Result
           /\ At(in, i).error = "none" <=> i < Len(in)
           /\ i < Len(in) => Len(At(in, i).str) = 1
<1>1. i < Len(in) => in[i + 1] \in Byte
    OBVIOUS
<1> QED
    BY <1>1 DEF At, Result, Errors

(* Lengths that frames determine: operands with an extension bit, ...      *)
LEMMA ExtendedType ==
    ASSUME NEW in \in Seq(Byte), NEW first \in Nat
    PROVE  Extended(in, first) \in Nat /\ 0 < Extended(in, first) /\ Extended(in, first) <= 1 + Len(in)
<1> DEFINE T == {i \in first .. Len(in) - 1 : \A j \in first .. i : Bit(in[j + 1], 7) = 1}
           b == Len(in) - 1
<1>1. T \in SUBSET (first .. b) /\ b \in Int /\ b + 1 = Len(in) /\ Len(in) \in Nat
    OBVIOUS
<1>2. Extended(in, first) = 1 + Cardinality(T)
    BY DEF Extended
<1> HIDE DEF T, b
<1>3. IsFiniteSet(first .. b) /\ Cardinality(first .. b) = IF first > b THEN 0 ELSE b - first + 1
    <2>1. first \in Int /\ b \in Int
        BY <1>1
    <2> QED
        BY <2>1, FS_Interval
<1>4. IsFiniteSet(T) /\ Cardinality(T) <= Cardinality(first .. b)
    BY <1>1, <1>3, FS_Subset
<1>5. Cardinality(T) \in Nat
    BY <1>4, FS_CardinalityType
<1> QED
    BY <1>1, <1>2, <1>3, <1>4, <1>5

(* ... and the rest of a <Report Current Latency>.                         *)
LEMMA LatencyType ==
    ASSUME NEW in \in Seq(Byte)
    PROVE  /\ LatencyLen(in) \in Nat /\ LatencyLen(in) < 65536
           /\ 2 < Len(in) => LatencyLen(in) = Least(5, Len(in)) - 2
<1> DEFINE x == Least(5, Len(in)) - 2
<1>1. x \in Int /\ 0 < x + 65536 /\ x < 65536 /\ (2 < Len(in) => 0 < x)
    BY DEF Least
<1>2. LatencyLen(in) = x % SizeT
    BY DEF LatencyLen
<1> HIDE DEF x
<1>3. x % SizeT = IF x < 0 THEN x + 65536 ELSE x
    BY <1>1, Wrapped
<1>4. x = Least(5, Len(in)) - 2
    BY DEF x
<1>5. LatencyLen(in) = IF x < 0 THEN x + 65536 ELSE x
    BY <1>2, <1>3
<1> QED
    BY <1>1, <1>4, <1>5
-----------------------------------------------------------------------------
(* decode() *)

(* The values of the opcodes that decide which case applies.               *)
LEMMA OpValues ==
    /\ Op.FEATURE_ABORT = 0 /\ Op.IMAGE_VIEW_ON = 4 /\ Op.TEXT_VIEW_ON = 13
    /\ Op.SET_MENU_LANGUAGE = 50 /\ Op.STANDBY = 54 /\ Op.USER_CONTROL_PRESSED = 68
    /\ Op.USER_CONTROL_RELEASED = 69 /\ Op.GIVE_OSD_NAME = 70 /\ Op.SET_OSD_NAME = 71
    /\ Op.SET_OSD_STRING = 100 /\ Op.SYSTEM_AUDIO_MODE_REQUEST = 112
    /\ Op.SET_SYSTEM_AUDIO_MODE = 114 /\ Op.REPORT_AUDIO_STATUS = 122
    /\ Op.ROUTING_CHANGE = 128 /\ Op.ROUTING_INFORMATION = 129 /\ Op.ACTIVE_SOURCE = 130
    /\ Op.GIVE_PHYSICAL_ADDRESS = 131 /\ Op.REPORT_PHYSICAL_ADDRESS = 132
    /\ Op.REQUEST_ACTIVE_SOURCE = 133 /\ Op.SET_STREAM_PATH = 134 /\ Op.DEVICE_VENDOR_ID = 135
    /\ Op.GIVE_DEVICE_VENDOR_ID = 140 /\ Op.GIVE_DEVICE_POWER_STATUS = 143
    /\ Op.REPORT_POWER_STATUS = 144 /\ Op.GET_MENU_LANGUAGE = 145 /\ Op.INACTIVE_SOURCE = 157
    /\ Op.CEC_VERSION = 158 /\ Op.GET_CEC_VERSION = 159
    /\ Op.REPORT_SHORT_AUDIO_DESCRIPTOR = 163 /\ Op.REQUEST_SHORT_AUDIO_DESCRIPTOR = 164
    /\ Op.GIVE_FEATURES = 165 /\ Op.REPORT_FEATURES = 166 /\ Op.REQUEST_CURRENT_LATENCY = 167
    /\ Op.REPORT_CURRENT_LATENCY = 168 /\ Op.INITIATE_ARC = 192 /\ Op.TERMINATE_ARC = 197
    /\ Op.ABORT = 255 /\ Op.POLLING = 512
BY DEF Op

(* No opcode is in two of the groups of cases.                             *)
LEMMA Groups ==
    /\ (Bare \cup {Op.POLLING}) \cap (FixedOperands \cup Lists) = {}
    /\ FixedOperands \cap Lists = {}
    /\ Op.FEATURE_ABORT \in FixedOperands /\ Op.FEATURE_ABORT \notin OneAddress
    /\ Op.REPORT_CURRENT_LATENCY \in Lists /\ Op.REPORT_FEATURES \in Lists
BY OpValues DEF Bare, FixedOperands, OneAddress, OptionalAddress, Lists

(* Operands have at most 14 bytes.                                         *)
OperandLen == {n \in Nat : 0 < n /\ n < 15}
IsLayout(l) == \E a, b \in OperandLen : l = <<a>> \/ l = <<a, b>>

(* The messages with one operand that is handed over as it is.             *)
Strings == {Op.CEC_VERSION, Op.SET_MENU_LANGUAGE, Op.SET_OSD_NAME, Op.SET_OSD_STRING,
            Op.DEVICE_VENDOR_ID, Op.REPORT_POWER_STATUS, Op.SET_SYSTEM_AUDIO_MODE,
            Op.USER_CONTROL_PRESSED}

(* The lengths of the operands, for each opcode.                           *)
LEMMA LayoutValues ==
    /\ \A op \in OneAddress : Layout[op] = <<2>>
    /\ \A op \in Strings : Layout[op] \in {<<1>>, <<3>>, <<13>>, <<14>>}
    /\ Layout[Op.REPORT_AUDIO_STATUS] = <<1>>
    /\ Layout[Op.REPORT_PHYSICAL_ADDRESS] = <<2, 1>>
    /\ Layout[Op.FEATURE_ABORT] = <<1, 1>>
    /\ Layout[Op.ROUTING_CHANGE] = <<2, 2>>
    /\ FixedOperands = OneAddress \cup Strings \cup {Op.REPORT_AUDIO_STATUS,
           Op.REPORT_PHYSICAL_ADDRESS, Op.FEATURE_ABORT, Op.ROUTING_CHANGE}
<1> DEFINE Others == FixedOperands \ OneAddress
<1>1. ASSUME NEW op \in OneAddress PROVE Layout[op] = <<2>>
    <2>1. op \in FixedOperands
        BY DEF FixedOperands
    <2>2. /\ op \notin {Op.CEC_VERSION, Op.SET_MENU_LANGUAGE, Op.SET_OSD_NAME, Op.SET_OSD_STRING}
          /\ op \notin {Op.DEVICE_VENDOR_ID, Op.REPORT_POWER_STATUS, Op.SET_SYSTEM_AUDIO_MODE}
          /\ op \notin {Op.REPORT_AUDIO_STATUS, Op.USER_CONTROL_PRESSED, Op.REPORT_PHYSICAL_ADDRESS}
          /\ op \notin {Op.FEATURE_ABORT, Op.ROUTING_CHANGE}
        BY OpValues DEF OneAddress, OptionalAddress
    <2> QED
        BY <2>1, <2>2 DEF Layout, PhysicalAddressLen
<1>2. {Op.CEC_VERSION, Op.SET_MENU_LANGUAGE, Op.SET_OSD_NAME, Op.SET_OSD_STRING,
       Op.DEVICE_VENDOR_ID, Op.REPORT_POWER_STATUS, Op.SET_SYSTEM_AUDIO_MODE,
       Op.REPORT_AUDIO_STATUS, Op.USER_CONTROL_PRESSED, Op.REPORT_PHYSICAL_ADDRESS,
       Op.FEATURE_ABORT, Op.ROUTING_CHANGE} = Others
    BY OpValues DEF FixedOperands, OneAddress, OptionalAddress
<1>3. \A op \in Others : op \in FixedOperands /\ op \notin OneAddress
    OBVIOUS
<1> HIDE DEF Others
<1>4. Layout[Op.CEC_VERSION] = <<1>>
    BY <1>2, <1>3, OpValues DEF Layout, VersionLen
<1>5. Layout[Op.SET_MENU_LANGUAGE] = <<3>>
    BY <1>2, <1>3, OpValues DEF Layout, LanguageLen
<1>6. Layout[Op.SET_OSD_NAME] = <<14>>
    BY <1>2, <1>3, OpValues DEF Layout, OSDNameLen
<1>7. Layout[Op.SET_OSD_STRING] = <<13>>
    BY <1>2, <1>3, OpValues DEF Layout, OSDStringLen
<1>8. Layout[Op.DEVICE_VENDOR_ID] = <<3>>
    BY <1>2, <1>3, OpValues DEF Layout, VendorIDLen
<1>9. Layout[Op.REPORT_POWER_STATUS] = <<1>>
    BY <1>2, <1>3, OpValues DEF Layout, PowerStatusLen
<1>10. Layout[Op.SET_SYSTEM_AUDIO_MODE] = <<1>>
    BY <1>2, <1>3, OpValues DEF Layout, SystemAudioStatusLen
<1>11. Layout[Op.REPORT_AUDIO_STATUS] = <<1>>
    BY <1>2, <1>3, OpValues DEF Layout, AudioStatusLen
<1>12. Layout[Op.USER_CONTROL_PRESSED] = <<1>>
    BY <1>2, <1>3, OpValues DEF Layout, UICommandLen
<1>13. Layout[Op.REPORT_PHYSICAL_ADDRESS] = <<2, 1>>
    BY <1>2, <1>3, OpValues DEF Layout, PhysicalAddressLen, DeviceTypeLen
<1>14. Layout[Op.FEATURE_ABORT] = <<1, 1>>
    BY <1>2, <1>3, OpValues DEF Layout, OpCodeLen, AbortReasonLen
<1>15. Layout[Op.ROUTING_CHANGE] = <<2, 2>>
    BY <1>2, <1>3, OpValues DEF Layout, PhysicalAddressLen
<1>16. \A op \in Strings : Layout[op] \in {<<1>>, <<3>>, <<13>>, <<14>>}
    BY <1>4, <1>5, <1>6, <1>7, <1>8, <1>9, <1>10, <1>12 DEF Strings
<1>17. FixedOperands = OneAddress \cup Strings \cup {Op.REPORT_AUDIO_STATUS,
           Op.REPORT_PHYSICAL_ADDRESS, Op.FEATURE_ABORT, Op.ROUTING_CHANGE}
    BY DEF FixedOperands, Strings
<1> QED
    BY <1>1, <1>11, <1>13, <1>14, <1>15, <1>16, <1>17

(* A fixed list has one operand or two, and none is empty.                 *)
LEMMA LayoutType == \A op \in FixedOperands : IsLayout(Layout[op])
<1>1. \A l \in {<<1>>, <<2>>, <<3>>, <<13>>, <<14>>, <<2, 1>>, <<1, 1>>, <<2, 2>>} : IsLayout(l)
    <2>1. {1, 2, 3, 13, 14} \subseteq OperandLen
        BY DEF OperandLen
    <2> QED
        BY <2>1 DEF IsLayout
<1> QED
    BY <1>1, LayoutValues

(* Whatever the bytes behind the opcode are, the constructors end with a   *)
(* list of operands or of exceptions that decode() catches.                *)
LEMMA ConstructedType ==
    ASSUME NEW in \in Seq(Byte), Len(in) <= 128,
           NEW op \in Bare \cup {Op.POLLING} \cup FixedOperands \cup Lists
    PROVE  Constructed(op, in) \in Seq(Result)
<1>1. \A p, len \in Nat : p <= 256 /\ len < 65536 => CECBytes(in, p, len) \in Result
    BY CECBytesFacts
<1>2. Len(in) \in Nat
    OBVIOUS
<1>3. <<>> \in Seq(Result)
    OBVIOUS
<1>4. FeatureAbort(in) \in Seq(Result)
    <2>1. At(in, 0) \in Result /\ CECBytes(in, 1, 1) \in Result
        BY <1>1, AtFacts
    <2> QED
        BY <2>1 DEF FeatureAbort, OpCodeLen, AbortReasonLen
<1>5. ASSUME op \in FixedOperands
      PROVE  [i \in DOMAIN Layout[op] |-> CECBytes(in, Offset(Layout[op], i), Layout[op][i])] \in Seq(Result)
    <2>1. IsLayout(Layout[op])
        BY <1>5, LayoutType
    <2>2. PICK a, b \in OperandLen : Layout[op] = <<a>> \/ Layout[op] = <<a, b>>
        BY <2>1 DEF IsLayout
    <2>3. CECBytes(in, 0, a) \in Result /\ CECBytes(in, a, b) \in Result
        BY <1>1 DEF OperandLen
    <2>4. CASE Layout[op] = <<a>>
        BY <2>3, <2>4 DEF Offset
    <2>5. CASE Layout[op] = <<a, b>>
        BY <2>3, <2>5 DEF Offset
    <2> QED
        BY <2>2, <2>4, <2>5
<1>6. RequestShortAudioDescriptor(in) \in Seq(Result)
    <2>1. Least(4, Len(in)) \in Nat /\ Least(4, Len(in)) <= 4
        BY <1>2 DEF Least
    <2>2. \A i \in 1 .. Least(4, Len(in)) : CECBytes(in, i - 1, 1) \in Result
        BY <1>1, <2>1
    <2> QED
        BY <2>1, <2>2 DEF RequestShortAudioDescriptor, RequestAudioFormatLen
<1>7. ReportShortAudioDescriptor(in) \in Seq(Result)
    <2>1. Len(in) \div 3 \in Nat /\ 3 * (Len(in) \div 3) <= Len(in)
        BY <1>2
    <2>2. \A i \in 1 .. Len(in) \div 3 : (i - 1) * 3 \in Nat /\ (i - 1) * 3 <= 256
        BY <2>1, <1>2
    <2>3. \A i \in 1 .. Len(in) \div 3 : CECBytes(in, (i - 1) * 3, 3) \in Result
        BY <1>1, <2>2
    <2> QED
        BY <2>1, <2>3 DEF ReportShortAudioDescriptor, ShortAudioDescriptorLen
<1>8. ReportFeatures(in) \in Seq(Result)
    <2> DEFINE rc == Extended(in, 2)
               features == Extended(in, 2 + rc)
    <2>1. rc \in Nat /\ rc <= 129
        <3>1. rc \in Nat /\ rc <= 1 + Len(in)
            BY ExtendedType
        <3> QED
            BY <1>2, <3>1
    <2>2. features \in Nat /\ features <= 129
        <3>1. 2 + rc \in Nat
            BY <2>1
        <3> HIDE DEF rc
        <3>2. features \in Nat /\ features <= 1 + Len(in)
            BY <3>1, ExtendedType
        <3> QED
            BY <1>2, <3>2
    <2>3. ReportFeatures(in) = <<CECBytes(in, 0, 1), CECBytes(in, 1, 1),
                                 CECBytes(in, 2, rc), CECBytes(in, 2 + rc, features)>>
        BY DEF ReportFeatures, VersionLen, AllDeviceTypesLen
    <2> HIDE DEF rc, features
    <2>4. /\ CECBytes(in, 0, 1) \in Result /\ CECBytes(in, 1, 1) \in Result
          /\ CECBytes(in, 2, rc) \in Result /\ CECBytes(in, 2 + rc, features) \in Result
        BY <1>1, <2>1, <2>2
    <2> QED
        BY <2>3, <2>4
<1>9. ReportCurrentLatency(in) \in Seq(Result)
    <2>1. CECBytes(in, 0, 2) \in Result /\ CECBytes(in, 2, LatencyLen(in)) \in Result
        BY <1>1, LatencyType
    <2> QED
        BY <2>1 DEF ReportCurrentLatency, PhysicalAddressLen
<1>10. CASE op \in Bare \cup {Op.POLLING}
    BY <1>3, <1>10, Groups DEF Constructed, Lists
<1>11. CASE op = Op.FEATURE_ABORT
    BY <1>4, <1>11, Groups DEF Constructed, Lists
<1>12. CASE op \in FixedOperands \ {Op.FEATURE_ABORT}
    BY <1>5, <1>12, Groups DEF Constructed, Lists
<1>13. CASE op \in Lists
    BY <1>6, <1>7, <1>8, <1>9, <1>13, Groups, OpValues DEF Constructed, Lists
<1> QED
    BY <1>10, <1>11, <1>12, <1>13

(* Every set of numbers that is not empty has a smallest one.              *)
LEMMA SmallestNumber ==
    ASSUME NEW S \in SUBSET Nat, S # {}
    PROVE  Min(S) \in S /\ \A k \in S : Min(S) <= k
<1> DEFINE R == OpToRel(<, Nat)
<1>1. IsWellFoundedOn(R, Nat)
    BY NatLessThanWellFounded
<1>2. R = {ss \in Nat \X Nat : ss[1] < ss[2]}
    BY DEF OpToRel
<1>3. \A x, y \in Nat : y < x => <<y, x>> \in R
    BY <1>2
<1> HIDE DEF R
<1>4. PICK x \in S : \A y \in S : ~ (<<y, x>> \in R)
    BY <1>1, WFMin
<1>5. ASSUME NEW k \in S PROVE x <= k
    <2>1. ~ (k < x)
        BY <1>3, <1>4
    <2> QED
        BY <2>1
<1> QED
    BY <1>5 DEF Min

(* The bytes behind the opcode.                                            *)
LEMMA SubFrameFacts ==
    ASSUME NEW frame \in Seq(Byte)
    PROVE  /\ SubFrame(frame, 2) \in Seq(Byte) /\ Len(SubFrame(frame, 2)) <= Len(frame)
           /\ 2 <= Len(frame) => Len(SubFrame(frame, 2)) = Len(frame) - 2
<1>1. CASE 2 <= Len(frame)
    <2> DEFINE n == Len(frame) - 2
    <2>1. n \in Nat /\ 2 + n = Len(frame)
        BY <1>1
    <2>2. SubSeq(frame, 3, Len(frame)) \in Seq(Byte) /\ Len(SubSeq(frame, 3, Len(frame))) = n
        <3> HIDE DEF n
        <3>1. SubSeq(frame, 2 + 1, 2 + n) \in Seq(Byte) /\ Len(SubSeq(frame, 2 + 1, 2 + n)) = n
            BY <2>1, SubSeqFacts
        <3> QED
            BY <2>1, <3>1
    <2> QED
        BY <1>1, <2>1, <2>2 DEF SubFrame
<1>2. CASE Len(frame) < 2
    <2>1. SubSeq(frame, 3, Len(frame)) = <<>>
        BY <1>2
    <2> QED
        BY <1>2, <2>1 DEF SubFrame
<1> QED
    BY <1>1, <1>2

(* What the constructors make is operands and errors.                      *)
LEMMA ResultFacts ==
    ASSUME NEW made \in Seq(Result), NEW i \in DOMAIN made
    PROVE  i \in Nat /\ made[i].error \in Errors /\ made[i].str \in Seq(Byte)
<1>1. made[i] \in Result /\ i \in Nat
    OBVIOUS
<1> QED
    BY <1>1 DEF Result

(* A list of frames' pieces is one of byte strings.                        *)
LEMMA PiecesType ==
    ASSUME NEW n \in Nat, NEW S, NEW f, f \in [1 .. n -> Seq(S)]
    PROVE  f \in Seq(Seq(S)) /\ <<>> \in Seq(Seq(S))
<1> DEFINE T == Seq(S)
<1> HIDE DEF T
<1>1. f \in [1 .. n -> T]
    BY DEF T
<1>2. f \in Seq(T) /\ <<>> \in Seq(T)
    BY <1>1
<1> QED
    BY <1>2 DEF T

(* How decode() ends once the constructors of a message are done, with     *)
(* `made': it is delivered, or an exception is caught.                     *)
Ends(d, op, frame, made) ==
    /\ made \in Seq(Result)
    /\ d.op = op /\ d.from = frame[1] \div 16 /\ d.to = frame[1] % 16
    /\ IF \A i \in DOMAIN made : made[i].error = "none"
       THEN /\ d.kind = "delivered" \/ (d.kind = "unwound" /\ op = Op.POLLING)
            /\ d.args = [i \in DOMAIN made |-> made[i].str]
       ELSE d.kind = "dropped" /\ d.args = <<>>

(* ... which is so for every frame that has a case in decode().            *)
LEMMA DecodedCases ==
    ASSUME NEW frame \in Seq(Byte), 0 < Len(frame), Len(frame) <= 128, NEW error \in ProcessErrors,
           NEW op, op = IF Len(frame) = 1 THEN Op.POLLING ELSE frame[2],
           op \in Bare \cup {Op.POLLING} \cup FixedOperands \cup Lists
    PROVE  Ends(Decoded(frame, error), op, frame, Constructed(op, SubFrame(frame, 2)))
<1> DEFINE in == SubFrame(frame, 2)
           made == Constructed(op, in)
           bad == {i \in DOMAIN made : made[i].error # "none"}
           kind == CASE bad # {} -> IF Caught(made[Min(bad)].error) THEN "dropped" ELSE "escaped"
                     [] bad = {} /\ error = "none" -> "delivered"
                     [] bad = {} /\ error # "none" ->
                            IF op # Op.POLLING /\ Caught(error) THEN "delivered" ELSE "unwound"
           args == IF bad = {} THEN [i \in DOMAIN made |-> made[i].str] ELSE <<>>
           d == Decoded(frame, error)
<1>1. in \in Seq(Byte) /\ Len(in) <= 128
    BY SubFrameFacts
<1>2. made \in Seq(Result)
    <2> HIDE DEF in
    <2> QED
        BY <1>1, ConstructedType
<1>3. frame # <<>>
    OBVIOUS
<1>4. d = Outcome(kind, frame[1] \div 16, frame[1] % 16, op, args)
    BY <1>3 DEF Decoded
<1>5. \A i \in DOMAIN made : made[i].error \in Errors
    <2> HIDE DEF made
    <2> QED
        BY <1>2, ResultFacts
<1>6. kind = IF bad # {} THEN "dropped"
             ELSE IF error = "none" \/ op # Op.POLLING THEN "delivered" ELSE "unwound"
    <2> HIDE DEF made
    <2>1. bad \in SUBSET Nat
        BY <1>2
    <2>2. CASE bad # {}
        <3>1. Min(bad) \in bad
            BY <2>1, <2>2, SmallestNumber
        <3>2. Caught(made[Min(bad)].error)
            BY <1>5, <3>1 DEF Caught, Errors
        <3> HIDE DEF bad
        <3> QED
            BY <2>2, <3>2
    <2>3. CASE bad = {}
        <3>1. error = "none" \/ (error # "none" /\ Caught(error))
            BY DEF ProcessErrors, Caught
        <3> HIDE DEF bad
        <3> QED
            BY <2>3, <3>1
    <2> QED
        BY <2>2, <2>3
<1>7. bad = {} <=> \A i \in DOMAIN made : made[i].error = "none"
    OBVIOUS
<1> HIDE DEF kind
<1>8. /\ d.kind = kind /\ d.from = frame[1] \div 16 /\ d.to = frame[1] % 16 /\ d.op = op
      /\ d.args = IF bad = {} THEN [i \in DOMAIN made |-> made[i].str] ELSE <<>>
    <2> HIDE DEF d, made
    <2> QED
        BY <1>4 DEF Outcome
<1> HIDE DEF d, made, bad
<1>9. IF bad = {} THEN /\ d.kind = "delivered" \/ (d.kind = "unwound" /\ op = Op.POLLING)
                       /\ d.args = [i \in DOMAIN made |-> made[i].str]
                  ELSE d.kind = "dropped" /\ d.args = <<>>
    BY <1>6, <1>8
<1> QED
    <2>1. Ends(d, op, frame, made)
        BY <1>2, <1>7, <1>8, <1>9 DEF Ends
    <2> QED
        BY <2>1 DEF d, made

(* The addresses in a frame's first byte.                                  *)
LEMMA Nibbles ==
    ASSUME NEW x \in Byte
    PROVE  x \div 16 \in 0 .. 15 /\ x % 16 \in 0 .. 15
<1>1. x \in Int /\ 0 <= x /\ x <= 255
    BY DEF Byte
<1>2. x \div 16 \in Int /\ 0 <= x \div 16 /\ x \div 16 <= 15
    BY <1>1
<1>3. x % 16 \in Int /\ 0 <= x % 16 /\ x % 16 <= 15
    BY <1>1
<1> QED
    BY <1>2, <1>3

(* What decode() ends with, for every frame the driver lets in.            *)
LEMMA DecodedFacts ==
    ASSUME NEW frame \in Seq(Byte), 0 < Len(frame), Len(frame) <= 128, NEW error \in ProcessErrors
    PROVE  LET d == Decoded(frame, error)
           IN  /\ d.kind \in {"delivered", "dropped", "ignored", "unwound"}
               /\ d.kind = "unwound" => d.op = Op.POLLING
               /\ d.from \in 0 .. 15 /\ d.to \in 0 .. 15 /\ d.args \in Seq(Seq(Byte))
<1> DEFINE op == IF Len(frame) = 1 THEN Op.POLLING ELSE frame[2]
           d == Decoded(frame, error)
<1>1. frame[1] \div 16 \in 0 .. 15 /\ frame[1] % 16 \in 0 .. 15
    <2>1. frame[1] \in Byte
        OBVIOUS
    <2> DEFINE x == frame[1]
    <2> HIDE DEF x
    <2>2. x \div 16 \in 0 .. 15 /\ x % 16 \in 0 .. 15
        BY <2>1, Nibbles DEF x
    <2> QED
        BY <2>2 DEF x
<1>2. CASE op \in Bare \cup {Op.POLLING} \cup FixedOperands \cup Lists
    <2> DEFINE made == Constructed(op, SubFrame(frame, 2))
    <2> HIDE DEF d, op
    <2>1. op = IF Len(frame) = 1 THEN Op.POLLING ELSE frame[2]
        BY DEF op
    <2> HIDE DEF made
    <2>2. Ends(d, op, frame, made)
        BY <1>2, <2>1, DecodedCases DEF d, made
    <2>3. /\ made \in Seq(Result)
          /\ d.op = op /\ d.from = frame[1] \div 16 /\ d.to = frame[1] % 16
          /\ IF \A i \in DOMAIN made : made[i].error = "none"
             THEN /\ d.kind = "delivered" \/ (d.kind = "unwound" /\ op = Op.POLLING)
                  /\ d.args = [i \in DOMAIN made |-> made[i].str]
             ELSE d.kind = "dropped" /\ d.args = <<>>
        BY <2>2 DEF Ends
    <2>4. [i \in DOMAIN made |-> made[i].str] \in Seq(Seq(Byte)) /\ <<>> \in Seq(Seq(Byte))
        <3>1. \A i \in DOMAIN made : made[i].str \in Seq(Byte)
            BY <2>3, ResultFacts
        <3>2. DOMAIN made = 1 .. Len(made) /\ Len(made) \in Nat
            BY <2>3
        <3> DEFINE f == [i \in DOMAIN made |-> made[i].str]
                   n == Len(made)
        <3>3. f \in [1 .. n -> Seq(Byte)] /\ n \in Nat
            BY <3>1, <3>2
        <3> HIDE DEF f, n
        <3>4. f \in Seq(Seq(Byte)) /\ <<>> \in Seq(Seq(Byte))
            BY <3>3, PiecesType
        <3> QED
            BY <3>4 DEF f
    <2>5. d.args \in Seq(Seq(Byte))
        <3> DEFINE strs == [i \in DOMAIN made |-> made[i].str]
        <3>1. d.args = strs \/ d.args = <<>>
            BY <2>3
        <3>2. strs \in Seq(Seq(Byte)) /\ <<>> \in Seq(Seq(Byte))
            BY <2>4
        <3> HIDE DEF strs
        <3> QED
            BY <3>1, <3>2
    <2>6. d.kind \in {"delivered", "dropped", "ignored", "unwound"} /\ (d.kind = "unwound" => d.op = Op.POLLING)
        BY <2>3
    <2>7. d.from \in 0 .. 15 /\ d.to \in 0 .. 15
        BY <1>1, <2>3
    <2> QED
        BY <2>5, <2>6, <2>7 DEF d
<1>3. CASE op \notin Bare \cup {Op.POLLING} \cup FixedOperands \cup Lists
    <2>1. frame # <<>>
        OBVIOUS
    <2>2. d = Outcome("ignored", frame[1] \div 16, frame[1] % 16, op, <<>>)
        BY <1>3, <2>1 DEF Decoded
    <2>3. <<>> \in Seq(Seq(Byte))
        <3>1. \A S : <<>> \in Seq(S)
            OBVIOUS
        <3> QED
            BY <3>1
    <2> HIDE DEF op, d
    <2>4. d.kind = "ignored" /\ d.from = frame[1] \div 16 /\ d.to = frame[1] % 16 /\ d.args = <<>>
        BY <2>2 DEF Outcome
    <2>5. d.from \in 0 .. 15 /\ d.to \in 0 .. 15
        BY <1>1, <2>4
    <2>6. d.args \in Seq(Seq(Byte))
        BY <2>3, <2>4
    <2> QED
        BY <2>4, <2>5, <2>6 DEF d
<1> QED
    BY <1>2, <1>3

(* A frame with all the bytes of a fixed list of operands is delivered.    *)
LEMMA FixedDelivered ==
    ASSUME NEW frame \in Seq(Byte), 1 < Len(frame), Len(frame) <= 128, NEW error \in ProcessErrors,
           frame[2] \in FixedOperands, Len(SubFrame(frame, 2)) >= Total(Layout[frame[2]])
    PROVE  LET d == Decoded(frame, error)
           IN  d.kind = "delivered" /\ [i \in DOMAIN d.args |-> Len(d.args[i])] = Layout[frame[2]]
<1> DEFINE op == frame[2]
           in == SubFrame(frame, 2)
           made == Constructed(op, in)
           d == Decoded(frame, error)
<1> HIDE DEF op, in, made, d
<1>1. in \in Seq(Byte) /\ Len(in) <= 128 /\ Len(in) \in Nat /\ op \in FixedOperands
      /\ Len(in) >= Total(Layout[op])
    BY SubFrameFacts DEF in, op
<1>2. PICK a, b \in OperandLen : Layout[op] = <<a>> \/ Layout[op] = <<a, b>>
    BY <1>1, LayoutType DEF IsLayout
<1>3. a \in Nat /\ b \in Nat /\ 0 < a /\ 0 < b /\ a < 15 /\ b < 15
    BY DEF OperandLen
<1>4. ASSUME NEW p \in Nat, NEW len \in Nat, 0 < len, len < 15, p + len <= Len(in)
      PROVE  CECBytes(in, p, len).error = "none" /\ Len(CECBytes(in, p, len).str) = len
    <2>1. p <= 256 /\ len < 65536 /\ len < 32768 /\ p < Len(in)
        BY <1>1, <1>4
    <2>2. CECBytes(in, p, len).error = "none" /\ Len(CECBytes(in, p, len).str) = Least(len, Len(in) - p)
        BY <1>1, <1>4, <2>1, CECBytesFacts
    <2> QED
        BY <1>1, <1>4, <2>2 DEF Least
<1>5. /\ op = Op.FEATURE_ABORT => made = FeatureAbort(in) /\ Layout[op] = <<1, 1>>
      /\ op # Op.FEATURE_ABORT =>
             made = [i \in DOMAIN Layout[op] |-> CECBytes(in, Offset(Layout[op], i), Layout[op][i])]
    <2>1. op \notin Bare \cup {Op.POLLING} /\ op \notin Lists
        BY <1>1, Groups
    <2>2. op = Op.FEATURE_ABORT => Layout[op] = <<1, 1>>
        BY <1>1, OpValues, Groups DEF Layout, OpCodeLen, AbortReasonLen
    <2> QED
        BY <1>1, <2>1, <2>2 DEF made, Constructed, Lists
<1>6. /\ DOMAIN made = DOMAIN Layout[op]
      /\ \A i \in DOMAIN made : made[i].error = "none" /\ Len(made[i].str) = Layout[op][i]
    <2>1. CASE op = Op.FEATURE_ABORT
        <3>1. made = <<At(in, 0), CECBytes(in, 1, 1)>> /\ Layout[op] = <<1, 1>>
            BY <1>5, <2>1 DEF FeatureAbort, OpCodeLen, AbortReasonLen
        <3>2. 2 <= Len(in)
            BY <1>1, <3>1 DEF Total
        <3>3. At(in, 0).error = "none" /\ Len(At(in, 0).str) = 1
            BY <1>1, <3>2, AtFacts
        <3>4. CECBytes(in, 1, 1).error = "none" /\ Len(CECBytes(in, 1, 1).str) = 1
            <4> DEFINE p == 1
            <4>1. p \in Nat /\ 0 < p /\ p < 15 /\ p + p <= Len(in)
                BY <1>1, <3>2
            <4> HIDE DEF p
            <4>2. CECBytes(in, p, p).error = "none" /\ Len(CECBytes(in, p, p).str) = p
                BY <1>4, <4>1
            <4> QED
                BY <4>2 DEF p
        <3> DEFINE x == At(in, 0)
                   y == CECBytes(in, 1, 1)
        <3> HIDE DEF x, y
        <3>5. made = <<x, y>>
            BY <3>1 DEF x, y
        <3>6. x.error = "none" /\ Len(x.str) = 1 /\ y.error = "none" /\ Len(y.str) = 1
            BY <3>3, <3>4 DEF x, y
        <3>7. /\ DOMAIN made = {1, 2} /\ made[1] = x /\ made[2] = y
              /\ DOMAIN Layout[op] = {1, 2} /\ Layout[op][1] = 1 /\ Layout[op][2] = 1
            BY <3>1, <3>5
        <3> QED
            BY <3>6, <3>7
    <2>2. CASE op # Op.FEATURE_ABORT /\ Layout[op] = <<a>>
        <3>1. made = <<CECBytes(in, 0, a)>>
            BY <1>5, <2>2 DEF Offset
        <3>2. a <= Len(in)
            BY <1>1, <1>3, <2>2 DEF Total
        <3>3. CECBytes(in, 0, a).error = "none" /\ Len(CECBytes(in, 0, a).str) = a
            BY <1>3, <1>4, <3>2
        <3> QED
            BY <2>2, <3>1, <3>3
    <2>3. CASE op # Op.FEATURE_ABORT /\ Layout[op] = <<a, b>>
        <3>1. made = <<CECBytes(in, 0, a), CECBytes(in, a, b)>>
            BY <1>5, <2>3 DEF Offset
        <3>2. a + b <= Len(in) /\ 0 + a <= Len(in)
            BY <1>1, <1>3, <2>3 DEF Total
        <3>3. CECBytes(in, 0, a).error = "none" /\ Len(CECBytes(in, 0, a).str) = a
            BY <1>3, <1>4, <3>2
        <3>4. CECBytes(in, a, b).error = "none" /\ Len(CECBytes(in, a, b).str) = b
            BY <1>3, <1>4, <3>2
        <3> QED
            BY <2>3, <3>1, <3>3, <3>4
    <2> QED
        BY <1>2, <2>1, <2>2, <2>3
<1>7. op # Op.POLLING /\ op = IF Len(frame) = 1 THEN Op.POLLING ELSE frame[2]
    BY <1>1, Groups DEF op
<1>8. d.kind = "delivered" /\ d.args = [i \in DOMAIN made |-> made[i].str]
    <2>1. op \in Bare \cup {Op.POLLING} \cup FixedOperands \cup Lists /\ 0 < Len(frame)
        BY <1>1
    <2>2. Ends(d, op, frame, made)
        BY <1>7, <2>1, DecodedCases DEF made, in, d
    <2> QED
        BY <1>6, <1>7, <2>2 DEF Ends
<1>9. [i \in DOMAIN d.args |-> Len(d.args[i])] = Layout[op]
    <2>1. DOMAIN d.args = DOMAIN Layout[op] /\ \A i \in DOMAIN d.args : Len(d.args[i]) = Layout[op][i]
        BY <1>6, <1>8
    <2> QED
        BY <1>2, <2>1
<1> QED
    BY <1>8, <1>9 DEF d, op

(* ... and so is a text of any length, cut to MAX_LEN, ...                 *)
LEMMA TextDelivered ==
    ASSUME NEW frame \in Seq(Byte), 1 < Len(frame), Len(frame) <= 128, NEW error \in ProcessErrors,
           frame[2] \in Texts, Len(SubFrame(frame, 2)) >= 1
    PROVE  LET d == Decoded(frame, error)
           IN  /\ d.kind = "delivered"
               /\ [i \in DOMAIN d.args |-> Len(d.args[i])]
                      = <<Least(Len(SubFrame(frame, 2)), Layout[frame[2]][1])>>
<1> DEFINE op == frame[2]
           in == SubFrame(frame, 2)
           made == Constructed(op, in)
           d == Decoded(frame, error)
           a == Layout[op][1]
           x == CECBytes(in, 0, a)
           len == Least(Len(in), a)
<1> HIDE DEF op, in, made, d, a, x, len
<1>1. in \in Seq(Byte) /\ Len(in) <= 128 /\ Len(in) \in Nat /\ Len(in) >= 1
    BY SubFrameFacts DEF in
<1>2. op \in Texts /\ op \in FixedOperands /\ op # Op.POLLING /\ op # Op.FEATURE_ABORT
    <2>1. op \in Texts
        BY DEF op
    <2>2. op \in FixedOperands
        BY <2>1 DEF Texts, FixedOperands
    <2>3. op # Op.FEATURE_ABORT
        <3>1. Op.SET_OSD_NAME = 71 /\ Op.SET_OSD_STRING = 100 /\ Op.FEATURE_ABORT = 0
            BY OpValues
        <3>2. Op.SET_OSD_NAME # Op.FEATURE_ABORT /\ Op.SET_OSD_STRING # Op.FEATURE_ABORT
            BY <3>1
        <3> QED
            BY <2>1, <3>2 DEF Texts
    <2> QED
        BY <2>1, <2>2, <2>3, Groups
<1>3. Layout[op] \in {<<1>>, <<3>>, <<13>>, <<14>>}
    BY <1>2, LayoutValues DEF Texts, Strings
<1>4. a \in {1, 3, 13, 14} /\ Layout[op] = <<a>>
    BY <1>3 DEF a
<1>5. made = <<x>>
    <2>1. op \notin Bare \cup {Op.POLLING} /\ op \notin Lists
        BY <1>2, Groups
    <2>2. made = [i \in DOMAIN Layout[op] |-> CECBytes(in, Offset(Layout[op], i), Layout[op][i])]
        BY <1>2, <2>1 DEF made, Constructed, Lists
    <2> QED
        BY <1>4, <2>2 DEF x, Offset
<1>6. x.error = "none" /\ Len(x.str) = len
    <2> DEFINE p == 0
    <2>1. /\ p \in Nat /\ a \in Nat /\ p <= 256 /\ 0 < a /\ a < 32768 /\ a < 65536
          /\ p < Len(in) /\ Least(a, Len(in) - p) = len
        BY <1>1, <1>4 DEF Least, len
    <2> HIDE DEF p
    <2>2. CECBytes(in, p, a).error = "none" /\ Len(CECBytes(in, p, a).str) = Least(a, Len(in) - p)
        BY <1>1, <2>1, CECBytesFacts
    <2> QED
        BY <2>1, <2>2 DEF p, x
<1>7. Ends(d, op, frame, made)
    <2>1. op \in Bare \cup {Op.POLLING} \cup FixedOperands \cup Lists /\ 0 < Len(frame)
        BY <1>2
    <2>2. op = IF Len(frame) = 1 THEN Op.POLLING ELSE frame[2]
        BY DEF op
    <2> QED
        BY <2>1, <2>2, DecodedCases DEF made, in, d
<1>8. d.kind = "delivered" /\ d.args = [i \in DOMAIN made |-> made[i].str]
    BY <1>2, <1>5, <1>6, <1>7 DEF Ends
<1>9. [i \in DOMAIN d.args |-> Len(d.args[i])] = <<len>>
    BY <1>5, <1>6, <1>8
<1> QED
    BY <1>8, <1>9 DEF d, op, in, a, len

(* ... and so is a <Report Current Latency> with an address, a latency and *)
(* flags, whether or not an audio output delay follows.                    *)
LEMMA LatencyDelivered ==
    ASSUME NEW frame \in Seq(Byte), 1 < Len(frame), Len(frame) <= 128, NEW error \in ProcessErrors,
           frame[2] = Op.REPORT_CURRENT_LATENCY, Len(SubFrame(frame, 2)) >= 4
    PROVE  LET d == Decoded(frame, error)
           IN  /\ d.kind = "delivered"
               /\ [i \in DOMAIN d.args |-> Len(d.args[i])] = <<2, Least(3, Len(SubFrame(frame, 2)) - 2)>>
<1> DEFINE op == frame[2]
           in == SubFrame(frame, 2)
           made == Constructed(op, in)
           d == Decoded(frame, error)
           x == CECBytes(in, 0, 2)
           y == CECBytes(in, 2, LatencyLen(in))
           rest == Least(3, Len(in) - 2)
<1> HIDE DEF op, in, made, d, x, y, rest
<1>1. in \in Seq(Byte) /\ Len(in) <= 128 /\ Len(in) \in Nat /\ Len(in) >= 4
    BY SubFrameFacts DEF in
<1>2. op \in Lists /\ op # Op.POLLING /\ op = Op.REPORT_CURRENT_LATENCY
    BY OpValues, Groups DEF op
<1>3. made = <<x, y>>
    <2>1. op \notin Bare \cup {Op.POLLING} /\ op \notin FixedOperands /\ op # Op.FEATURE_ABORT
        BY <1>2, Groups
    <2>2. /\ op # Op.REQUEST_SHORT_AUDIO_DESCRIPTOR /\ op # Op.REPORT_SHORT_AUDIO_DESCRIPTOR
          /\ op # Op.REPORT_FEATURES
        BY <1>2, OpValues
    <2>3. made = ReportCurrentLatency(in)
        BY <1>2, <2>1, <2>2 DEF made, Constructed
    <2> QED
        BY <2>3 DEF ReportCurrentLatency, PhysicalAddressLen, x, y
<1>4. x.error = "none" /\ Len(x.str) = 2
    <2> DEFINE p == 0
               len == 2
    <2>1. /\ p \in Nat /\ len \in Nat /\ p <= 256 /\ 0 < len /\ len < 32768 /\ len < 65536
          /\ p < Len(in) /\ Least(len, Len(in) - p) = 2
        BY <1>1 DEF Least
    <2> HIDE DEF p, len
    <2>2. CECBytes(in, p, len).error = "none" /\ Len(CECBytes(in, p, len).str) = Least(len, Len(in) - p)
        BY <1>1, <2>1, CECBytesFacts
    <2>3. CECBytes(in, p, len).error = "none" /\ Len(CECBytes(in, p, len).str) = 2
        BY <2>1, <2>2
    <2>4. x = CECBytes(in, p, len)
        BY DEF x, p, len
    <2> QED
        BY <2>3, <2>4
<1>5. y.error = "none" /\ Len(y.str) = rest
    <2> DEFINE len == LatencyLen(in)
    <2>1. len = Least(5, Len(in)) - 2
        BY <1>1, LatencyType
    <2> HIDE DEF len
    <2>2. len \in Nat /\ 0 < len /\ len < 32768 /\ len < 65536 /\ 2 < Len(in)
        BY <1>1, <2>1 DEF Least
    <2>3. CECBytes(in, 2, len).error = "none" /\ Len(CECBytes(in, 2, len).str) = Least(len, Len(in) - 2)
        BY <1>1, <2>2, CECBytesFacts
    <2>4. Least(len, Len(in) - 2) = rest
        BY <1>1, <2>1 DEF Least, rest
    <2> QED
        BY <2>3, <2>4 DEF y, len
<1>6. DOMAIN made = {1, 2} /\ made[1] = x /\ made[2] = y
    BY <1>3
<1>7. d.kind = "delivered" /\ d.args = [i \in DOMAIN made |-> made[i].str]
    <2>1. op \in Bare \cup {Op.POLLING} \cup FixedOperands \cup Lists /\ 0 < Len(frame)
          /\ op = IF Len(frame) = 1 THEN Op.POLLING ELSE frame[2]
        BY <1>2 DEF op
    <2>2. Ends(d, op, frame, made)
        BY <2>1, DecodedCases DEF made, in, d
    <2>3. \A i \in DOMAIN made : made[i].error = "none"
        BY <1>4, <1>5, <1>6
    <2> QED
        BY <1>2, <2>2, <2>3 DEF Ends
<1>8. DOMAIN d.args = {1, 2} /\ Len(d.args[1]) = 2 /\ Len(d.args[2]) = rest
    BY <1>4, <1>5, <1>6, <1>7
<1>9. [i \in DOMAIN d.args |-> Len(d.args[i])] = <<2, rest>>
    <2> DEFINE args == d.args
    <2> HIDE DEF args
    <2>1. DOMAIN args = {1, 2} /\ Len(args[1]) = 2 /\ Len(args[2]) = rest
        BY <1>8 DEF args
    <2>2. [i \in DOMAIN args |-> Len(args[i])] = <<2, rest>>
        <3> DEFINE l == <<2, rest>>
        <3>1. DOMAIN l = {1, 2} /\ l[1] = 2 /\ l[2] = rest /\ l = [i \in DOMAIN l |-> l[i]]
            OBVIOUS
        <3> HIDE DEF l
        <3>2. DOMAIN args = DOMAIN l /\ \A i \in DOMAIN l : Len(args[i]) = l[i]
            BY <2>1, <3>1
        <3>3. [i \in DOMAIN args |-> Len(args[i])] = l
            BY <3>1, <3>2
        <3> QED
            BY <3>3 DEF l
    <2> QED
        BY <2>2 DEF args
<1> QED
    BY <1>7, <1>9 DEF d, rest, in
-----------------------------------------------------------------------------
(* The operands of a delivered message                                     *)

(* g[i] is the first i sequences put together, as FlattenSeq has it.       *)
Flattens(g, seqs) ==
    g = [i \in 1 .. Len(seqs) |-> IF i = 1 THEN seqs[i] ELSE g[i - 1] \o seqs[i]]

(* FlattenSeq's recursive function is one of these, if there is one ...    *)
LEMMA FlattenUnfold ==
    ASSUME NEW seqs, Len(seqs) # 0, NEW g, Flattens(g, seqs)
    PROVE  \E f : Flattens(f, seqs) /\ FlattenSeq(seqs) = f[Len(seqs)]
<1> DEFINE f == CHOOSE f : f = [i \in 1 .. Len(seqs) |-> IF i = 1 THEN seqs[i] ELSE f[i - 1] \o seqs[i]]
<1>1. f = [i \in 1 .. Len(seqs) |-> IF i = 1 THEN seqs[i] ELSE f[i - 1] \o seqs[i]]
    <2>1. \E h : h = [i \in 1 .. Len(seqs) |-> IF i = 1 THEN seqs[i] ELSE h[i - 1] \o seqs[i]]
        BY DEF Flattens
    <2> QED
        BY <2>1, Zenon
<1>2. FlattenSeq(seqs) = f[Len(seqs)]
    BY Zenon DEF FlattenSeq
<1>3. Flattens(f, seqs)
    BY <1>1 DEF Flattens
<1> HIDE DEF f
<1> QED
    BY <1>2, <1>3

(* ... and there is only one: were there two, they would differ for the    *)
(* first time somewhere.                                                   *)
LEMMA Flattened ==
    ASSUME NEW seqs, NEW n \in Nat, 0 < n, Len(seqs) = n, NEW g, Flattens(g, seqs)
    PROVE  FlattenSeq(seqs) = g[n]
<1>1. PICK f : Flattens(f, seqs) /\ FlattenSeq(seqs) = f[n]
    BY FlattenUnfold
<1> DEFINE D == {i \in 1 .. n : f[i] # g[i]}
<1>2. ASSUME D # {} PROVE FALSE
    <2>1. D \in SUBSET Nat
        OBVIOUS
    <2> DEFINE m == Min(D)
    <2> HIDE DEF m, D
    <2>2. m \in D /\ \A k \in D : m <= k
        BY <1>2, <2>1, SmallestNumber DEF m
    <2>3. m \in 1 .. n /\ f[m] # g[m]
        BY <2>2 DEF D
    <2>4. /\ f[m] = IF m = 1 THEN seqs[m] ELSE f[m - 1] \o seqs[m]
          /\ g[m] = IF m = 1 THEN seqs[m] ELSE g[m - 1] \o seqs[m]
        BY <1>1, <2>3 DEF Flattens
    <2>5. m # 1
        BY <2>3, <2>4
    <2>6. m - 1 \in 1 .. n /\ ~ (m <= m - 1)
        BY <2>3, <2>5
    <2>7. f[m - 1] = g[m - 1]
        BY <2>2, <2>6 DEF D
    <2> QED
        BY <2>3, <2>4, <2>5, <2>7
<1> QED
    BY <1>1, <1>2

(* s is the piece of a frame that starts behind p bytes and has len bytes, *)
(* or what there is of it.                                                 *)
Piece(in, p, len, s) ==
    p < Len(in) /\ Len(s) = Least(len, Len(in) - p) /\ s = SubSeq(in, p + 1, p + Len(s))

(* The i-th of n pieces goes from the cut e[i - 1] to the cut e[i].        *)
Cuts(in, n, args, e) ==
    /\ e[0] = 0 /\ \A i \in 0 .. n : e[i] \in Nat /\ e[i] <= Len(in)
    /\ \A i \in 1 .. n : e[i - 1] <= e[i] /\ args[i] = SubSeq(in, e[i - 1] + 1, e[i])

(* Pieces of a frame that end where the next one starts make up the frame  *)
(* to the end of the last one.                                             *)
LEMMA Joined ==
    ASSUME NEW in \in Seq(Byte), NEW n \in Nat, 0 < n, NEW args, Len(args) = n, NEW e,
           Cuts(in, n, args, e)
    PROVE  FlattenSeq(args) = SubSeq(in, 1, e[n])
<1> USE DEF Cuts
<1> DEFINE g == [i \in 1 .. n |-> SubSeq(in, 1, e[i])]
           r(i) == IF i = 1 THEN args[i] ELSE g[i - 1] \o args[i]
<1>1. ASSUME NEW i \in 1 .. n PROVE g[i] = r(i)
    <2>1. g[i] = SubSeq(in, 1, e[i]) /\ (i # 1 => g[i - 1] = SubSeq(in, 1, e[i - 1]))
        <3>1. \A k \in 1 .. n : g[k] = SubSeq(in, 1, e[k])
            OBVIOUS
        <3>2. i # 1 => i - 1 \in 1 .. n
            OBVIOUS
        <3> HIDE DEF g
        <3> QED
            BY <3>1, <3>2
    <2>2. CASE i = 1
        <3>1. args[i] = SubSeq(in, 1, e[i])
            <4>1. args[i] = SubSeq(in, e[i - 1] + 1, e[i]) /\ i - 1 = 0
                BY <2>2
            <4>2. e[i - 1] + 1 = 1
                BY <4>1
            <4> QED
                BY <4>1, <4>2
        <3> HIDE DEF g
        <3> QED
            BY <2>1, <2>2, <3>1
    <2>3. CASE i # 1
        <3> DEFINE k == e[i - 1]
                   m == e[i]
        <3>1. i - 1 \in 0 .. n /\ i \in 0 .. n
            BY <2>3
        <3>2. k \in Nat /\ m \in Nat /\ k <= m /\ m <= Len(in) /\ args[i] = SubSeq(in, k + 1, m)
            BY <3>1
        <3>3. Len(in) \in Nat
            OBVIOUS
        <3> HIDE DEF k, m
        <3>4. 1 \in 1 .. Len(in) + 1 /\ k \in 1 - 1 .. Len(in) /\ m \in k .. Len(in)
            BY <3>2, <3>3
        <3>5. SubSeq(in, 1, k) \o SubSeq(in, k + 1, m) = SubSeq(in, 1, m)
            BY <3>4, ConcatAdjacentSubSeq
        <3>6. g[i] = SubSeq(in, 1, m) /\ g[i - 1] = SubSeq(in, 1, k)
            BY <2>1, <2>3 DEF k, m
        <3> HIDE DEF g
        <3> QED
            BY <2>3, <3>2, <3>5, <3>6
    <2> QED
        BY <2>2, <2>3
<1> HIDE DEF Cuts
<1>2. g[n] = SubSeq(in, 1, e[n]) /\ DOMAIN g = 1 .. n /\ g = [i \in 1 .. n |-> g[i]]
    <2>1. n \in 1 .. n
        OBVIOUS
    <2>2. g[n] = SubSeq(in, 1, e[n])
        BY <2>1
    <2>3. DOMAIN g = 1 .. n /\ g = [i \in 1 .. n |-> g[i]]
        OBVIOUS
    <2> QED
        BY <2>2, <2>3
<1>3. Flattens(g, args)
    <2> HIDE DEF g
    <2>1. \A i \in 1 .. n : g[i] = IF i = 1 THEN args[i] ELSE g[i - 1] \o args[i]
        BY <1>1
    <2> QED
        BY <1>2, <2>1 DEF Flattens
<1> HIDE DEF g
<1> QED
    BY <1>2, <1>3, Flattened

(* How far a piece reaches.                                                *)
LEMMA PieceFacts ==
    ASSUME NEW in \in Seq(Byte), NEW p \in Nat, NEW len \in Nat, NEW s, Piece(in, p, len, s)
    PROVE  /\ Len(s) \in Nat /\ p < Len(in) /\ p + Len(s) <= Len(in)
           /\ s = SubSeq(in, p + 1, p + Len(s)) /\ (p + len < Len(in) => Len(s) = len)
<1> DEFINE L == Len(in)
<1>1. L \in Nat
    OBVIOUS
<1> HIDE DEF L
<1>2. p < L /\ Len(s) = Least(len, L - p) /\ s = SubSeq(in, p + 1, p + Len(s))
    BY DEF Piece, L
<1>3. Len(s) \in Nat /\ p < L /\ p + Len(s) <= L /\ (p + len < L => Len(s) = len)
    BY <1>1, <1>2 DEF Least
<1> QED
    BY <1>2, <1>3 DEF L

(* The n operands are pieces, and each is meant to start where the one     *)
(* before it is meant to end.                                              *)
Laid(in, n, args, p, len) ==
    /\ p[1] = 0 /\ \A i \in 1 .. n - 1 : p[i + 1] = p[i] + len[i]
    /\ \A i \in 1 .. n : p[i] \in Nat /\ len[i] \in Nat /\ Piece(in, p[i], len[i], args[i])

(* Such operands make up the frame as far as the last one reaches: only    *)
(* that one may be cut short.                                              *)
LEMMA Covered ==
    ASSUME NEW in \in Seq(Byte), NEW n \in Nat, 0 < n, NEW args, Len(args) = n, NEW p, NEW len,
           Laid(in, n, args, p, len)
    PROVE  LET end == p[n] + Len(args[n])
           IN  end \in Nat /\ end <= Len(in) /\ FlattenSeq(args) = SubSeq(in, 1, end)
<1> DEFINE L == Len(in)
           end == p[n] + Len(args[n])
           e == [i \in 0 .. n |-> IF i = n THEN end ELSE p[i + 1]]
<1> USE DEF Laid
<1>1. L \in Nat
    OBVIOUS
<1> HIDE DEF L
<1>2. /\ p[n] \in Nat /\ p[n] < L /\ Len(args[n]) \in Nat /\ p[n] + Len(args[n]) <= L
      /\ args[n] = SubSeq(in, p[n] + 1, p[n] + Len(args[n]))
    <2>1. n \in 1 .. n
        OBVIOUS
    <2> DEFINE q == p[n]
               l == len[n]
               a == args[n]
    <2>2. q \in Nat /\ l \in Nat /\ Piece(in, q, l, a)
        BY <2>1
    <2> HIDE DEF q, l, a
    <2>3. Len(a) \in Nat /\ q < Len(in) /\ q + Len(a) <= Len(in) /\ a = SubSeq(in, q + 1, q + Len(a))
        BY <2>2, PieceFacts
    <2> QED
        BY <2>2, <2>3 DEF q, a, L
<1>3. ASSUME NEW i \in 1 .. n - 1
      PROVE  /\ p[i] \in Nat /\ p[i + 1] \in Nat /\ p[i] <= p[i + 1] /\ p[i + 1] < L
             /\ args[i] = SubSeq(in, p[i] + 1, p[i + 1])
    <2>1. i \in 1 .. n /\ i + 1 \in 1 .. n
        OBVIOUS
    <2> DEFINE q == p[i]
               l == len[i]
               a == args[i]
               next == p[i + 1]
    <2>2. q \in Nat /\ l \in Nat /\ Piece(in, q, l, a) /\ next = q + l /\ next < Len(in)
        <3>1. Piece(in, p[i + 1], len[i + 1], args[i + 1])
            BY <2>1
        <3> QED
            BY <2>1, <3>1 DEF Piece
    <2> HIDE DEF q, l, a, next
    <2>3. a = SubSeq(in, q + 1, q + l)
        <3>1. a = SubSeq(in, q + 1, q + Len(a)) /\ (q + l < Len(in) => Len(a) = l)
            BY <2>2, PieceFacts
        <3> QED
            BY <2>2, <3>1
    <2>4. q \in Nat /\ next \in Nat /\ q <= next /\ next < L /\ a = SubSeq(in, q + 1, next)
        BY <2>2, <2>3 DEF L
    <2> QED
        BY <2>4 DEF q, next, a
<1>4. end \in Nat /\ end <= L
    BY <1>2
<1> HIDE DEF end
<1>5. /\ e[n] = end /\ e[0] = 0
      /\ \A i \in 1 .. n - 1 : e[i] = p[i + 1]
      /\ \A i \in 1 .. n : e[i - 1] = p[i]
    <2>1. \A i \in 0 .. n : e[i] = IF i = n THEN end ELSE p[i + 1]
        OBVIOUS
    <2> HIDE DEF e
    <2>2. ASSUME NEW i \in 1 .. n PROVE e[i - 1] = p[i]
        <3>1. i - 1 \in 0 .. n /\ i - 1 # n /\ (i - 1) + 1 = i
            OBVIOUS
        <3>2. e[i - 1] = p[(i - 1) + 1]
            BY <2>1, <3>1
        <3> QED
            BY <3>1, <3>2
    <2>3. e[0] = 0
        BY <2>1
    <2> QED
        BY <2>1, <2>2, <2>3
<1> HIDE DEF e
<1>6. \A i \in 0 .. n : e[i] \in Nat /\ e[i] <= Len(in)
    <2>1. ASSUME NEW i \in 1 .. n - 1 PROVE e[i] \in Nat /\ e[i] <= L
        <3>1. e[i] = p[i + 1]
            BY <1>5
        <3>2. p[i + 1] \in Nat /\ p[i + 1] < L
            BY <1>3
        <3> QED
            BY <1>1, <3>1, <3>2
    <2>2. e[n] \in Nat /\ e[n] <= L /\ e[0] \in Nat /\ e[0] <= L
        BY <1>1, <1>4, <1>5
    <2>3. \A i \in 0 .. n : i = 0 \/ i = n \/ i \in 1 .. n - 1
        OBVIOUS
    <2> QED
        BY <2>1, <2>2, <2>3 DEF L
<1>7. \A i \in 1 .. n : e[i - 1] <= e[i] /\ args[i] = SubSeq(in, e[i - 1] + 1, e[i])
    <2>1. ASSUME NEW i \in 1 .. n - 1
          PROVE  e[i - 1] <= e[i] /\ args[i] = SubSeq(in, e[i - 1] + 1, e[i])
        <3>1. i \in 1 .. n
            OBVIOUS
        <3> QED
            BY <1>3, <1>5, <3>1
    <2>2. e[n - 1] <= e[n] /\ args[n] = SubSeq(in, e[n - 1] + 1, e[n])
        <3>1. n \in 1 .. n
            OBVIOUS
        <3>2. e[n - 1] = p[n]
            BY <1>5, <3>1
        <3> QED
            BY <1>2, <1>5, <3>2 DEF end
    <2>3. \A i \in 1 .. n : i = n \/ i \in 1 .. n - 1
        OBVIOUS
    <2> QED
        BY <2>1, <2>2, <2>3
<1>8. FlattenSeq(args) = SubSeq(in, 1, e[n])
    <2>1. Cuts(in, n, args, e)
        BY <1>5, <1>6, <1>7 DEF Cuts
    <2> QED
        BY <2>1, Joined
<1>9. end \in Nat /\ end <= Len(in) /\ FlattenSeq(args) = SubSeq(in, 1, end)
    BY <1>4, <1>5, <1>8 DEF L
<1> QED
    BY <1>9 DEF end

(* An operand that could be had is a piece of the frame.                   *)
LEMMA PieceOf ==
    ASSUME NEW in \in Seq(Byte), Len(in) <= 128, NEW p \in Nat, p <= 256, NEW len \in Nat, len < 65536,
           CECBytes(in, p, len).error = "none"
    PROVE  Piece(in, p, len, CECBytes(in, p, len).str)
BY CECBytesFacts DEF Piece

(* The beginning of a frame is a prefix of it.                             *)
LEMMA Beginning ==
    ASSUME NEW in \in Seq(Byte), NEW end \in Nat, end <= Len(in)
    PROVE  IsPrefix(SubSeq(in, 1, end), in)
<1> DEFINE s == SubSeq(in, 1, end)
<1>1. s \in Seq(Byte) /\ Len(s) = end
    OBVIOUS
<1> HIDE DEF s
<1>2. SubSeq(s, 1, Len(s)) = s
    BY <1>1, SubSeqFull
<1>3. s = SubSeq(in, 1, Len(s))
    BY <1>1 DEF s
<1>4. IsPrefix(s, in)
    BY <1>1, <1>2, <1>3 DEF IsPrefix
<1> QED
    BY <1>4 DEF s

(* One operand, two operands, and the four of <Report Features>.           *)
LEMMA LaidOne ==
    ASSUME NEW in, NEW a \in Nat, NEW x, Piece(in, 0, a, x)
    PROVE  Laid(in, 1, <<x>>, <<0>>, <<a>>)
BY DEF Laid

(* The second one is meant to start behind the first.                      *)
LEMMA LaidTwo ==
    ASSUME NEW in, NEW a \in Nat, NEW b \in Nat, NEW x, NEW y, Piece(in, 0, a, x), Piece(in, a, b, y)
    PROVE  Laid(in, 2, <<x, y>>, <<0, a>>, <<a, b>>)
<1> DEFINE p == <<0, a>>
           len == <<a, b>>
           args == <<x, y>>
<1>1. /\ p[1] = 0 /\ p[2] = a /\ len[1] = a /\ len[2] = b /\ args[1] = x /\ args[2] = y
      /\ p[1 + 1] = p[1] + len[1]
    OBVIOUS
<1> HIDE DEF p, len, args
<1>2. \A i \in 1 .. 2 : p[i] \in Nat /\ len[i] \in Nat /\ Piece(in, p[i], len[i], args[i])
    <2>1. \A i \in 1 .. 2 : i = 1 \/ i = 2
        OBVIOUS
    <2> QED
        BY <1>1, <2>1
<1>3. \A i \in 1 .. 2 - 1 : p[i + 1] = p[i] + len[i]
    <2>1. \A i \in 1 .. 2 - 1 : i = 1
        OBVIOUS
    <2> QED
        BY <1>1, <2>1
<1>4. Laid(in, 2, args, p, len)
    BY <1>1, <1>2, <1>3 DEF Laid
<1> QED
    BY <1>4 DEF p, len, args

(* [CEC Version] and [All Device Types] are bytes, the others have the     *)
(* lengths `rc' and `features'.                                            *)
LEMMA LaidFour ==
    ASSUME NEW in, NEW rc \in Nat, NEW features \in Nat, NEW args,
           Piece(in, 0, 1, args[1]), Piece(in, 1, 1, args[2]),
           Piece(in, 2, rc, args[3]), Piece(in, 2 + rc, features, args[4])
    PROVE  Laid(in, 4, args, <<0, 1, 2, 2 + rc>>, <<1, 1, rc, features>>)
<1> DEFINE p == <<0, 1, 2, 2 + rc>>
           len == <<1, 1, rc, features>>
<1>1. /\ p[1] = 0 /\ p[2] = 1 /\ p[3] = 2 /\ p[4] = 2 + rc
      /\ len[1] = 1 /\ len[2] = 1 /\ len[3] = rc /\ len[4] = features
    OBVIOUS
<1> HIDE DEF p, len
<1>2. \A i \in 1 .. 4 : p[i] \in Nat /\ len[i] \in Nat /\ Piece(in, p[i], len[i], args[i])
    <2>1. \A i \in 1 .. 4 : i = 1 \/ i = 2 \/ i = 3 \/ i = 4
        OBVIOUS
    <2>2. 2 + rc \in Nat
        OBVIOUS
    <2> QED
        BY <1>1, <2>1, <2>2
<1>3. \A i \in 1 .. 4 - 1 : p[i + 1] = p[i] + len[i]
    <2>1. \A i \in 1 .. 4 - 1 : i = 1 \/ i = 2 \/ i = 3
        OBVIOUS
    <2>2. p[1 + 1] = p[1] + len[1] /\ p[2 + 1] = p[2] + len[2] /\ p[3 + 1] = p[3] + len[3]
        BY <1>1
    <2> QED
        BY <2>1, <2>2
<1>4. Laid(in, 4, args, p, len)
    BY <1>1, <1>2, <1>3 DEF Laid
<1> QED
    BY <1>4 DEF p, len

(* All operands could be had; their strings.                               *)
Clean(made) == \A i \in DOMAIN made : made[i].error = "none"
Strs(made) == [i \in DOMAIN made |-> made[i].str]

(* There is a way to lay out the operands.                                 *)
LaidOut(in, args) ==
    \E n \in Nat : 0 < n /\ Len(args) = n /\ \E p, len : Laid(in, n, args, p, len)

(* The string of a single operand, ...                                     *)
LEMMA StrsOfOne ==
    ASSUME NEW x, Clean(<<x>>)
    PROVE  Strs(<<x>>) = <<x.str>> /\ x.error = "none"
<1>1. DOMAIN <<x>> = {1}
    OBVIOUS
<1> QED
    BY <1>1 DEF Strs, Clean

(* ... and the strings of two.                                             *)
LEMMA StrsOfTwo ==
    ASSUME NEW x, NEW y, Clean(<<x, y>>)
    PROVE  Strs(<<x, y>>) = <<x.str, y.str>> /\ x.error = "none" /\ y.error = "none"
<1>1. DOMAIN <<x, y>> = {1, 2}
    OBVIOUS
<1>2. Strs(<<x, y>>) = <<x.str, y.str>>
    BY <1>1 DEF Strs
<1>3. x.error = "none" /\ y.error = "none"
    BY <1>1 DEF Clean
<1> QED
    BY <1>2, <1>3

(* Two operands cut out of a frame, the second behind the first.           *)
LEMMA TwoLaidOut ==
    ASSUME NEW in \in Seq(Byte), Len(in) <= 128, NEW a \in Nat, NEW b \in Nat, a <= 256, b < 65536,
           NEW made, made = <<CECBytes(in, 0, a), CECBytes(in, a, b)>>, Clean(made)
    PROVE  LaidOut(in, Strs(made))
<1> DEFINE x == CECBytes(in, 0, a)
           y == CECBytes(in, a, b)
<1>1. x.error = "none" /\ y.error = "none" /\ Strs(made) = <<x.str, y.str>>
    <2> HIDE DEF x, y
    <2>1. made = <<x, y>> /\ Clean(<<x, y>>)
        BY DEF x, y
    <2> QED
        BY <2>1, StrsOfTwo
<1>2. Piece(in, 0, a, x.str) /\ Piece(in, a, b, y.str)
    BY <1>1, PieceOf
<1> DEFINE s == x.str
           t == y.str
<1> HIDE DEF x, y, s, t
<1>3. Laid(in, 2, <<s, t>>, <<0, a>>, <<a, b>>)
    BY <1>2, LaidTwo DEF s, t
<1>4. 2 \in Nat /\ 0 < 2 /\ Len(<<s, t>>) = 2
    OBVIOUS
<1>5. LaidOut(in, <<s, t>>)
    BY <1>3, <1>4 DEF LaidOut
<1> QED
    BY <1>1, <1>5 DEF s, t

(* A single operand.                                                       *)
LEMMA OneLaidOut ==
    ASSUME NEW in \in Seq(Byte), Len(in) <= 128, NEW a \in Nat, a <= 256,
           NEW made, made = <<CECBytes(in, 0, a)>>, Clean(made)
    PROVE  LaidOut(in, Strs(made))
<1> DEFINE x == CECBytes(in, 0, a)
<1>1. x.error = "none" /\ Strs(made) = <<x.str>>
    <2> HIDE DEF x
    <2>1. made = <<x>> /\ Clean(<<x>>)
        BY DEF x
    <2> QED
        BY <2>1, StrsOfOne
<1>2. Piece(in, 0, a, x.str)
    BY <1>1, PieceOf
<1> DEFINE s == x.str
<1> HIDE DEF x, s
<1>3. Laid(in, 1, <<s>>, <<0>>, <<a>>)
    BY <1>2, LaidOne DEF s
<1>4. 1 \in Nat /\ 0 < 1 /\ Len(<<s>>) = 1
    OBVIOUS
<1>5. LaidOut(in, <<s>>)
    BY <1>3, <1>4 DEF LaidOut
<1> QED
    BY <1>1, <1>5 DEF s

(* Operands that all have the same length.                                 *)
LEMMA EvenLaidOut ==
    ASSUME NEW in \in Seq(Byte), Len(in) <= 128, NEW n \in Nat, 0 < n, NEW k \in Nat, n * k <= 128,
           0 < k, k <= 3,
           NEW made, made = [i \in 1 .. n |-> CECBytes(in, (i - 1) * k, k)], Clean(made)
    PROVE  LaidOut(in, Strs(made))
<1> DEFINE p == [i \in 1 .. n |-> (i - 1) * k]
           len == [i \in 1 .. n |-> k]
           args == Strs(made)
<1>1. DOMAIN made = 1 .. n
    OBVIOUS
<1>2. Len(args) = n /\ \A i \in 1 .. n : args[i] = made[i].str
    BY <1>1 DEF Strs
<1> HIDE DEF args
<1>3. ASSUME NEW i \in 1 .. n
      PROVE  p[i] \in Nat /\ p[i] <= 256 /\ len[i] = k
    <2>1. (i - 1) * k \in Nat /\ (i - 1) * k <= 256
        <3>1. k = 1 \/ k = 2 \/ k = 3
            OBVIOUS
        <3> QED
            BY <3>1
    <2> QED
        BY <2>1
<1>4. ASSUME NEW i \in 1 .. n PROVE Piece(in, p[i], len[i], args[i])
    <2> DEFINE q == p[i]
    <2>1. q \in Nat /\ q <= 256 /\ len[i] = k /\ made[i] = CECBytes(in, q, k)
        BY <1>3
    <2> HIDE DEF q
    <2>2. CECBytes(in, q, k).error = "none"
        BY <1>1, <2>1 DEF Clean
    <2>3. Piece(in, q, k, CECBytes(in, q, k).str)
        BY <2>1, <2>2, PieceOf
    <2> QED
        BY <1>2, <2>1, <2>3 DEF q
<1>5. p[1] = 0 /\ \A i \in 1 .. n - 1 : p[i + 1] = p[i] + len[i]
    <2>1. ASSUME NEW i \in 1 .. n - 1 PROVE p[i + 1] = p[i] + len[i]
        <3>1. i \in 1 .. n /\ i + 1 \in 1 .. n
            OBVIOUS
        <3>2. p[i] = (i - 1) * k /\ p[i + 1] = ((i + 1) - 1) * k /\ len[i] = k
            BY <3>1
        <3>3. ((i + 1) - 1) * k = (i - 1) * k + k
            <4>1. k = 1 \/ k = 2 \/ k = 3
                OBVIOUS
            <4> QED
                BY <4>1
        <3> QED
            BY <3>2, <3>3
    <2>2. p[1] = (1 - 1) * k
        OBVIOUS
    <2> QED
        BY <2>1, <2>2
<1> HIDE DEF p, len
<1>6. Laid(in, n, args, p, len)
    BY <1>3, <1>4, <1>5 DEF Laid
<1>7. LaidOut(in, args)
    BY <1>2, <1>6 DEF LaidOut
<1> QED
    BY <1>7 DEF args

(* Where an operand with extension bits ends: at its first byte without    *)
(* the bit, if there is one.                                               *)
LEMMA ExtendedShape ==
    ASSUME NEW in \in Seq(Byte), NEW first \in Nat, first < Len(in)
    PROVE  LET x == Extended(in, first)
           IN  /\ x \in Nat /\ 0 < x
               /\ \A j \in Nat : first <= j /\ j < first + x - 1 => Bit(in[j + 1], 7) = 1
               /\ first + x - 1 < Len(in) => Bit(in[first + x], 7) # 1
<1> DEFINE L == Len(in)
           P(i) == \A j \in first .. i : Bit(in[j + 1], 7) = 1
           T == {i \in first .. L - 1 : P(i)}
           U == {i \in first .. L : i \notin T}
           m == Min(U)
           x == Extended(in, first)
<1>1. L \in Nat /\ first < L
    OBVIOUS
<1>2. x = 1 + Cardinality(T)
    BY DEF Extended
<1>3. \A i \in T : i \in first .. L - 1 /\ P(i)
    OBVIOUS
<1>4. \A i \in first .. L - 1 : P(i) => i \in T
    OBVIOUS
<1> HIDE DEF T, L, P
<1>5. U \in SUBSET Nat /\ L \in U
    BY <1>1, <1>3
<1>6. m \in U /\ \A k \in U : m <= k
    BY <1>5, SmallestNumber
<1> HIDE DEF m
<1>7. m \in Nat /\ first <= m /\ m <= L /\ m \notin T /\ \A i \in first .. m - 1 : i \in T
    <2>1. m \in first .. L /\ m \notin T
        BY <1>6
    <2>2. ASSUME NEW i \in first .. m - 1 PROVE i \in T
        <3>1. i \in first .. L /\ ~ (m <= i)
            BY <1>1, <2>1
        <3> QED
            BY <1>6, <3>1
    <2> QED
        BY <1>1, <2>1, <2>2
<1>8. T = first .. m - 1
    <2>1. ASSUME NEW i \in T, m <= i PROVE FALSE
        <3>1. i \in first .. L - 1 /\ P(i)
            BY <1>3
        <3>2. P(m)
            BY <1>1, <1>7, <2>1, <3>1 DEF P
        <3>3. m \in first .. L - 1
            BY <1>1, <1>7, <2>1, <3>1
        <3> QED
            BY <1>4, <1>7, <3>2, <3>3
    <2>2. ASSUME NEW i \in T PROVE i \in first .. m - 1
        BY <1>1, <1>3, <1>7, <2>1, <2>2
    <2> QED
        BY <1>7, <2>2
<1>9. Cardinality(T) = m - first
    <2> DEFINE b == m - 1
    <2>1. first \in Int /\ b \in Int /\ (IF first > b THEN 0 ELSE b - first + 1) = m - first /\ T = first .. b
        BY <1>7, <1>8
    <2> HIDE DEF b
    <2>2. Cardinality(first .. b) = IF first > b THEN 0 ELSE b - first + 1
        BY <2>1, FS_Interval
    <2> QED
        BY <2>1, <2>2
<1>10. x \in Nat /\ 0 < x /\ first + x - 1 = m /\ first + x = m + 1
    BY <1>2, <1>7, <1>9
<1> HIDE DEF x
<1>11. ASSUME NEW j \in Nat, first <= j, j < first + x - 1 PROVE Bit(in[j + 1], 7) = 1
    <2>1. j \in first .. m - 1 /\ j \in first .. j
        BY <1>7, <1>10, <1>11
    <2>2. P(j)
        BY <1>3, <1>7, <2>1
    <2> QED
        BY <2>1, <2>2 DEF P
<1>12. ASSUME first + x - 1 < Len(in), Bit(in[first + x], 7) = 1 PROVE FALSE
    <2>1. m < L /\ Bit(in[m + 1], 7) = 1
        BY <1>10, <1>12 DEF L
    <2>2. m \in first .. L - 1
        BY <1>1, <1>7, <2>1
    <2>3. ASSUME NEW j \in first .. m PROVE Bit(in[j + 1], 7) = 1
        <3>1. j = m \/ (j \in Nat /\ first <= j /\ j < first + x - 1)
            BY <1>7, <1>10
        <3> QED
            BY <1>11, <2>1, <3>1
    <2>4. P(m)
        BY <2>3 DEF P
    <2> QED
        BY <1>4, <1>7, <2>2, <2>4
<1>13. /\ x \in Nat /\ 0 < x
       /\ \A j \in Nat : first <= j /\ j < first + x - 1 => Bit(in[j + 1], 7) = 1
       /\ first + x - 1 < Len(in) => Bit(in[first + x], 7) # 1
    BY <1>10, <1>11, <1>12
<1> QED
    BY <1>13 DEF x

(* A bit is zero or one.                                                   *)
LEMMA BitValue == ASSUME NEW b \in Byte PROVE Bit(b, 7) = 0 \/ Bit(b, 7) = 1
<1>1. b \in Int /\ 0 <= b
    BY DEF Byte
<1>2. 2 ^ 7 = 128
    OBVIOUS
<1>3. (b \div 128) % 2 = 0 \/ (b \div 128) % 2 = 1
    BY <1>1
<1> QED
    BY <1>2, <1>3 DEF Bit

(* The getter returns all of an operand whose bytes but the last one have  *)
(* the extension bit.                                                      *)
LEMMA WholeChain ==
    ASSUME NEW str \in Seq(Byte), NEW n, n = Len(str), 0 < n,
           \A i \in 1 .. n - 1 : Bit(str[i], 7) = 1
    PROVE  GetByteChain(str) = str
<1> DEFINE S == {i \in DOMAIN str : Bit(str[i], 7) = 0 \/ i = Len(str)}
<1>1. n \in Nat /\ DOMAIN str = 1 .. n
    OBVIOUS
<1>2. S = {n}
    <2>1. \A i \in 1 .. n : i = n \/ i \in 1 .. n - 1
        BY <1>1
    <2>2. n \in 1 .. n
        BY <1>1
    <2> QED
        BY <1>1, <2>1, <2>2
<1>3. GetByteChain(str) = SubSeq(str, 1, Min(S))
    BY DEF GetByteChain
<1> HIDE DEF S
<1>4. Min(S) \in S
    BY <1>1, <1>2, SmallestNumber
<1>5. Min(S) = Len(str)
    BY <1>2, <1>4
<1> QED
    BY <1>3, <1>5, SubSeqFull

(* The four operands of <Report Features>.                                 *)
LEMMA FeaturesLaid ==
    ASSUME NEW in \in Seq(Byte), Len(in) <= 128, NEW made, made = ReportFeatures(in), Clean(made),
           NEW rc, rc = Extended(in, 2), NEW features, features = Extended(in, 2 + rc)
    PROVE  LET args == Strs(made)
           IN  /\ Len(args) = 4 /\ rc \in Nat /\ features \in Nat
               /\ Piece(in, 2, rc, args[3]) /\ Piece(in, 2 + rc, features, args[4])
               /\ Laid(in, 4, args, <<0, 1, 2, 2 + rc>>, <<1, 1, rc, features>>)
<1> DEFINE args == Strs(made)
           a == CECBytes(in, 0, 1)
           b == CECBytes(in, 1, 1)
           c == CECBytes(in, 2, rc)
           d == CECBytes(in, 2 + rc, features)
<1>1. Len(in) \in Nat
    OBVIOUS
<1>2. rc \in Nat /\ rc <= 129
    <2>1. rc \in Nat /\ rc <= 1 + Len(in)
        BY ExtendedType
    <2> QED
        BY <1>1, <2>1
<1>3. features \in Nat /\ features <= 129
    <2>1. 2 + rc \in Nat
        BY <1>2
    <2>2. features \in Nat /\ features <= 1 + Len(in)
        BY <2>1, ExtendedType
    <2> QED
        BY <1>1, <2>2
<1>4. made = <<a, b, c, d>>
    BY DEF ReportFeatures, VersionLen, AllDeviceTypesLen
<1> HIDE DEF a, b, c, d
<1>5. DOMAIN made = 1 .. 4 /\ made[1] = a /\ made[2] = b /\ made[3] = c /\ made[4] = d
    BY <1>4
<1>6. a.error = "none" /\ b.error = "none" /\ c.error = "none" /\ d.error = "none"
    <2>1. 1 \in 1 .. 4 /\ 2 \in 1 .. 4 /\ 3 \in 1 .. 4 /\ 4 \in 1 .. 4
        OBVIOUS
    <2> QED
        BY <1>5, <2>1 DEF Clean
<1>7. args[1] = a.str /\ args[2] = b.str /\ args[3] = c.str /\ args[4] = d.str /\ Len(args) = 4
    BY <1>5 DEF Strs
<1> HIDE DEF args
<1>8. \A q, l \in Nat : q <= 256 /\ l < 65536 /\ CECBytes(in, q, l).error = "none" =>
                          Piece(in, q, l, CECBytes(in, q, l).str)
    BY PieceOf
<1>9. Piece(in, 0, 1, args[1]) /\ Piece(in, 1, 1, args[2])
    BY <1>6, <1>7, <1>8 DEF a, b
<1>10. Piece(in, 2, rc, args[3])
    <2> DEFINE p == 2
    <2>1. p \in Nat /\ p <= 256 /\ rc < 65536
        BY <1>2
    <2>2. CECBytes(in, p, rc).error = "none" /\ args[3] = CECBytes(in, p, rc).str
        BY <1>6, <1>7 DEF c
    <2> HIDE DEF p
    <2>3. Piece(in, p, rc, CECBytes(in, p, rc).str)
        BY <1>2, <1>8, <2>1, <2>2
    <2>4. Piece(in, p, rc, args[3])
        BY <2>2, <2>3
    <2> QED
        BY <2>4 DEF p
<1>11. Piece(in, 2 + rc, features, args[4])
    <2> DEFINE p == 2 + rc
    <2>1. p \in Nat /\ p <= 256 /\ features < 65536
        BY <1>2, <1>3
    <2>2. CECBytes(in, p, features).error = "none" /\ args[4] = CECBytes(in, p, features).str
        BY <1>6, <1>7 DEF d
    <2> HIDE DEF p
    <2>3. Piece(in, p, features, CECBytes(in, p, features).str)
        BY <1>3, <1>8, <2>1, <2>2
    <2>4. Piece(in, p, features, args[4])
        BY <2>2, <2>3
    <2> QED
        BY <2>4 DEF p
<1>12. Laid(in, 4, args, <<0, 1, 2, 2 + rc>>, <<1, 1, rc, features>>)
    BY <1>2, <1>3, <1>9, <1>10, <1>11, LaidFour
<1> QED
    BY <1>2, <1>3, <1>7, <1>10, <1>11, <1>12 DEF args

(* The operands of a message with a fixed list of them.                    *)
LEMMA FixedLaidOut ==
    ASSUME NEW in \in Seq(Byte), Len(in) <= 128, NEW op \in FixedOperands,
           NEW made, made = Constructed(op, in), Clean(made)
    PROVE  LaidOut(in, Strs(made))
<1>1. PICK a, b \in OperandLen : Layout[op] = <<a>> \/ Layout[op] = <<a, b>>
    BY LayoutType DEF IsLayout
<1>2. a \in Nat /\ b \in Nat /\ 0 < a /\ a <= 256 /\ b < 65536
    BY DEF OperandLen
<1>3. op \notin Bare \cup {Op.POLLING} /\ op \notin Lists
    BY Groups
<1>4. CASE op = Op.FEATURE_ABORT
    <2> DEFINE x == At(in, 0)
               y == CECBytes(in, 1, 1)
               z == CECBytes(in, 0, 1)
    <2>1. made = <<x, y>>
        BY <1>3, <1>4 DEF Constructed, Lists, FeatureAbort, OpCodeLen, AbortReasonLen
    <2>2. x.error = "none"
        <3> HIDE DEF x, y
        <3> QED
            BY <2>1, StrsOfTwo
    <2>3. 0 < Len(in) /\ x = [error |-> "none", str |-> <<in[1]>>]
        BY <2>2 DEF At
    <2>4. z.error = "none" /\ Len(z.str) = 1 /\ z.str = SubSeq(in, 1, 1) /\ z \in Result
        <3> DEFINE p == 0
                   len == 1
                   r == CECBytes(in, p, len)
        <3>1. p \in Nat /\ len \in Nat /\ p <= 256 /\ 0 < len /\ len < 32768 /\ len < 65536 /\ p < Len(in)
            BY <2>3
        <3>2. Least(len, Len(in) - p) = 1 /\ p + 1 = 1
            BY <2>3 DEF Least
        <3> HIDE DEF p, len
        <3>3. /\ r \in Result /\ r.error = "none" /\ Len(r.str) = Least(len, Len(in) - p)
              /\ r.str = SubSeq(in, p + 1, p + Len(r.str))
            BY <3>1, CECBytesFacts
        <3>4. r \in Result /\ r.error = "none" /\ Len(r.str) = 1 /\ r.str = SubSeq(in, 1, 1)
            BY <3>2, <3>3
        <3> QED
            BY <3>4 DEF p, len
    <2>5. SubSeq(in, 1, 1) = <<in[1]>>
        <3> DEFINE s == SubSeq(in, 1, 1)
                   t == <<in[1]>>
        <3>1. in[1] \in Byte
            BY <2>3
        <3>2. s \in Seq(Byte) /\ Len(s) = 1 /\ s[1] = in[1]
            BY <2>3
        <3>3. t \in Seq(Byte) /\ Len(t) = 1 /\ t[1] = in[1]
            BY <3>1
        <3> HIDE DEF s, t
        <3>4. s = t
            BY <3>2, <3>3, SeqEqual
        <3> QED
            BY <3>4 DEF s, t
    <2>6. x = z
        <3>1. z = [error |-> z.error, str |-> z.str]
            BY <2>4 DEF Result
        <3> HIDE DEF z
        <3> QED
            BY <2>3, <2>4, <2>5, <3>1
    <2>7. made = <<CECBytes(in, 0, 1), CECBytes(in, 1, 1)>>
        BY <2>1, <2>6
    <2> DEFINE len == 1
    <2>8. len \in Nat /\ len <= 256 /\ len < 65536 /\ made = <<CECBytes(in, 0, len), CECBytes(in, len, len)>>
        BY <2>7
    <2> HIDE DEF len
    <2> QED
        BY <2>8, TwoLaidOut
<1>5. CASE op # Op.FEATURE_ABORT
    <2>1. made = [i \in DOMAIN Layout[op] |-> CECBytes(in, Offset(Layout[op], i), Layout[op][i])]
        BY <1>3, <1>5 DEF Constructed, Lists
    <2>2. CASE Layout[op] = <<a>>
        <3>1. made = <<CECBytes(in, 0, a)>>
            BY <2>1, <2>2 DEF Offset
        <3> QED
            BY <1>2, <3>1, OneLaidOut
    <2>3. CASE Layout[op] = <<a, b>>
        <3>1. made = <<CECBytes(in, 0, a), CECBytes(in, a, b)>>
            BY <2>1, <2>3 DEF Offset
        <3> QED
            BY <1>2, <3>1, TwoLaidOut
    <2> QED
        BY <1>1, <2>2, <2>3
<1> QED
    BY <1>4, <1>5

(* The operands of every message that can be delivered are consecutive     *)
(* pieces of the frame, from the first byte behind the opcode on.          *)
LEMMA ConstructedCovers ==
    ASSUME NEW in \in Seq(Byte), Len(in) <= 128,
           NEW op \in Bare \cup {Op.POLLING} \cup FixedOperands \cup Lists,
           NEW made, made = Constructed(op, in), made \in Seq(Result), Clean(made)
    PROVE  IsPrefix(FlattenSeq(Strs(made)), in)
<1> DEFINE args == Strs(made)
<1> HIDE DEF args
<1>1. CASE LaidOut(in, args)
    <2>1. PICK n \in Nat : 0 < n /\ Len(args) = n /\ \E p, len : Laid(in, n, args, p, len)
        BY <1>1 DEF LaidOut
    <2>2. PICK p, len : Laid(in, n, args, p, len)
        BY <2>1
    <2> DEFINE end == p[n] + Len(args[n])
    <2>3. end \in Nat /\ end <= Len(in) /\ FlattenSeq(args) = SubSeq(in, 1, end)
        BY <2>1, <2>2, Covered
    <2> HIDE DEF end
    <2> QED
        BY <2>3, Beginning DEF args
<1>2. CASE Len(made) = 0
    <2>1. made = <<>>
        BY <1>2
    <2>2. args = <<>> /\ Len(args) = 0
        BY <2>1 DEF args, Strs
    <2>3. FlattenSeq(args) = <<>>
        BY <2>2 DEF FlattenSeq
    <2>4. SubSeq(in, 1, 0) = <<>> /\ 0 <= Len(in)
        OBVIOUS
    <2>5. IsPrefix(<<>>, in)
        BY <2>4, Beginning
    <2> QED
        BY <2>3, <2>5 DEF args
<1>3. CASE op \in Bare \cup {Op.POLLING}
    <2>1. made = <<>>
        BY <1>3, Groups DEF Constructed, Lists
    <2> QED
        BY <1>2, <2>1
<1>4. CASE op \in FixedOperands
    BY <1>1, <1>4, FixedLaidOut DEF args
<1>5. CASE op \in Lists
    <2>1. /\ op = Op.REQUEST_SHORT_AUDIO_DESCRIPTOR => made = RequestShortAudioDescriptor(in)
          /\ op = Op.REPORT_SHORT_AUDIO_DESCRIPTOR => made = ReportShortAudioDescriptor(in)
          /\ op = Op.REPORT_FEATURES => made = ReportFeatures(in)
          /\ op = Op.REPORT_CURRENT_LATENCY => made = ReportCurrentLatency(in)
        <3>1. op \notin Bare \cup {Op.POLLING} /\ op \notin FixedOperands /\ op # Op.FEATURE_ABORT
            BY <1>5, Groups
        <3>2. op \notin FixedOperands \ {Op.FEATURE_ABORT}
            BY <3>1
        <3>3. CASE op = Op.REQUEST_SHORT_AUDIO_DESCRIPTOR
            <4>1. /\ op # Op.REPORT_SHORT_AUDIO_DESCRIPTOR /\ op # Op.REPORT_FEATURES
                  /\ op # Op.REPORT_CURRENT_LATENCY
                BY <3>3, OpValues
            <4> QED
                BY <3>1, <3>2, <3>3, <4>1 DEF Constructed
        <3>4. CASE op = Op.REPORT_SHORT_AUDIO_DESCRIPTOR
            <4>1. /\ op # Op.REQUEST_SHORT_AUDIO_DESCRIPTOR /\ op # Op.REPORT_FEATURES
                  /\ op # Op.REPORT_CURRENT_LATENCY
                BY <3>4, OpValues
            <4> QED
                BY <3>1, <3>2, <3>4, <4>1 DEF Constructed
        <3>5. CASE op = Op.REPORT_FEATURES
            <4>1. /\ op # Op.REQUEST_SHORT_AUDIO_DESCRIPTOR /\ op # Op.REPORT_SHORT_AUDIO_DESCRIPTOR
                  /\ op # Op.REPORT_CURRENT_LATENCY
                BY <3>5, OpValues
            <4> QED
                BY <3>1, <3>2, <3>5, <4>1 DEF Constructed
        <3>6. CASE op = Op.REPORT_CURRENT_LATENCY
            <4>1. /\ op # Op.REQUEST_SHORT_AUDIO_DESCRIPTOR /\ op # Op.REPORT_SHORT_AUDIO_DESCRIPTOR
                  /\ op # Op.REPORT_FEATURES
                BY <3>6, OpValues
            <4> QED
                BY <3>1, <3>2, <3>6, <4>1 DEF Constructed
        <3> QED
            BY <3>3, <3>4, <3>5, <3>6
    <2>2. CASE op = Op.REQUEST_SHORT_AUDIO_DESCRIPTOR
        <3> DEFINE n == Least(4, Len(in))
                   k == 1
        <3>1. n \in Nat /\ k \in Nat /\ n * k <= 128 /\ 0 < k /\ k <= 3
            BY DEF Least
        <3>2. made = [i \in 1 .. n |-> CECBytes(in, (i - 1) * k, k)] /\ Len(made) = n
            <4>1. made = [i \in 1 .. n |-> CECBytes(in, i - 1, 1)]
                BY <2>1, <2>2 DEF RequestShortAudioDescriptor, RequestAudioFormatLen
            <4>2. \A i \in 1 .. n : (i - 1) * k = i - 1
                BY <3>1
            <4> QED
                BY <3>1, <4>1, <4>2
        <3> HIDE DEF n, k
        <3>3. CASE n = 0
            BY <1>2, <3>2, <3>3
        <3>4. CASE 0 < n
            BY <1>1, <3>1, <3>2, <3>4, EvenLaidOut DEF args
        <3> QED
            BY <3>1, <3>3, <3>4
    <2>3. CASE op = Op.REPORT_SHORT_AUDIO_DESCRIPTOR
        <3> DEFINE n == Len(in) \div 3
                   k == 3
        <3>1. n \in Nat /\ k \in Nat /\ n * k <= 128 /\ 0 < k /\ k <= 3
            <4>1. Len(in) \in Nat
                OBVIOUS
            <4> QED
                BY <4>1
        <3>2. made = [i \in 1 .. n |-> CECBytes(in, (i - 1) * k, k)] /\ Len(made) = n
            <4>1. made = [i \in 1 .. n |-> CECBytes(in, (i - 1) * 3, 3)]
                BY <2>1, <2>3 DEF ReportShortAudioDescriptor, ShortAudioDescriptorLen
            <4> HIDE DEF n
            <4> QED
                BY <3>1, <4>1
        <3> HIDE DEF n, k
        <3>3. CASE n = 0
            BY <1>2, <3>2, <3>3
        <3>4. CASE 0 < n
            BY <1>1, <3>1, <3>2, <3>4, EvenLaidOut DEF args
        <3> QED
            BY <3>1, <3>3, <3>4
    <2>4. CASE op = Op.REPORT_FEATURES
        <3> DEFINE rc == Extended(in, 2)
                   features == Extended(in, 2 + rc)
                   p == <<0, 1, 2, 2 + rc>>
                   len == <<1, 1, rc, features>>
        <3>1. made = ReportFeatures(in)
            BY <2>1, <2>4
        <3>2. Len(args) = 4 /\ Laid(in, 4, args, p, len)
            <4> HIDE DEF rc, features
            <4>1. rc = Extended(in, 2) /\ features = Extended(in, 2 + rc)
                BY DEF rc, features
            <4> QED
                BY <3>1, <4>1, FeaturesLaid DEF args
        <3> HIDE DEF p, len
        <3>3. LaidOut(in, args)
            BY <3>2 DEF LaidOut
        <3> QED
            BY <1>1, <3>3
    <2>5. CASE op = Op.REPORT_CURRENT_LATENCY
        <3> DEFINE a == 2
                   b == LatencyLen(in)
        <3>1. a \in Nat /\ a <= 256 /\ b \in Nat /\ b < 65536
            BY LatencyType
        <3>2. made = <<CECBytes(in, 0, a), CECBytes(in, a, b)>>
            BY <2>1, <2>5 DEF ReportCurrentLatency, PhysicalAddressLen
        <3> HIDE DEF a, b
        <3>3. LaidOut(in, args)
            BY <3>1, <3>2, TwoLaidOut DEF args
        <3> QED
            BY <1>1, <3>3
    <2> QED
        BY <1>5, <2>2, <2>3, <2>4, <2>5 DEF Lists
<1> QED
    BY <1>3, <1>4, <1>5

(* A piece with the length its extension bits say: all its bytes but the   *)
(* last one have the bit, and the last one has it only if the frame ends   *)
(* there.                                                                  *)
LEMMA ExtendedPiece ==
    ASSUME NEW in \in Seq(Byte), NEW first \in Nat, NEW len, len = Extended(in, first),
           NEW str, Piece(in, first, len, str)
    PROVE  /\ str \in Seq(Byte) /\ 0 < Len(str) /\ GetByteChain(str) = str
           /\ Bit(Last(str), 7) = 0 \/ (Bit(Last(str), 7) = 1 /\ first + Len(str) = Len(in))
<1> DEFINE n == Len(str)
           L == Len(in)
<1>1. L \in Nat
    OBVIOUS
<1>2. first < L /\ n = Least(len, L - first) /\ str = SubSeq(in, first + 1, first + n)
    BY DEF Piece
<1>3. /\ len \in Nat /\ 0 < len
      /\ \A j \in Nat : first <= j /\ j < first + len - 1 => Bit(in[j + 1], 7) = 1
      /\ first + len - 1 < L => Bit(in[first + len], 7) # 1
    BY <1>2, ExtendedShape
<1> HIDE DEF n, L
<1>4. n \in Nat /\ 0 < n /\ first + n <= L /\ n <= len /\ (first + n < L => n = len)
    BY <1>1, <1>2, <1>3 DEF Least
<1>5. SubSeq(in, first + 1, first + n) \in Seq(Byte)
    BY <1>4, SubSeqFacts DEF L
<1>6. str \in Seq(Byte)
    BY <1>2, <1>5
<1>7. ASSUME NEW i \in 1 .. n PROVE str[i] = in[first + i] /\ first + i \in 1 .. L
    <2>1. first + 1 \in 1 .. L + 1 /\ first + n \in first .. L /\ first + i \in 1 .. L
        BY <1>1, <1>4
    <2>2. SubSeq(in, first + 1, first + n)[i] = in[first + i]
        BY <1>4 DEF L
    <2> QED
        BY <1>2, <2>1, <2>2
<1>8. ASSUME NEW i \in 1 .. n - 1 PROVE Bit(str[i], 7) = 1
    <2> DEFINE j == first + i - 1
    <2>1. j \in Nat /\ first <= j /\ j < first + len - 1 /\ j + 1 = first + i /\ i \in 1 .. n
        BY <1>3, <1>4
    <2> HIDE DEF j
    <2>2. Bit(in[j + 1], 7) = 1
        BY <1>3, <2>1
    <2> QED
        BY <1>7, <2>1, <2>2
<1>9. GetByteChain(str) = str
    BY <1>4, <1>6, <1>8, WholeChain DEF n
<1>10. Last(str) = in[first + n] /\ in[first + n] \in Byte
    <2>1. n \in 1 .. n
        BY <1>4
    <2>2. str[n] = in[first + n] /\ first + n \in 1 .. L
        BY <1>7, <2>1
    <2>3. in[first + n] \in Byte
        BY <2>2 DEF L
    <2> QED
        BY <2>2, <2>3 DEF Last, n
<1>11. Bit(Last(str), 7) = 0 \/ Bit(Last(str), 7) = 1
    BY <1>10, BitValue
<1>12. ASSUME first + n < L PROVE Bit(Last(str), 7) # 1
    <2>1. n = len /\ first + len - 1 < L
        BY <1>1, <1>4, <1>12
    <2>2. Bit(in[first + len], 7) # 1
        BY <1>3, <2>1
    <2> QED
        BY <1>10, <2>1, <2>2
<1>13. first + n = L \/ first + n < L
    BY <1>1, <1>4
<1>14. Bit(Last(str), 7) = 0 \/ (Bit(Last(str), 7) = 1 /\ first + n = L)
    BY <1>11, <1>12, <1>13
<1> QED
    BY <1>4, <1>6, <1>9, <1>14 DEF n, L

(* What this comes to for the operands of <Report Features>.               *)
LEMMA FeaturesDelimited ==
    ASSUME NEW in \in Seq(Byte), Len(in) <= 128, NEW made, made = ReportFeatures(in), Clean(made)
    PROVE  LET args == Strs(made)
           IN  /\ GetByteChain(args[3]) = args[3] /\ GetByteChain(args[4]) = args[4]
               /\ Bit(Last(args[3]), 7) = 0
               /\ Bit(Last(args[4]), 7) = 1 => FlattenSeq(args) = in
<1> DEFINE args == Strs(made)
           rc == Extended(in, 2)
           features == Extended(in, 2 + rc)
           p == <<0, 1, 2, 2 + rc>>
           len == <<1, 1, rc, features>>
<1> HIDE DEF rc, features, args
<1>1. rc = Extended(in, 2) /\ features = Extended(in, 2 + rc)
    BY DEF rc, features
<1>2. /\ Len(args) = 4 /\ rc \in Nat /\ features \in Nat
      /\ Piece(in, 2, rc, args[3]) /\ Piece(in, 2 + rc, features, args[4])
      /\ Laid(in, 4, args, p, len)
    BY <1>1, FeaturesLaid DEF args
<1> DEFINE c == args[3]
           d == args[4]
           q == 2 + rc
<1>3. q \in Nat /\ q < Len(in) /\ Piece(in, q, features, d) /\ features = Extended(in, q) /\ p[4] = q
    <2>1. q \in Nat /\ features = Extended(in, q) /\ p[4] = q
        BY <1>1, <1>2
    <2>2. Piece(in, q, features, d)
        BY <1>2
    <2> HIDE DEF q, p, d
    <2> QED
        BY <2>1, <2>2 DEF Piece
<1> HIDE DEF c, q
<1>4. /\ GetByteChain(c) = c
      /\ Bit(Last(c), 7) = 0 \/ (Bit(Last(c), 7) = 1 /\ 2 + Len(c) = Len(in))
    <2> DEFINE first == 2
    <2>1. first \in Nat /\ rc = Extended(in, first) /\ Piece(in, first, rc, c)
        BY <1>1, <1>2 DEF c
    <2> HIDE DEF first
    <2>2. GetByteChain(c) = c
        BY <2>1, ExtendedPiece
    <2>3. Bit(Last(c), 7) = 0 \/ (Bit(Last(c), 7) = 1 /\ first + Len(c) = Len(in))
        BY <2>1, ExtendedPiece
    <2> QED
        BY <2>2, <2>3 DEF first
<1>5. 2 + Len(c) # Len(in)
    <2>1. Len(c) = Least(rc, Len(in) - 2) /\ 2 + rc < Len(in)
        BY <1>2, <1>3 DEF Piece, c, q
    <2> QED
        BY <1>2, <2>1 DEF Least
<1>6. /\ Len(d) \in Nat /\ GetByteChain(d) = d
      /\ Bit(Last(d), 7) = 0 \/ (Bit(Last(d), 7) = 1 /\ q + Len(d) = Len(in))
    <2> HIDE DEF d
    <2>1. d \in Seq(Byte) /\ GetByteChain(d) = d
        BY <1>3, ExtendedPiece
    <2>2. Bit(Last(d), 7) = 0 \/ (Bit(Last(d), 7) = 1 /\ q + Len(d) = Len(in))
        BY <1>3, ExtendedPiece
    <2> QED
        BY <2>1, <2>2
<1> HIDE DEF p, len
<1>7. FlattenSeq(args) = SubSeq(in, 1, p[4] + Len(args[4]))
    <2> DEFINE n == 4
    <2>1. n \in Nat /\ 0 < n /\ Len(args) = n /\ Laid(in, n, args, p, len)
        BY <1>2
    <2> HIDE DEF n
    <2>2. FlattenSeq(args) = SubSeq(in, 1, p[n] + Len(args[n]))
        BY <2>1, Covered
    <2> QED
        BY <2>2 DEF n
<1>8. ASSUME Bit(Last(d), 7) = 1 PROVE FlattenSeq(args) = in
    <2>1. p[4] + Len(args[4]) = Len(in)
        BY <1>3, <1>6, <1>8
    <2>2. SubSeq(in, 1, Len(in)) = in
        BY SubSeqFull
    <2> QED
        BY <1>7, <2>1, <2>2
<1>9. /\ GetByteChain(c) = c /\ GetByteChain(d) = d /\ Bit(Last(c), 7) = 0
      /\ Bit(Last(d), 7) = 1 => FlattenSeq(args) = in
    BY <1>4, <1>5, <1>6, <1>8
<1> QED
    BY <1>9 DEF c, d, args
-----------------------------------------------------------------------------
(* What a peer makes of an encoded message                                 *)

(* A list of few sequences put together: of one or two, ...                *)
LEMMA FlattenFew ==
    ASSUME NEW a, NEW b
    PROVE  FlattenSeq(<<a>>) = a /\ FlattenSeq(<<a, b>>) = a \o b
<1>1. FlattenSeq(<<a>>) = a
    <2> DEFINE s == <<a>>
               g == <<a>>
               n == 1
               r == [i \in 1 .. n |-> IF i = 1 THEN s[i] ELSE g[i - 1] \o s[i]]
    <2>1. n \in Nat /\ 0 < n /\ Len(s) = n /\ DOMAIN g = 1 .. n /\ g[n] = a
        OBVIOUS
    <2>2. ASSUME NEW i \in 1 .. n PROVE g[i] = r[i]
        <3>1. i = 1
            BY <2>2
        <3>2. g[1] = s[1] /\ TRUE
            OBVIOUS
        <3>3. r[i] = IF i = 1 THEN s[i] ELSE g[i - 1] \o s[i]
            BY <2>2
        <3>4. TRUE
            OBVIOUS
        <3> HIDE DEF g, s, r, n
        <3> QED
            BY <3>1, <3>2, <3>3, <3>4
    <2>3. g = [i \in 1 .. n |-> g[i]] /\ r = [i \in 1 .. n |-> r[i]]
        BY <2>1
    <2>4. Flattens(g, s)
        <3>1. g = r
            <4> HIDE DEF g, r
            <4> QED
                BY <2>2, <2>3
        <3> HIDE DEF g, s
        <3> QED
            BY <2>1, <3>1 DEF Flattens
    <2> HIDE DEF s, g, n
    <2>5. FlattenSeq(s) = g[n]
        BY <2>1, <2>4, Flattened
    <2> QED
        BY <2>1, <2>5 DEF s
<1>2. FlattenSeq(<<a, b>>) = a \o b
    <2> DEFINE s == <<a, b>>
               g == <<a, a \o b>>
               n == 2
               r == [i \in 1 .. n |-> IF i = 1 THEN s[i] ELSE g[i - 1] \o s[i]]
    <2>1. n \in Nat /\ 0 < n /\ Len(s) = n /\ DOMAIN g = 1 .. n /\ g[n] = a \o b
        OBVIOUS
    <2>2. ASSUME NEW i \in 1 .. n PROVE g[i] = r[i]
        <3>1. i = 1 \/ i = 2
            BY <2>2
        <3>2. g[1] = s[1] /\ g[2] = g[1] \o s[2]
            OBVIOUS
        <3>3. r[i] = IF i = 1 THEN s[i] ELSE g[i - 1] \o s[i]
            BY <2>2
        <3>4. (i = 2 => i - 1 = 1)
            OBVIOUS
        <3> HIDE DEF g, s, r, n
        <3> QED
            BY <3>1, <3>2, <3>3, <3>4
    <2>3. g = [i \in 1 .. n |-> g[i]] /\ r = [i \in 1 .. n |-> r[i]]
        BY <2>1
    <2>4. Flattens(g, s)
        <3>1. g = r
            <4> HIDE DEF g, r
            <4> QED
                BY <2>2, <2>3
        <3> HIDE DEF g, s
        <3> QED
            BY <2>1, <3>1 DEF Flattens
    <2> HIDE DEF s, g, n
    <2>5. FlattenSeq(s) = g[n]
        BY <2>1, <2>4, Flattened
    <2> QED
        BY <2>1, <2>5 DEF s
<1> QED
    BY <1>1, <1>2

(* ... three of them, ...                                                  *)
LEMMA FlattenThree ==
    ASSUME NEW a, NEW b, NEW c, NEW ab, ab = a \o b, NEW abc, abc = ab \o c
    PROVE  FlattenSeq(<<a, b, c>>) = abc
<1> DEFINE s == <<a, b, c>>
           g == <<a, ab, abc>>
           n == 3
           r == [i \in 1 .. n |-> IF i = 1 THEN s[i] ELSE g[i - 1] \o s[i]]
<1>1. n \in Nat /\ 0 < n /\ Len(s) = n /\ DOMAIN g = 1 .. n /\ g[n] = abc
    OBVIOUS
<1>2. ASSUME NEW i \in 1 .. n PROVE g[i] = r[i]
    <2>1. i = 1 \/ i = 2 \/ i = 3
        BY <1>2
    <2>2. g[1] = s[1] /\ g[2] = g[1] \o s[2] /\ g[3] = g[2] \o s[3]
        OBVIOUS
    <2>3. r[i] = IF i = 1 THEN s[i] ELSE g[i - 1] \o s[i]
        BY <1>2
    <2>4. (i = 2 => i - 1 = 1) /\ (i = 3 => i - 1 = 2)
        OBVIOUS
    <2> HIDE DEF g, s, r, n
    <2> QED
        BY <2>1, <2>2, <2>3, <2>4
<1>3. g = [i \in 1 .. n |-> g[i]] /\ r = [i \in 1 .. n |-> r[i]]
    BY <1>1
<1>4. Flattens(g, s)
    <2>1. g = r
        <3> HIDE DEF g, r
        <3> QED
            BY <1>2, <1>3
    <2> HIDE DEF g, s
    <2> QED
        BY <1>1, <2>1 DEF Flattens
<1> HIDE DEF s, g, n
<1>5. FlattenSeq(s) = g[n]
    BY <1>1, <1>4, Flattened
<1> QED
    BY <1>1, <1>5 DEF s

(* ... and four.                                                           *)
LEMMA FlattenFour ==
    ASSUME NEW a, NEW b, NEW c, NEW d, NEW ab, ab = a \o b, NEW abc, abc = ab \o c,
           NEW abcd, abcd = abc \o d
    PROVE  FlattenSeq(<<a, b, c, d>>) = abcd
<1> DEFINE s == <<a, b, c, d>>
           g == <<a, ab, abc, abcd>>
           n == 4
           r == [i \in 1 .. n |-> IF i = 1 THEN s[i] ELSE g[i - 1] \o s[i]]
<1>1. n \in Nat /\ 0 < n /\ Len(s) = n /\ DOMAIN g = 1 .. n /\ g[n] = abcd
    OBVIOUS
<1>2. ASSUME NEW i \in 1 .. n PROVE g[i] = r[i]
    <2>1. i = 1 \/ i = 2 \/ i = 3 \/ i = 4
        BY <1>2
    <2>2. g[1] = s[1] /\ g[2] = g[1] \o s[2] /\ g[3] = g[2] \o s[3] /\ g[4] = g[3] \o s[4]
        OBVIOUS
    <2>3. r[i] = IF i = 1 THEN s[i] ELSE g[i - 1] \o s[i]
        BY <1>2
    <2>4. (i = 2 => i - 1 = 1) /\ (i = 3 => i - 1 = 2) /\ (i = 4 => i - 1 = 3)
        OBVIOUS
    <2> HIDE DEF g, s, r, n
    <2> QED
        BY <2>1, <2>2, <2>3, <2>4
<1>3. g = [i \in 1 .. n |-> g[i]] /\ r = [i \in 1 .. n |-> r[i]]
    BY <1>1
<1>4. Flattens(g, s)
    <2>1. g = r
        <3> HIDE DEF g, r
        <3> QED
            BY <1>2, <1>3
    <2> HIDE DEF g, s
    <2> QED
        BY <1>1, <2>1 DEF Flattens
<1> HIDE DEF s, g, n
<1>5. FlattenSeq(s) = g[n]
    BY <1>1, <1>4, Flattened
<1> QED
    BY <1>1, <1>5 DEF s

(* The bytes of b are in a frame from place p on.                          *)
Sits(in, p, b) == p + Len(b) <= Len(in) /\ \A i \in 1 .. Len(b) : in[p + i] = b[i]

(* An operand is cut out of a frame that has its bytes in this place.      *)
LEMMA CutAt ==
    ASSUME NEW in \in Seq(Byte), Len(in) <= 128, NEW b \in Seq(Byte), 0 < Len(b), NEW p \in Nat,
           Sits(in, p, b),
           NEW len \in Nat, len <= 128, len = Len(b) \/ (Len(b) <= len /\ p + Len(b) = Len(in))
    PROVE  CECBytes(in, p, len).error = "none" /\ CECBytes(in, p, len).str = b
<1> DEFINE n == Len(b)
           L == Len(in)
           r == CECBytes(in, p, len)
           s == SubSeq(in, p + 1, p + n)
<1>1. n \in Nat /\ L \in Nat
    BY LenProperties
<1>2. p + n <= L /\ \A i \in 1 .. n : in[p + i] = b[i]
    BY DEF Sits
<1> HIDE DEF n, L
<1>3. 0 < n /\ L <= 128 /\ (len = n \/ (n <= len /\ p + n = L))
    BY <1>2 DEF n, L
<1>4. p <= 256 /\ p < L /\ 0 < len /\ len < 32768 /\ len < 65536 /\ Least(len, L - p) = n
    BY <1>1, <1>2, <1>3 DEF Least
<1>5. /\ r.error = "none" /\ Len(r.str) = Least(len, L - p)
      /\ r.str = SubSeq(in, p + 1, p + Len(r.str))
    BY <1>4, CECBytesFacts DEF L
<1> HIDE DEF r
<1>6. r.str = s
    BY <1>4, <1>5
<1>7. s \in Seq(Byte) /\ Len(s) = n
    BY <1>1, <1>2, <1>3, SubSeqFacts DEF L
<1>8. ASSUME NEW i \in 1 .. n PROVE s[i] = b[i]
    <2>1. s[i] = in[p + i]
        BY <1>1, <1>2, <1>3, <1>8 DEF L
    <2> QED
        BY <1>2, <2>1
<1> HIDE DEF s
<1>9. s = b
    BY <1>7, <1>8, SeqEqual DEF n
<1> QED
    BY <1>5, <1>6, <1>9 DEF r

(* A single byte is cut out.                                               *)
LEMMA OneByte ==
    ASSUME NEW in \in Seq(Byte), Len(in) <= 128, NEW p \in Nat, p < Len(in)
    PROVE  CECBytes(in, p, 1).error = "none" /\ CECBytes(in, p, 1).str = <<in[p + 1]>>
<1> DEFINE b == <<in[p + 1]>>
           one == 1
<1>1. in[p + 1] \in Byte
    OBVIOUS
<1>2. b \in Seq(Byte) /\ Len(b) = one /\ b[1] = in[p + 1]
    <2> DEFINE x == in[p + 1]
    <2> HIDE DEF x
    <2>1. x \in Byte
        BY <1>1 DEF x
    <2>2. <<x>> \in Seq(Byte) /\ Len(<<x>>) = 1 /\ <<x>>[1] = x
        BY <2>1
    <2> QED
        BY <2>2 DEF x
<1>3. Sits(in, p, b)
    BY <1>2 DEF Sits
<1>4. one \in Nat /\ 0 < one /\ one <= 128
    OBVIOUS
<1> HIDE DEF b, one
<1>5. CECBytes(in, p, one).error = "none" /\ CECBytes(in, p, one).str = b
    BY <1>2, <1>3, <1>4, CutAt
<1> QED
    BY <1>5 DEF b, one

(* There is a byte for every choice of its eight bits, ...                 *)
LEMMA ByteOfBits ==
    ASSUME NEW q, \A i \in 0 .. 7 : q[i] \in {0, 1}
    PROVE  \E b \in Byte : \A i \in 0 .. 7 : Bit(b, i) = q[i]
<1>1. /\ q[0] \in {0, 1} /\ q[1] \in {0, 1} /\ q[2] \in {0, 1} /\ q[3] \in {0, 1}
      /\ q[4] \in {0, 1} /\ q[5] \in {0, 1} /\ q[6] \in {0, 1} /\ q[7] \in {0, 1}
    OBVIOUS
<1> DEFINE q0 == q[0] q1 == q[1] q2 == q[2] q3 == q[3]
           q4 == q[4] q5 == q[5] q6 == q[6] q7 == q[7]
           b == q0 + 2 * q1 + 4 * q2 + 8 * q3 + 16 * q4 + 32 * q5 + 64 * q6 + 128 * q7
<1>2. /\ q0 \in Int /\ 0 <= q0 /\ q0 <= 1 /\ q1 \in Int /\ 0 <= q1 /\ q1 <= 1
      /\ q2 \in Int /\ 0 <= q2 /\ q2 <= 1 /\ q3 \in Int /\ 0 <= q3 /\ q3 <= 1
      /\ q4 \in Int /\ 0 <= q4 /\ q4 <= 1 /\ q5 \in Int /\ 0 <= q5 /\ q5 <= 1
      /\ q6 \in Int /\ 0 <= q6 /\ q6 <= 1 /\ q7 \in Int /\ 0 <= q7 /\ q7 <= 1
    BY <1>1
<1> HIDE DEF q0, q1, q2, q3, q4, q5, q6, q7
<1>3. b \in Int /\ 0 <= b /\ b <= 255
    BY <1>2
<1>4. b \in Byte
    BY <1>3 DEF Byte
<1>5. b % 2 = q0
    BY <1>2
<1>6. (b \div 2) % 2 = q1
    BY <1>2
<1>7. (b \div 4) % 2 = q2
    BY <1>2
<1>8. (b \div 8) % 2 = q3
    BY <1>2
<1>9. (b \div 16) % 2 = q4
    BY <1>2
<1>10. (b \div 32) % 2 = q5
    BY <1>2
<1>11. (b \div 64) % 2 = q6
    BY <1>2
<1>12. (b \div 128) % 2 = q7
    BY <1>2
<1> HIDE DEF b
<1>13. /\ Bit(b, 0) = q0 /\ Bit(b, 1) = q1 /\ Bit(b, 2) = q2 /\ Bit(b, 3) = q3
       /\ Bit(b, 4) = q4 /\ Bit(b, 5) = q5 /\ Bit(b, 6) = q6 /\ Bit(b, 7) = q7
    <2>1. /\ 2 ^ 0 = 1 /\ 2 ^ 1 = 2 /\ 2 ^ 2 = 4 /\ 2 ^ 3 = 8
          /\ 2 ^ 4 = 16 /\ 2 ^ 5 = 32 /\ 2 ^ 6 = 64 /\ 2 ^ 7 = 128
        OBVIOUS
    <2>2. b \div 1 = b
        BY <1>3
    <2> QED
        BY <1>5, <1>6, <1>7, <1>8, <1>9, <1>10, <1>11, <1>12, <2>1, <2>2 DEF Bit
<1>14. ASSUME NEW i \in 0 .. 7 PROVE Bit(b, i) = q[i]
    <2>1. i = 0 \/ i = 1 \/ i = 2 \/ i = 3 \/ i = 4 \/ i = 5 \/ i = 6 \/ i = 7
        BY <1>14
    <2> QED
        BY <1>13, <2>1 DEF q0, q1, q2, q3, q4, q5, q6, q7
<1> QED
    BY <1>4, <1>14

(* ... so the flags have one, and are read from it again.                  *)
LEMMA FlagsByte ==
    ASSUME NEW n \in Nat, NEW low \in Nat, low + n <= 8, NEW flags \in [1 .. n -> {0, 1}]
    PROVE  LET b == FromFlags(flags, low)
           IN  /\ b \in Byte
               /\ \A i \in 0 .. 7 : Bit(b, i) = IF i - low + 1 \in 1 .. n THEN flags[i - low + 1] ELSE 0
               /\ \A k \in 1 .. n : Bit(b, low + k - 1) = flags[k]
<1> DEFINE q == [i \in 0 .. 7 |-> IF i - low + 1 \in DOMAIN flags THEN flags[i - low + 1] ELSE 0]
           P(b) == \A i \in 0 .. 7 : Bit(b, i) = IF i - low + 1 \in DOMAIN flags THEN flags[i - low + 1] ELSE 0
           b == FromFlags(flags, low)
<1>1. \A i \in 0 .. 7 : q[i] \in {0, 1}
    OBVIOUS
<1>2. \E x \in Byte : P(x)
    <2>1. \A i \in 0 .. 7 : q[i] = IF i - low + 1 \in DOMAIN flags THEN flags[i - low + 1] ELSE 0
        OBVIOUS
    <2> HIDE DEF q
    <2>2. PICK x \in Byte : \A i \in 0 .. 7 : Bit(x, i) = q[i]
        BY <1>1, ByteOfBits
    <2>3. P(x)
        BY <2>1, <2>2
    <2> QED
        BY <2>3
<1>3. b = CHOOSE x \in Byte : P(x)
    BY DEF FromFlags
<1> HIDE DEF P, b
<1>4. b \in Byte /\ P(b)
    BY <1>2, <1>3
<1>5. \A i \in 0 .. 7 : Bit(b, i) = IF i - low + 1 \in 1 .. n THEN flags[i - low + 1] ELSE 0
    BY <1>4 DEF P
<1>6. ASSUME NEW k \in 1 .. n PROVE Bit(b, low + k - 1) = flags[k]
    <2> DEFINE i == low + k - 1
    <2>1. i \in 0 .. 7 /\ i - low + 1 = k
        BY <1>6
    <2> HIDE DEF i
    <2>2. Bit(b, i) = flags[i - low + 1]
        BY <1>5, <1>6, <2>1
    <2> QED
        BY <2>1, <2>2 DEF i
<1> QED
    BY <1>4, <1>5, <1>6 DEF b

(* Four nibbles in two bytes.                                              *)
LEMMA AddressPacked ==
    ASSUME NEW v \in Nibbles4
    PROVE  /\ PhysicalAddress(v) \in Seq(Byte) /\ Len(PhysicalAddress(v)) = 2
           /\ GetByteValues(PhysicalAddress(v)) = v
           /\ PhysicalAddress(v) = <<255, 255>> => v = <<15, 15, 15, 15>>
<1> DEFINE a == v[1] b == v[2] c == v[3] d == v[4]
           x == a * 16 + b
           y == c * 16 + d
<1>1. /\ a \in Int /\ 0 <= a /\ a <= 15 /\ b \in Int /\ 0 <= b /\ b <= 15
      /\ c \in Int /\ 0 <= c /\ c <= 15 /\ d \in Int /\ 0 <= d /\ d <= 15
    BY DEF Nibbles4
<1>2. v = <<a, b, c, d>>
    BY DEF Nibbles4
<1> HIDE DEF a, b, c, d
<1>3. a % 16 = a /\ b % 16 = b /\ c % 16 = c /\ d % 16 = d
    BY <1>1
<1>4. PhysicalAddress(v) = <<x, y>>
    BY <1>3 DEF PhysicalAddress, a, b, c, d
<1>5. x \in Int /\ 0 <= x /\ x <= 255 /\ x \div 16 = a /\ x % 16 = b /\ (x = 255 => a = 15 /\ b = 15)
    BY <1>1
<1>6. y \in Int /\ 0 <= y /\ y <= 255 /\ y \div 16 = c /\ y % 16 = d /\ (y = 255 => c = 15 /\ d = 15)
    BY <1>1
<1> HIDE DEF x, y
<1>7. x \in Byte /\ y \in Byte
    BY <1>5, <1>6 DEF Byte
<1>8. <<x, y>> \in Seq(Byte) /\ Len(<<x, y>>) = 2 /\ <<x, y>>[1] = x /\ <<x, y>>[2] = y
    BY <1>7
<1>9. GetByteValues(<<x, y>>) = <<a, b, c, d>>
    BY <1>5, <1>6, <1>8 DEF GetByteValues
<1>10. <<x, y>> = <<255, 255>> => v = <<15, 15, 15, 15>>
    <2>1. <<x, y>> = <<255, 255>> => x = 255 /\ y = 255
        OBVIOUS
    <2> QED
        BY <1>2, <1>5, <1>6, <2>1
<1> QED
    BY <1>2, <1>4, <1>8, <1>9, <1>10

(* A sequence of one byte.                                                 *)
LEMMA Single ==
    ASSUME NEW x \in Byte
    PROVE  <<x>> \in Seq(Byte) /\ Len(<<x>>) = 1 /\ <<x>>[1] = x /\ <<x>> \in Text(1)
<1>1. <<x>> \in Seq(Byte) /\ Len(<<x>>) = 1 /\ <<x>>[1] = x
    OBVIOUS
<1> QED
    BY <1>1 DEF Text

(* What is left of a list.                                                 *)
LEMMA TailOf ==
    ASSUME NEW S, NEW n \in Nat, 0 < n, NEW v \in [1 .. n -> S]
    PROVE  /\ v \in Seq(S) /\ Len(v) = n /\ Tail(v) \in Seq(S) /\ Len(Tail(v)) = n - 1
           /\ \A i \in 1 .. n - 1 : Tail(v)[i] = v[i + 1]
<1>1. v \in Seq(S) /\ Len(v) = n
    OBVIOUS
<1>2. v # <<>>
    BY <1>1
<1> QED
    BY <1>1, <1>2, HeadTailProperties

(* Functions on 1 .. n are sequences.                                      *)
LEMMA Listed ==
    ASSUME NEW S, NEW n \in Nat, NEW f
    PROVE  f \in [1 .. n -> S] <=> f \in Seq(S) /\ Len(f) = n
OBVIOUS

(* A string of one byte is that byte.                                      *)
LEMMA Alone ==
    ASSUME NEW s \in Text(1)
    PROVE  s \in Seq(Byte) /\ Len(s) = 1 /\ s = <<s[1]>> /\ s[1] \in Byte
<1>1. s \in Seq(Byte) /\ Len(s) = 1
    BY DEF Text
<1>2. s[1] \in Byte /\ DOMAIN s = 1 .. 1
    BY <1>1
<1>3. s = <<s[1]>>
    BY <1>1, <1>2
<1> QED
    BY <1>1, <1>2, <1>3

(* Mute flag and volume, ...                                               *)
LEMMA StatusPacked ==
    ASSUME NEW v \in {0, 1} \X (0 .. 127)
    PROVE  AudioStatus(v) \in Text(1) /\ GetAudioStatus(AudioStatus(v)) = v
<1> DEFINE a == v[1] b == v[2]
           x == a * 128 + b
<1>1. a \in Int /\ 0 <= a /\ a <= 1 /\ b \in Int /\ 0 <= b /\ b <= 127 /\ v = <<a, b>>
    OBVIOUS
<1> HIDE DEF a, b
<1>2. x \in Int /\ 0 <= x /\ x <= 255 /\ (x \div 128) % 2 = a /\ x % 128 = b
    BY <1>1
<1>3. AudioStatus(v) = <<x>>
    BY DEF AudioStatus, a, b
<1> HIDE DEF x
<1>4. x \in Byte
    BY <1>2 DEF Byte
<1>5. 2 ^ 7 = 128
    OBVIOUS
<1>6. GetAudioStatus(<<x>>) = <<a, b>>
    BY <1>2, <1>4, <1>5, Single DEF GetAudioStatus, Bit
<1> QED
    BY <1>1, <1>3, <1>4, <1>6, Single

(* ... and format id and format code.                                      *)
LEMMA FormatPacked ==
    ASSUME NEW v \in (0 .. 3) \X (0 .. 63)
    PROVE  RequestAudioFormat(v) \in Text(1) /\ GetAudioFormat(RequestAudioFormat(v)) = v
<1> DEFINE a == v[1] b == v[2]
           x == a * 64 + b
<1>1. a \in Int /\ 0 <= a /\ a <= 3 /\ b \in Int /\ 0 <= b /\ b <= 63 /\ v = <<a, b>>
    OBVIOUS
<1> HIDE DEF a, b
<1>2. x \in Int /\ 0 <= x /\ x <= 255 /\ x \div 64 = a /\ x % 64 = b
    BY <1>1
<1>3. b % 64 = b /\ x % 256 = x
    BY <1>1, <1>2
<1>4. RequestAudioFormat(v) = <<x>>
    BY <1>3 DEF RequestAudioFormat, a, b
<1> HIDE DEF x
<1>5. x \in Byte
    BY <1>2 DEF Byte
<1>6. GetAudioFormat(<<x>>) = <<a, b>>
    BY <1>2, <1>5, Single DEF GetAudioFormat
<1> QED
    BY <1>1, <1>4, <1>5, <1>6, Single

(* The two operands of <Report Features> that are flags, ...               *)
LEMMA FlagsPacked ==
    ASSUME NEW v \in FlagList(6)
    PROVE  /\ AllDeviceTypes(v) \in Text(1) /\ GetAllDeviceTypes(AllDeviceTypes(v)) = v
           /\ DeviceFeatures(v) \in Text(1) /\ GetDeviceFeatures(DeviceFeatures(v)) = v
           /\ Bit(DeviceFeatures(v)[1], 7) = 0
<1> DEFINE n == 6
           one == 1
           two == 2
           x == FromFlags(v, two)
           y == FromFlags(v, one)
<1>1. n \in Nat /\ one \in Nat /\ two \in Nat /\ two + n <= 8 /\ one + n <= 8 /\ v \in [1 .. n -> {0, 1}]
    BY DEF FlagList
<1>2. AllDeviceTypes(v) = <<x>> /\ DeviceFeatures(v) = <<y>>
    BY DEF AllDeviceTypes, DeviceFeatures
<1> HIDE DEF n, one, two
<1>3. x \in Byte /\ \A k \in 1 .. n : Bit(x, two + k - 1) = v[k]
    BY <1>1, FlagsByte
<1>4. /\ y \in Byte /\ \A k \in 1 .. n : Bit(y, one + k - 1) = v[k]
      /\ \A i \in 0 .. 7 : Bit(y, i) = IF i - one + 1 \in 1 .. n THEN v[i - one + 1] ELSE 0
    BY <1>1, FlagsByte
<1> HIDE DEF x, y
<1>5. GetAllDeviceTypes(<<x>>) = v
    <2>1. GetAllDeviceTypes(<<x>>) = [i \in 1 .. 7 - 2 + 1 |-> Bit(x, 2 + i - 1)]
        BY <1>3, Single DEF GetAllDeviceTypes, Flags
    <2>2. 7 - 2 + 1 = n
        BY DEF n
    <2> QED
        BY <1>1, <1>3, <2>1, <2>2 DEF two
<1>6. GetDeviceFeatures(<<y>>) = v
    <2>1. GetDeviceFeatures(<<y>>) = [i \in 1 .. 6 - 1 + 1 |-> Bit(y, 1 + i - 1)]
        BY <1>4, Single DEF GetDeviceFeatures, Flags
    <2>2. 6 - 1 + 1 = n
        BY DEF n
    <2> QED
        BY <1>1, <1>4, <2>1, <2>2 DEF one
<1>7. Bit(y, 7) = 0
    <2>1. 7 \in 0 .. 7 /\ ~ (7 - one + 1 \in 1 .. n)
        BY DEF one, n
    <2> QED
        BY <1>4, <2>1
<1> QED
    BY <1>2, <1>3, <1>4, <1>5, <1>6, <1>7, Single

(* ... and the RC profile, a TV's number or a source's menu flags.         *)
LEMMA ProfilePacked ==
    ASSUME NEW v \in RcProfileValue
    PROVE  RcProfile(v) \in Text(1) /\ GetRcProfile(RcProfile(v)) = v /\ Bit(RcProfile(v)[1], 7) = 0
<1>1. CASE v \in {0} \X (0 .. 4)
    <2> DEFINE t == v[2]
    <2>1. v = <<0, t>> /\ (t = 0 \/ t = 1 \/ t = 2 \/ t = 3 \/ t = 4)
        BY <1>1
    <2> HIDE DEF t
    <2> DEFINE x == CASE t = 0 -> 0 [] t = 1 -> 2 [] t = 2 -> 6 [] t = 3 -> 10 [] t = 4 -> 14
    <2>2. RcProfile(v) = <<x>>
        <3>1. v[1] = 0 /\ v[2] = t
            BY <2>1
        <3> QED
            BY <2>1, <3>1 DEF RcProfile
    <2>3. x \in Byte
        BY <2>1 DEF Byte
    <2>4. 2 ^ 0 = 1 /\ 2 ^ 1 = 2 /\ 2 ^ 2 = 4 /\ 2 ^ 3 = 8 /\ 2 ^ 6 = 64 /\ 2 ^ 7 = 128
        OBVIOUS
    <2>5. Bit(x, 6) = 0 /\ Bit(x, 7) = 0
        BY <2>1, <2>4 DEF Bit
    <2>6. /\ Bit(x, 1) = IF t = 0 THEN 0 ELSE 1
          /\ Bit(x, 2) = IF t = 2 \/ t = 4 THEN 1 ELSE 0
          /\ Bit(x, 3) = IF t = 3 \/ t = 4 THEN 1 ELSE 0
        BY <2>1, <2>4 DEF Bit
    <2>7. /\ Bit(14, 0) = 0 /\ Bit(14, 1) = 1 /\ Bit(14, 2) = 1 /\ Bit(14, 3) = 1
          /\ Bit(10, 0) = 0 /\ Bit(10, 1) = 1 /\ Bit(10, 2) = 0 /\ Bit(10, 3) = 1
          /\ Bit(6, 0) = 0 /\ Bit(6, 1) = 1 /\ Bit(6, 2) = 1 /\ Bit(6, 3) = 0
          /\ Bit(2, 0) = 0 /\ Bit(2, 1) = 1 /\ Bit(2, 2) = 0 /\ Bit(2, 3) = 0
        BY <2>4 DEF Bit
    <2> HIDE DEF x
    <2>8. \A mask : HasProfileBits(x, mask) <=>
              /\ Bit(mask, 0) = 1 => Bit(x, 0) = 1
              /\ Bit(mask, 1) = 1 => Bit(x, 1) = 1
              /\ Bit(mask, 2) = 1 => Bit(x, 2) = 1
              /\ Bit(mask, 3) = 1 => Bit(x, 3) = 1
        <3>1. \A i \in 0 .. 3 : i = 0 \/ i = 1 \/ i = 2 \/ i = 3
            OBVIOUS
        <3>2. 0 \in 0 .. 3 /\ 1 \in 0 .. 3 /\ 2 \in 0 .. 3 /\ 3 \in 0 .. 3
            OBVIOUS
        <3> QED
            BY <3>1, <3>2 DEF HasProfileBits
    <2>9. /\ HasProfileBits(x, 14) <=> t = 4
          /\ HasProfileBits(x, 10) <=> (t = 3 \/ t = 4)
          /\ HasProfileBits(x, 6) <=> (t = 2 \/ t = 4)
          /\ HasProfileBits(x, 2) <=> t # 0
        <3>1. HasProfileBits(x, 14) <=> Bit(x, 1) = 1 /\ Bit(x, 2) = 1 /\ Bit(x, 3) = 1
            BY <2>7, <2>8
        <3>2. HasProfileBits(x, 10) <=> Bit(x, 1) = 1 /\ Bit(x, 3) = 1
            BY <2>7, <2>8
        <3>3. HasProfileBits(x, 6) <=> Bit(x, 1) = 1 /\ Bit(x, 2) = 1
            BY <2>7, <2>8
        <3>4. HasProfileBits(x, 2) <=> Bit(x, 1) = 1
            BY <2>7, <2>8
        <3> QED
            BY <2>1, <2>6, <3>1, <3>2, <3>3, <3>4
    <2>10. TvProfile(x) = t
        BY <2>1, <2>9 DEF TvProfile
    <2>11. GetRcProfile(<<x>>) = <<0, t>>
        BY <2>3, <2>5, <2>10, Single DEF GetRcProfile
    <2> QED
        BY <2>1, <2>2, <2>3, <2>5, <2>11, Single
<1>2. CASE v \in FlagList(6) /\ v[1] = 1
    <2> DEFINE n == 7
               low == 0
               flags == Tail(v) \o <<0, 1>>
               x == FromFlags(flags, low)
    <2>1. /\ v \in Seq({0, 1}) /\ Len(v) = 6 /\ v[1] = 1
          /\ Tail(v) \in Seq({0, 1}) /\ Len(Tail(v)) = 5
          /\ \A i \in 1 .. 5 : Tail(v)[i] = v[i + 1] /\ v[i + 1] \in {0, 1}
        <3> DEFINE S == {0, 1}
                   k == 6
        <3>1. k \in Nat /\ 0 < k
            OBVIOUS
        <3>4. v \in [1 .. k -> S]
            BY <1>2 DEF FlagList
        <3>2. \A i \in 1 .. 5 : v[i + 1] \in {0, 1}
            BY <1>2 DEF FlagList
        <3>5. k = 6 /\ k - 1 = 5
            OBVIOUS
        <3> HIDE DEF k, S
        <3>3. /\ v \in Seq(S) /\ Len(v) = k /\ Tail(v) \in Seq(S) /\ Len(Tail(v)) = k - 1
              /\ \A i \in 1 .. k - 1 : Tail(v)[i] = v[i + 1]
            BY <3>1, <3>4, TailOf
        <3> QED
            BY <1>2, <3>2, <3>3, <3>5 DEF S
    <2>2. Tail(v) \in Seq({0, 1}) /\ Len(Tail(v)) = 5 /\ \A i \in 1 .. 5 : Tail(v)[i] = v[i + 1]
        BY <2>1
    <2>3. <<0, 1>> \in Seq({0, 1}) /\ Len(<<0, 1>>) = 2 /\ <<0, 1>>[1] = 0 /\ <<0, 1>>[2] = 1
        OBVIOUS
    <2>4. /\ flags \in [1 .. n -> {0, 1}] /\ \A i \in 1 .. 5 : flags[i] = v[i + 1]
          /\ flags[7] = 1
        <3> DEFINE t == Tail(v)
                   e == <<0, 1>>
        <3>1. t \in Seq({0, 1}) /\ e \in Seq({0, 1}) /\ Len(t) = 5 /\ Len(e) = 2 /\ e[2] = 1
            BY <2>2, <2>3
        <3>2. \A i \in 1 .. 5 : t[i] = v[i + 1]
            BY <2>2
        <3> HIDE DEF t, e
        <3>3. /\ t \o e \in Seq({0, 1}) /\ Len(t \o e) = Len(t) + Len(e)
              /\ \A i \in 1 .. Len(t) + Len(e) : (t \o e)[i] = IF i <= Len(t) THEN t[i] ELSE e[i - Len(t)]
            BY <3>1, ConcatProperties
        <3>4. flags = t \o e
            BY DEF t, e
        <3> HIDE DEF flags
        <3>5. flags \in Seq({0, 1}) /\ Len(flags) = 7 /\ \A i \in 1 .. 7 : flags[i] = IF i <= 5 THEN t[i] ELSE e[i - 5]
            BY <3>1, <3>3, <3>4
        <3>6. 7 \in 1 .. 7 /\ ~ (7 <= 5) /\ 7 - 5 = 2
            OBVIOUS
        <3>7. flags[7] = 1
            BY <3>1, <3>5, <3>6
        <3>8. ASSUME NEW i \in 1 .. 5 PROVE flags[i] = v[i + 1]
            <4>1. i \in 1 .. 7 /\ i <= 5
                BY <3>8
            <4> QED
                BY <3>2, <3>5, <4>1
        <3>9. flags \in [1 .. 7 -> {0, 1}]
            <4>1. 7 \in Nat
                OBVIOUS
            <4> QED
                BY <3>5, <4>1, Listed
        <3> QED
            BY <3>7, <3>8, <3>9
    <2>5. RcProfile(v) = <<x>>
        BY <2>1 DEF RcProfile
    <2> HIDE DEF flags
    <2>6. n \in Nat /\ low \in Nat /\ low + n <= 8
        OBVIOUS
    <2> HIDE DEF n, low
    <2>7. /\ x \in Byte /\ \A k \in 1 .. n : Bit(x, low + k - 1) = flags[k]
          /\ \A i \in 0 .. 7 : Bit(x, i) = IF i - low + 1 \in 1 .. n THEN flags[i - low + 1] ELSE 0
        BY <2>4, <2>6, FlagsByte
    <2> HIDE DEF x
    <2>8. Bit(x, 7) = 0 /\ Bit(x, 6) = 1
        <3>1. 7 \in 0 .. 7 /\ ~ (7 - low + 1 \in 1 .. n)
            BY DEF low, n
        <3>2. 6 \in 0 .. 7 /\ 6 - low + 1 \in 1 .. n /\ 6 - low + 1 = 7
            BY DEF low, n
        <3>3. Bit(x, 7) = 0
            BY <2>7, <3>1
        <3>4. Bit(x, 6) = flags[7]
            BY <2>7, <3>2
        <3> QED
            BY <2>4, <3>3, <3>4
    <2>9. \A i \in 1 .. 5 : Bit(x, i - 1) = v[i + 1]
        <3> TAKE i \in 1 .. 5
        <3>1. i \in 1 .. n /\ low + i - 1 = i - 1
            BY DEF low, n
        <3>2. Bit(x, low + i - 1) = flags[i]
            BY <2>7, <3>1
        <3> QED
            BY <2>4, <3>1, <3>2
    <2>10. GetRcProfile(<<x>>) = <<1>> \o [i \in 1 .. 5 |-> v[i + 1]]
        <3>1. GetRcProfile(<<x>>) = <<1>> \o Flags(x, 0, 4)
            BY <2>7, <2>8, Single DEF GetRcProfile
        <3>2. Flags(x, 0, 4) = [i \in 1 .. 5 |-> Bit(x, i - 1)]
            <4>1. 4 - 0 + 1 = 5 /\ \A i \in 1 .. 5 : 0 + i - 1 = i - 1
                OBVIOUS
            <4> QED
                BY <4>1 DEF Flags
        <3>3. [i \in 1 .. 5 |-> Bit(x, i - 1)] = [i \in 1 .. 5 |-> v[i + 1]]
            BY <2>9
        <3> QED
            BY <3>1, <3>2, <3>3
    <2>11. <<1>> \o [i \in 1 .. 5 |-> v[i + 1]] = v
        <3> DEFINE h == <<1>>
                   t == [i \in 1 .. 5 |-> v[i + 1]]
        <3>1. h \in Seq({0, 1}) /\ t \in Seq({0, 1}) /\ Len(h) = 1 /\ Len(t) = 5 /\ h[1] = 1
            BY <2>1
        <3>2. \A i \in 1 .. 5 : t[i] = v[i + 1]
            OBVIOUS
        <3> HIDE DEF h, t
        <3>3. /\ h \o t \in Seq({0, 1}) /\ Len(h \o t) = Len(h) + Len(t)
              /\ \A i \in 1 .. Len(h) + Len(t) : (h \o t)[i] = IF i <= Len(h) THEN h[i] ELSE t[i - Len(h)]
            BY <3>1, ConcatProperties
        <3> DEFINE w == h \o t
        <3>4. w \in Seq({0, 1}) /\ Len(w) = 6 /\ \A i \in 1 .. 6 : w[i] = IF i <= 1 THEN h[i] ELSE t[i - 1]
            BY <3>1, <3>3
        <3> HIDE DEF w
        <3>5. ASSUME NEW i \in 1 .. 6 PROVE w[i] = v[i]
            <4>1. CASE i = 1
                BY <2>1, <3>1, <3>4, <4>1
            <4>2. CASE i # 1
                <5>1. i - 1 \in 1 .. 5 /\ ~ (i <= 1) /\ (i - 1) + 1 = i
                    BY <3>5, <4>2
                <5> QED
                    BY <3>2, <3>4, <5>1
            <4> QED
                BY <4>1, <4>2
        <3>6. w = v
            BY <2>1, <3>4, <3>5, SeqEqual
        <3> QED
            BY <3>6 DEF w, h, t
    <2> QED
        BY <2>5, <2>7, <2>8, <2>10, <2>11, Single
<1> QED
    BY <1>1, <1>2 DEF RcProfileValue

(* decode() has the whole message, and its getters return the values.      *)
Understood(m, bytes) ==
    LET made == Constructed(m.op, bytes)
    IN  Clean(made) /\ Seen(m.op, Strs(made)) = m.val

(* A single operand is the whole of what is behind the opcode, ...         *)
LEMMA OneTaken ==
    ASSUME NEW in \in Seq(Byte), 0 < Len(in), Len(in) <= 126, NEW len \in Nat, Len(in) <= len, len <= 128,
           NEW made, made = <<CECBytes(in, 0, len)>>
    PROVE  Clean(made) /\ Strs(made) = <<in>>
<1> DEFINE p == 0
           x == CECBytes(in, p, len)
<1>1. p \in Nat /\ Sits(in, p, in) /\ p + Len(in) = Len(in)
    BY DEF Sits
<1>2. Len(in) <= 128 /\ made = <<x>>
    OBVIOUS
<1> HIDE DEF p
<1>3. x.error = "none" /\ x.str = in
    BY <1>1, <1>2, CutAt
<1> HIDE DEF x
<1>4. DOMAIN made = {1} /\ made[1] = x
    BY <1>2
<1>5. Clean(made)
    BY <1>3, <1>4 DEF Clean
<1> QED
    BY <1>2, <1>3, <1>5, StrsOfOne

(* ... and two are taken apart where they were put together.               *)
LEMMA TwoTaken ==
    ASSUME NEW a \in Seq(Byte), NEW b \in Seq(Byte), 0 < Len(a), 0 < Len(b), Len(a \o b) <= 126,
           NEW k, k = Len(a), NEW len \in Nat, Len(b) <= len, len <= 128,
           NEW made, made = <<CECBytes(a \o b, 0, k), CECBytes(a \o b, k, len)>>
    PROVE  Clean(made) /\ Strs(made) = <<a, b>>
<1> DEFINE in == a \o b
           p == 0
           x == CECBytes(in, p, k)
           y == CECBytes(in, k, len)
<1>1. Len(a) \in Nat /\ Len(b) \in Nat /\ p \in Nat
    BY LenProperties
<1>2. /\ in \in Seq(Byte) /\ Len(in) = Len(a) + Len(b)
      /\ \A i \in 1 .. Len(a) + Len(b) : in[i] = IF i <= Len(a) THEN a[i] ELSE b[i - Len(a)]
    BY ConcatProperties
<1>3. Len(in) <= 128 /\ made = <<x, y>>
    OBVIOUS
<1> HIDE DEF in
<1>4. Sits(in, p, a)
    <2>1. p + Len(a) <= Len(in)
        BY <1>1, <1>2
    <2>2. ASSUME NEW i \in 1 .. Len(a) PROVE in[p + i] = a[i]
        <3>1. p + i = i /\ i \in 1 .. Len(a) + Len(b) /\ i <= Len(a)
            BY <1>1, <2>2
        <3> QED
            BY <1>2, <3>1
    <2> QED
        BY <2>1, <2>2 DEF Sits
<1>5. Sits(in, k, b) /\ k + Len(b) = Len(in) /\ k \in Nat /\ k <= 128
    <2>1. k + Len(b) <= Len(in) /\ k + Len(b) = Len(in) /\ k \in Nat /\ k <= 128
        BY <1>1, <1>2, <1>3
    <2>2. ASSUME NEW i \in 1 .. Len(b) PROVE in[k + i] = b[i]
        <3> DEFINE j == k + i
        <3>1. j \in 1 .. Len(a) + Len(b) /\ ~ (j <= Len(a)) /\ j - Len(a) = i
            BY <1>1, <2>2
        <3> HIDE DEF j
        <3>2. in[j] = b[j - Len(a)]
            BY <1>2, <3>1
        <3> QED
            BY <3>1, <3>2 DEF j
    <2> QED
        BY <2>1, <2>2 DEF Sits
<1> HIDE DEF p
<1>6. x.error = "none" /\ x.str = a
    BY <1>1, <1>2, <1>3, <1>4, <1>5, CutAt
<1>7. y.error = "none" /\ y.str = b
    BY <1>2, <1>3, <1>5, CutAt
<1> HIDE DEF x, y
<1>8. DOMAIN made = {1, 2} /\ made[1] = x /\ made[2] = y
    BY <1>3
<1>9. Clean(made)
    BY <1>6, <1>7, <1>8 DEF Clean
<1> QED
    BY <1>3, <1>6, <1>7, <1>9, StrsOfTwo

(* The cases of decode() with a fixed list of operands.                    *)
LEMMA FixedCases ==
    ASSUME NEW in, NEW op \in FixedOperands, op # Op.FEATURE_ABORT
    PROVE  /\ \A k : Layout[op] = <<k>> => Constructed(op, in) = <<CECBytes(in, 0, k)>>
           /\ \A k, l : Layout[op] = <<k, l>> => Constructed(op, in) = <<CECBytes(in, 0, k), CECBytes(in, k, l)>>
<1>1. op \notin Bare \cup {Op.POLLING} /\ op \notin Lists
    BY Groups
<1>2. Constructed(op, in) = [i \in DOMAIN Layout[op] |-> CECBytes(in, Offset(Layout[op], i), Layout[op][i])]
    BY <1>1 DEF Constructed, Lists
<1>3. ASSUME NEW k, Layout[op] = <<k>> PROVE Constructed(op, in) = <<CECBytes(in, 0, k)>>
    BY <1>2, <1>3 DEF Offset
<1>4. ASSUME NEW k, NEW l, Layout[op] = <<k, l>>
      PROVE  Constructed(op, in) = <<CECBytes(in, 0, k), CECBytes(in, k, l)>>
    BY <1>2, <1>4 DEF Offset
<1> QED
    BY <1>3, <1>4

(* A list of one value.                                                    *)
LEMMA ListOfOne ==
    ASSUME NEW S, NEW f \in [1 .. 1 -> S]
    PROVE  f = <<f[1]>> /\ f[1] \in S
OBVIOUS

(* The opcodes of a group are none of those that have their own case.      *)
LEMMA Apart ==
    /\ \A op \in OneAddress : op \notin Bare \cup {Op.POLLING}
    /\ \A op \in OneAddress \cup Strings :
           /\ op # Op.ROUTING_CHANGE /\ op # Op.REPORT_PHYSICAL_ADDRESS /\ op # Op.REPORT_AUDIO_STATUS
           /\ op # Op.REQUEST_SHORT_AUDIO_DESCRIPTOR /\ op # Op.REPORT_SHORT_AUDIO_DESCRIPTOR
           /\ op # Op.REPORT_FEATURES /\ op # Op.REPORT_CURRENT_LATENCY /\ op # Op.FEATURE_ABORT
    /\ \A op \in Strings : op \notin OneAddress /\ op \notin OptionalAddress
<1>1. OneAddress = {112, 129, 130, 134, 157, 167} /\ OptionalAddress \subseteq OneAddress
    BY OpValues DEF OneAddress, OptionalAddress
<1>2. Strings = {50, 68, 71, 100, 114, 135, 144, 158}
    BY OpValues DEF Strings
<1>3. \A op \in OneAddress : op \notin Bare \cup {Op.POLLING}
    BY Groups, LayoutValues
<1>4. \A op \in OneAddress \cup Strings :
           /\ op # Op.ROUTING_CHANGE /\ op # Op.REPORT_PHYSICAL_ADDRESS /\ op # Op.REPORT_AUDIO_STATUS
           /\ op # Op.REQUEST_SHORT_AUDIO_DESCRIPTOR /\ op # Op.REPORT_SHORT_AUDIO_DESCRIPTOR
           /\ op # Op.REPORT_FEATURES /\ op # Op.REPORT_CURRENT_LATENCY /\ op # Op.FEATURE_ABORT
    BY <1>1, <1>2, OpValues
<1>5. \A op \in Strings : op \notin OneAddress /\ op \notin OptionalAddress
    BY <1>1, <1>2
<1> QED
    BY <1>3, <1>4, <1>5

(* Messages without operands, ...                                          *)
LEMMA BareUnderstood ==
    ASSUME NEW m, m.op \in Bare \cup {Op.POLLING}, m.val \in Values(m.op), NEW bytes \in Serialized(m)
    PROVE  bytes = <<>> /\ Understood(m, bytes)
<1>1. /\ m.op \notin OneAddress \cup {Op.ROUTING_CHANGE} /\ m.op \notin OptionalAddress
      /\ m.op # Op.REPORT_PHYSICAL_ADDRESS /\ m.op # Op.REPORT_AUDIO_STATUS
      /\ m.op # Op.REQUEST_SHORT_AUDIO_DESCRIPTOR /\ m.op # Op.REPORT_SHORT_AUDIO_DESCRIPTOR
      /\ m.op # Op.REPORT_FEATURES /\ m.op # Op.REPORT_CURRENT_LATENCY /\ m.op # Op.FEATURE_ABORT
      /\ m.op \notin FixedOperands
    BY Groups DEF FixedOperands, OneAddress, Lists
<1>2. m.val = <<>>
    BY <1>1 DEF Values
<1>3. Built(m) = <<>>
    BY <1>1, <1>2 DEF Built
<1>4. FlattenSeq(<<>>) = <<>>
    BY DEF FlattenSeq
<1>5. bytes = <<>>
    BY <1>1, <1>3, <1>4 DEF Serialized
<1>6. Constructed(m.op, bytes) = <<>>
    BY <1>1 DEF Constructed
<1>7. Clean(<<>>) /\ Strs(<<>>) = <<>>
    BY DEF Clean, Strs
<1>8. Seen(m.op, <<>>) = <<>>
    BY <1>1 DEF Seen
<1> QED
    BY <1>2, <1>5, <1>6, <1>7, <1>8 DEF Understood

(* ... with one string, ...                                                *)
LEMMA StringUnderstood ==
    ASSUME NEW m, m.op \in Strings, m.val \in Values(m.op), NEW bytes \in Serialized(m), Len(bytes) <= 126
    PROVE  Understood(m, bytes)
<1>1. /\ m.op \notin OneAddress \cup {Op.ROUTING_CHANGE} /\ m.op \notin OptionalAddress
      /\ m.op # Op.REPORT_PHYSICAL_ADDRESS /\ m.op # Op.REPORT_AUDIO_STATUS
      /\ m.op # Op.REQUEST_SHORT_AUDIO_DESCRIPTOR /\ m.op # Op.REPORT_SHORT_AUDIO_DESCRIPTOR
      /\ m.op # Op.REPORT_FEATURES /\ m.op # Op.REPORT_CURRENT_LATENCY /\ m.op # Op.FEATURE_ABORT
    BY Apart
<1>2. m.op \in FixedOperands /\ m.op \notin Bare \cup {Op.POLLING}
    BY LayoutValues, Groups
<1>3. PICK k \in Nat : Layout[m.op] = <<k>> /\ k <= 128
    BY LayoutValues
<1>4. m.val \in [1 .. 1 -> Text(k)]
    BY <1>1, <1>2, <1>3 DEF Values
<1>5. m.val = <<m.val[1]>> /\ m.val[1] \in Text(k)
    BY <1>4, ListOfOne
<1> DEFINE s == m.val[1]
<1>6. s \in Seq(Byte) /\ 0 < Len(s) /\ Len(s) <= k
    BY <1>3, <1>5 DEF Text
<1>7. Built(m) = <<s>>
    BY <1>1, <1>5 DEF Built
<1>8. bytes = s
    BY <1>1, <1>7, FlattenFew DEF Serialized
<1> DEFINE made == Constructed(m.op, bytes)
<1>9. made = <<CECBytes(bytes, 0, k)>>
    BY <1>1, <1>2, <1>3, FixedCases
<1> HIDE DEF s, made
<1>10. Clean(made) /\ Strs(made) = <<bytes>>
    BY <1>3, <1>6, <1>8, <1>9, OneTaken
<1>11. Seen(m.op, <<bytes>>) = <<bytes>>
    BY <1>1 DEF Seen
<1> QED
    BY <1>5, <1>8, <1>10, <1>11 DEF Understood, made, s

(* ... with one address, ...                                               *)
LEMMA AddressUnderstood ==
    ASSUME NEW m, m.op \in OneAddress, m.val \in Values(m.op), NEW bytes \in Serialized(m), Len(bytes) <= 126
    PROVE  Understood(m, bytes)
<1>1. /\ m.op # Op.ROUTING_CHANGE /\ m.op # Op.REPORT_PHYSICAL_ADDRESS /\ m.op # Op.REPORT_AUDIO_STATUS
      /\ m.op # Op.REQUEST_SHORT_AUDIO_DESCRIPTOR /\ m.op # Op.REPORT_SHORT_AUDIO_DESCRIPTOR
      /\ m.op # Op.REPORT_FEATURES /\ m.op # Op.REPORT_CURRENT_LATENCY /\ m.op # Op.FEATURE_ABORT
    BY Apart
<1>2. m.op \in FixedOperands /\ m.op \notin Bare \cup {Op.POLLING} /\ Layout[m.op] = <<2>>
    BY LayoutValues, Groups
<1>3. /\ m.val \in [1 .. 1 -> Nibbles4]
      /\ m.op \in OptionalAddress => m.val \in [1 .. 1 -> Nibbles4 \ {<<15, 15, 15, 15>>}]
    <2>1. CASE m.op \in OptionalAddress
        <3>1. m.val \in [1 .. 1 -> Nibbles4 \ {<<15, 15, 15, 15>>}]
            BY <1>1, <1>2, <2>1 DEF Values
        <3>2. \A S, x : [1 .. 1 -> S \ {x}] \subseteq [1 .. 1 -> S]
            OBVIOUS
        <3> QED
            BY <3>1, <3>2
    <2>2. CASE m.op \notin OptionalAddress
        BY <1>1, <1>2, <2>2 DEF Values
    <2> QED
        BY <2>1, <2>2
<1> DEFINE v == m.val[1]
           a == PhysicalAddress(v)
<1>4. m.val = <<v>> /\ v \in Nibbles4
    BY <1>3, ListOfOne
<1>5. m.op \in OptionalAddress => v # <<15, 15, 15, 15>>
    <2>1. m.op \in OptionalAddress => v \in Nibbles4 \ {<<15, 15, 15, 15>>}
        BY <1>3, ListOfOne
    <2> QED
        BY <2>1
<1>6. a \in Seq(Byte) /\ Len(a) = 2 /\ GetByteValues(a) = v /\ (a = <<255, 255>> => v = <<15, 15, 15, 15>>)
    BY <1>4, AddressPacked
<1>7. Built(m) = <<a>>
    <2>1. Built(m) = [i \in DOMAIN m.val |-> PhysicalAddress(m.val[i])]
        BY <1>1 DEF Built
    <2>2. DOMAIN m.val = 1 .. 1
        BY <1>3
    <2>3. [i \in 1 .. 1 |-> PhysicalAddress(m.val[i])] = <<a>>
        OBVIOUS
    <2> QED
        BY <2>1, <2>2, <2>3
<1> HIDE DEF v, a
<1>8. bytes = a
    <2>1. ~ (m.op \in OptionalAddress /\ Built(m)[1] = <<255, 255>>)
        BY <1>5, <1>6, <1>7
    <2>2. Serialized(m) = {FlattenSeq(Built(m))}
        BY <1>1, <2>1 DEF Serialized
    <2> QED
        BY <1>7, <2>2, FlattenFew
<1> DEFINE made == Constructed(m.op, bytes)
           k == 2
<1>9. made = <<CECBytes(bytes, 0, k)>>
    BY <1>1, <1>2, FixedCases
<1>10. k \in Nat /\ k <= 128 /\ 0 < Len(bytes) /\ Len(bytes) <= k /\ bytes \in Seq(Byte)
    <2>1. Len(bytes) = 2 /\ bytes \in Seq(Byte)
        BY <1>6, <1>8
    <2> QED
        BY <2>1
<1> HIDE DEF k, made
<1>11. Clean(made) /\ Strs(made) = <<bytes>>
    BY <1>9, <1>10, OneTaken
<1>12. Seen(m.op, <<bytes>>) = <<GetByteValues(bytes)>>
    <2>1. Seen(m.op, <<bytes>>) = [i \in DOMAIN <<bytes>> |-> GetByteValues(<<bytes>>[i])]
        BY <1>1 DEF Seen
    <2>2. DOMAIN <<bytes>> = 1 .. 1 /\ <<bytes>>[1] = bytes
        OBVIOUS
    <2>3. [i \in 1 .. 1 |-> GetByteValues(<<bytes>>[i])] = <<GetByteValues(bytes)>>
        BY <2>2
    <2> QED
        BY <2>1, <2>2, <2>3
<1>13. Seen(m.op, Strs(made)) = m.val
    BY <1>4, <1>6, <1>8, <1>11, <1>12
<1> QED
    BY <1>11, <1>13 DEF Understood, made

(* ... with mute flag and volume, ...                                      *)
LEMMA StatusUnderstood ==
    ASSUME NEW m, m.op = Op.REPORT_AUDIO_STATUS, m.val \in Values(m.op), NEW bytes \in Serialized(m),
           Len(bytes) <= 126
    PROVE  Understood(m, bytes)
<1>1. /\ m.op \notin OneAddress \cup {Op.ROUTING_CHANGE} /\ m.op \notin OptionalAddress
      /\ m.op # Op.REPORT_PHYSICAL_ADDRESS /\ m.op # Op.FEATURE_ABORT
      /\ m.op # Op.REPORT_SHORT_AUDIO_DESCRIPTOR
    BY OpValues DEF OneAddress, OptionalAddress
<1>2. m.op \in FixedOperands /\ m.op \notin Bare \cup {Op.POLLING} /\ Layout[m.op] = <<1>>
    BY LayoutValues, Groups
<1>3. m.val \in [1 .. 1 -> {0, 1} \X (0 .. 127)]
    BY <1>1, <1>2, OpValues DEF Values
<1> DEFINE v == m.val[1]
           a == AudioStatus(v)
<1>4. m.val = <<v>> /\ v \in {0, 1} \X (0 .. 127)
    BY <1>3, ListOfOne
<1>5. a \in Text(1) /\ GetAudioStatus(a) = v
    BY <1>4, StatusPacked
<1>6. Built(m) = <<a>>
    BY <1>1, OpValues DEF Built
<1> HIDE DEF v, a
<1>7. a \in Seq(Byte) /\ Len(a) = 1
    BY <1>5, Alone
<1>8. bytes = a
    BY <1>1, <1>6, FlattenFew DEF Serialized
<1> DEFINE made == Constructed(m.op, bytes)
           k == 1
<1>9. made = <<CECBytes(bytes, 0, k)>>
    BY <1>1, <1>2, FixedCases
<1>10. k \in Nat /\ k <= 128 /\ 0 < Len(bytes) /\ Len(bytes) <= k /\ bytes \in Seq(Byte)
    <2>1. Len(bytes) = 1 /\ bytes \in Seq(Byte)
        BY <1>7, <1>8
    <2> QED
        BY <2>1
<1> HIDE DEF k, made
<1>11. Clean(made) /\ Strs(made) = <<bytes>>
    BY <1>9, <1>10, OneTaken
<1>12. Seen(m.op, <<bytes>>) = <<GetAudioStatus(bytes)>>
    <2>1. <<bytes>>[1] = bytes
        OBVIOUS
    <2> QED
        BY <1>1, <2>1, OpValues DEF Seen
<1>13. Seen(m.op, Strs(made)) = m.val
    BY <1>4, <1>5, <1>8, <1>11, <1>12
<1> QED
    BY <1>11, <1>13 DEF Understood, made

(* A pair of values.                                                       *)
LEMMA Pair ==
    ASSUME NEW S, NEW T, NEW v \in S \X T
    PROVE  v = <<v[1], v[2]>> /\ v[1] \in S /\ v[2] \in T /\ DOMAIN v = 1 .. 2
OBVIOUS

(* serialize() of most messages appends every operand there is.            *)
LEMMA AllAppended ==
    ASSUME NEW m, m.op \notin OptionalAddress, m.op # Op.REPORT_SHORT_AUDIO_DESCRIPTOR,
           NEW bytes \in Serialized(m)
    PROVE  bytes = FlattenSeq(Built(m))
BY DEF Serialized

(* ... with two addresses, ...                                             *)
LEMMA RoutingUnderstood ==
    ASSUME NEW m, m.op = Op.ROUTING_CHANGE, m.val \in Values(m.op), NEW bytes \in Serialized(m),
           Len(bytes) <= 126
    PROVE  Understood(m, bytes)
<1>1. m.op \notin OneAddress /\ m.op \notin OptionalAddress
    BY OpValues DEF OneAddress, OptionalAddress
<1>2. m.op \in FixedOperands /\ m.op \notin Bare \cup {Op.POLLING} /\ Layout[m.op] = <<2, 2>>
    BY LayoutValues, Groups
<1>3. m.val \in Nibbles4 \X Nibbles4
    BY <1>1, <1>2, OpValues DEF Values
<1> DEFINE v == m.val[1]
           w == m.val[2]
           a == PhysicalAddress(v)
           b == PhysicalAddress(w)
<1>4. m.val = <<v, w>> /\ v \in Nibbles4 /\ w \in Nibbles4 /\ DOMAIN m.val = 1 .. 2
    BY <1>3, Pair
<1>5. /\ a \in Seq(Byte) /\ Len(a) = 2 /\ GetByteValues(a) = v
      /\ b \in Seq(Byte) /\ Len(b) = 2 /\ GetByteValues(b) = w
    BY <1>4, AddressPacked
<1>6. Built(m) = <<a, b>>
    <2>1. Built(m) = [i \in DOMAIN m.val |-> PhysicalAddress(m.val[i])]
        BY <1>1, OpValues DEF Built
    <2>2. [i \in 1 .. 2 |-> PhysicalAddress(m.val[i])] = <<a, b>>
        OBVIOUS
    <2> QED
        BY <1>4, <2>1, <2>2
<1> HIDE DEF v, w, a, b
<1>7. bytes = a \o b
    <2>1. m.op # Op.REPORT_SHORT_AUDIO_DESCRIPTOR
        BY OpValues
    <2>2. bytes = FlattenSeq(Built(m))
        BY <1>1, <2>1, AllAppended
    <2>3. FlattenSeq(<<a, b>>) = a \o b
        BY FlattenFew
    <2> QED
        BY <1>6, <2>2, <2>3
<1> DEFINE made == Constructed(m.op, bytes)
           k == 2
<1>8. made = <<CECBytes(bytes, 0, k), CECBytes(bytes, k, k)>>
    <2>1. m.op # Op.FEATURE_ABORT
        BY OpValues
    <2> QED
        BY <1>2, <2>1, FixedCases
<1>9. k \in Nat /\ k <= 128 /\ k = Len(a) /\ Len(b) <= k /\ 0 < Len(a) /\ 0 < Len(b)
    BY <1>5
<1>13. Len(a \o b) <= 126 /\ made = <<CECBytes(a \o b, 0, k), CECBytes(a \o b, k, k)>>
    BY <1>7, <1>8
<1>14. a \in Seq(Byte) /\ b \in Seq(Byte)
    BY <1>5
<1> HIDE DEF k, made
<1>10. Clean(made) /\ Strs(made) = <<a, b>>
    BY <1>9, <1>13, <1>14, TwoTaken
<1>11. Seen(m.op, <<a, b>>) = <<GetByteValues(a), GetByteValues(b)>>
    <2>1. Seen(m.op, <<a, b>>) = [i \in DOMAIN <<a, b>> |-> GetByteValues(<<a, b>>[i])]
        BY <1>1, OpValues DEF Seen
    <2>2. [i \in DOMAIN <<a, b>> |-> GetByteValues(<<a, b>>[i])] = <<GetByteValues(a), GetByteValues(b)>>
        OBVIOUS
    <2> QED
        BY <2>1, <2>2
<1>12. Seen(m.op, Strs(made)) = m.val
    BY <1>4, <1>5, <1>10, <1>11
<1> QED
    BY <1>10, <1>12 DEF Understood, made

(* ... with an address and a device type, ...                              *)
LEMMA PhysicalUnderstood ==
    ASSUME NEW m, m.op = Op.REPORT_PHYSICAL_ADDRESS, m.val \in Values(m.op), NEW bytes \in Serialized(m),
           Len(bytes) <= 126
    PROVE  Understood(m, bytes)
<1>1. m.op \notin OneAddress \cup {Op.ROUTING_CHANGE} /\ m.op \notin OptionalAddress
    BY OpValues DEF OneAddress, OptionalAddress
<1>2. m.op \in FixedOperands /\ m.op \notin Bare \cup {Op.POLLING} /\ Layout[m.op] = <<2, 1>>
    BY LayoutValues, Groups
<1>3. m.val \in Nibbles4 \X Text(1)
    BY <1>1, <1>2, OpValues DEF Values, DeviceTypeLen
<1> DEFINE v == m.val[1]
           b == m.val[2]
           a == PhysicalAddress(v)
<1>4. m.val = <<v, b>> /\ v \in Nibbles4 /\ b \in Text(1)
    BY <1>3, Pair
<1>5. a \in Seq(Byte) /\ Len(a) = 2 /\ GetByteValues(a) = v /\ b \in Seq(Byte) /\ Len(b) = 1
    BY <1>4, AddressPacked, Alone
<1>6. Built(m) = <<a, b>>
    BY <1>1, OpValues DEF Built
<1> HIDE DEF v, a, b
<1>7. bytes = a \o b
    <2>1. m.op # Op.REPORT_SHORT_AUDIO_DESCRIPTOR
        BY OpValues
    <2>2. bytes = FlattenSeq(Built(m))
        BY <1>1, <2>1, AllAppended
    <2>3. FlattenSeq(<<a, b>>) = a \o b
        BY FlattenFew
    <2> QED
        BY <1>6, <2>2, <2>3
<1> DEFINE made == Constructed(m.op, bytes)
           k == 2
           l == 1
<1>8. made = <<CECBytes(bytes, 0, k), CECBytes(bytes, k, l)>>
    <2>1. m.op # Op.FEATURE_ABORT
        BY OpValues
    <2> QED
        BY <1>2, <2>1, FixedCases
<1>9. l \in Nat /\ l <= 128 /\ k = Len(a) /\ Len(b) <= l /\ 0 < Len(a) /\ 0 < Len(b)
    BY <1>5
<1>13. Len(a \o b) <= 126 /\ made = <<CECBytes(a \o b, 0, k), CECBytes(a \o b, k, l)>>
    BY <1>7, <1>8
<1>14. a \in Seq(Byte) /\ b \in Seq(Byte)
    BY <1>5
<1> HIDE DEF k, l, made
<1>10. Clean(made) /\ Strs(made) = <<a, b>>
    BY <1>9, <1>13, <1>14, TwoTaken
<1>11. Seen(m.op, <<a, b>>) = <<GetByteValues(a), b>>
    <2>1. <<a, b>>[1] = a /\ <<a, b>>[2] = b
        OBVIOUS
    <2> QED
        BY <1>1, <2>1, OpValues DEF Seen
<1>12. Seen(m.op, Strs(made)) = m.val
    BY <1>4, <1>5, <1>10, <1>11
<1> QED
    BY <1>10, <1>12 DEF Understood, made

(* ... and with the opcode that is refused and the reason.                 *)
LEMMA AbortUnderstood ==
    ASSUME NEW m, m.op = Op.FEATURE_ABORT, m.val \in Values(m.op), NEW bytes \in Serialized(m),
           Len(bytes) <= 126
    PROVE  Understood(m, bytes)
<1>1. m.op \notin OneAddress \cup {Op.ROUTING_CHANGE} /\ m.op \notin OptionalAddress
    BY OpValues DEF OneAddress, OptionalAddress
<1>2. m.op \in FixedOperands /\ m.op \notin Bare \cup {Op.POLLING} /\ m.op \notin Lists
    BY LayoutValues, Groups
<1>3. m.val \in Text(1) \X Text(1)
    BY <1>1, <1>2, OpValues DEF Values, OpCodeLen, AbortReasonLen
<1> DEFINE a == m.val[1]
           b == m.val[2]
<1>4. m.val = <<a, b>> /\ a \in Text(1) /\ b \in Text(1)
    BY <1>3, Pair
<1>5. a \in Seq(Byte) /\ Len(a) = 1 /\ b \in Seq(Byte) /\ Len(b) = 1 /\ a = <<a[1]>> /\ b = <<b[1]>>
    BY <1>4, Alone
<1>6. Built(m) = <<a, b>>
    <2>1. Built(m) = m.val
        BY <1>1, OpValues DEF Built
    <2> QED
        BY <1>4, <2>1
<1> HIDE DEF a, b
<1>7. bytes = a \o b
    <2>1. m.op # Op.REPORT_SHORT_AUDIO_DESCRIPTOR
        BY OpValues
    <2>2. bytes = FlattenSeq(Built(m))
        BY <1>1, <2>1, AllAppended
    <2>3. FlattenSeq(<<a, b>>) = a \o b
        BY FlattenFew
    <2> QED
        BY <1>6, <2>2, <2>3
<1>8. bytes \in Seq(Byte) /\ Len(bytes) = 2 /\ bytes[1] = a[1] /\ bytes[2] = b[1]
    <2>3. a \in Seq(Byte) /\ b \in Seq(Byte)
        BY <1>5
    <2>1. /\ a \o b \in Seq(Byte) /\ Len(a \o b) = Len(a) + Len(b)
          /\ \A i \in 1 .. Len(a) + Len(b) : (a \o b)[i] = IF i <= Len(a) THEN a[i] ELSE b[i - Len(a)]
        BY <2>3, ConcatProperties
    <2>2. 1 \in 1 .. Len(a) + Len(b) /\ 2 \in 1 .. Len(a) + Len(b) /\ 2 - Len(a) = 1
        BY <1>5
    <2> QED
        BY <1>5, <1>7, <2>1, <2>2
<1> DEFINE made == Constructed(m.op, bytes)
           x == At(bytes, 0)
           y == CECBytes(bytes, 1, 1)
<1>9. made = <<x, y>>
    BY <1>2 DEF Constructed, Lists, FeatureAbort, OpCodeLen, AbortReasonLen
<1>10. x.error = "none" /\ x.str = a
    BY <1>5, <1>8 DEF At
<1>11. y.error = "none" /\ y.str = b
    <2> DEFINE p == 1
    <2>1. p \in Nat /\ p < Len(bytes) /\ Len(bytes) <= 128 /\ bytes[p + 1] = b[1]
        BY <1>8
    <2> HIDE DEF p
    <2>2. CECBytes(bytes, p, 1).error = "none" /\ CECBytes(bytes, p, 1).str = <<bytes[p + 1]>>
        BY <1>8, <2>1, OneByte
    <2> QED
        BY <1>5, <2>1, <2>2 DEF p
<1> HIDE DEF x, y, made
<1>12. Clean(made) /\ Strs(made) = <<a, b>>
    <2>1. DOMAIN made = {1, 2} /\ made[1] = x /\ made[2] = y
        BY <1>9
    <2>2. Clean(made)
        BY <1>10, <1>11, <2>1 DEF Clean
    <2> QED
        BY <1>9, <1>10, <1>11, <2>2, StrsOfTwo
<1>13. Seen(m.op, <<a, b>>) = <<a, b>>
    BY <1>1, OpValues DEF Seen
<1> QED
    BY <1>4, <1>12, <1>13 DEF Understood, made

(* One byte after the other.                                               *)
LEMMA SinglesJoined ==
    ASSUME NEW n \in Nat, NEW t \in [1 .. n -> Byte]
    PROVE  FlattenSeq([i \in 1 .. n |-> <<t[i]>>]) = t
<1> DEFINE s == [i \in 1 .. n |-> <<t[i]>>]
           g == [k \in 1 .. n |-> [i \in 1 .. k |-> t[i]]]
           r == [k \in 1 .. n |-> IF k = 1 THEN s[k] ELSE g[k - 1] \o s[k]]
<1>1. CASE n = 0
    <2>1. s = <<>> /\ t = <<>>
        BY <1>1
    <2>2. FlattenSeq(<<>>) = <<>>
        BY DEF FlattenSeq
    <2> QED
        BY <2>1, <2>2
<1>2. CASE n # 0
    <2>1. 0 < n /\ Len(s) = n /\ n \in 1 .. n
        BY <1>2
    <2>2. ASSUME NEW k \in 1 .. n PROVE g[k] = r[k]
        <3> DEFINE u == [i \in 1 .. k |-> t[i]]
                   w == [i \in 1 .. k - 1 |-> t[i]]
                   e == <<t[k]>>
        <3>1. k \in Nat /\ 0 < k /\ k - 1 \in Nat /\ t[k] \in Byte /\ \A i \in 1 .. k : t[i] \in Byte
            OBVIOUS
        <3>2. u \in Seq(Byte) /\ Len(u) = k /\ \A i \in 1 .. k : u[i] = t[i]
            BY <3>1
        <3>3. w \in Seq(Byte) /\ Len(w) = k - 1 /\ \A i \in 1 .. k - 1 : w[i] = t[i]
            BY <3>1
        <3>4. e \in Seq(Byte) /\ Len(e) = 1 /\ e[1] = t[k]
            BY <3>1, Single
        <3>5. g[k] = u /\ s[k] = e
            OBVIOUS
        <3>6. CASE k = 1
            <4> HIDE DEF u, e
            <4>1. u = e
                <5>1. Len(u) = Len(e) /\ \A i \in 1 .. Len(u) : u[i] = e[i]
                    BY <3>2, <3>4, <3>6
                <5> QED
                    BY <3>2, <3>4, <5>1, SeqEqual
            <4>2. r[k] = s[k]
                BY <3>6
            <4> QED
                BY <3>5, <4>1, <4>2
        <3>7. CASE k # 1
            <4>1. r[k] = g[k - 1] \o s[k] /\ g[k - 1] = w
                BY <3>1, <3>7
            <4> HIDE DEF u, w, e, g, r, s
            <4>2. /\ w \o e \in Seq(Byte) /\ Len(w \o e) = Len(w) + Len(e)
                  /\ \A i \in 1 .. Len(w) + Len(e) : (w \o e)[i] = IF i <= Len(w) THEN w[i] ELSE e[i - Len(w)]
                BY <3>3, <3>4, ConcatProperties
            <4> DEFINE z == w \o e
            <4>3. z \in Seq(Byte) /\ Len(z) = k /\ \A i \in 1 .. k : z[i] = IF i <= k - 1 THEN w[i] ELSE e[i - (k - 1)]
                <5>1. Len(w) + Len(e) = k /\ Len(w) = k - 1
                    BY <3>1, <3>3, <3>4
                <5> QED
                    BY <4>2, <5>1
            <4>4. r[k] = z
                BY <3>5, <4>1
            <4> HIDE DEF z
            <4>5. ASSUME NEW i \in 1 .. k PROVE u[i] = z[i]
                <5>1. CASE i <= k - 1
                    BY <3>1, <3>2, <3>3, <4>3, <5>1
                <5>2. CASE ~ (i <= k - 1)
                    <6>1. i = k /\ i - (k - 1) = 1
                        BY <3>1, <5>2
                    <6> QED
                        BY <3>2, <3>4, <4>3, <5>2, <6>1
                <5> QED
                    BY <5>1, <5>2
            <4>6. u = z
                BY <3>2, <4>3, <4>5, SeqEqual
            <4> QED
                BY <3>5, <4>4, <4>6
        <3> QED
            BY <3>6, <3>7
    <2>3. g = r
        <3>1. g = [k \in 1 .. n |-> g[k]] /\ r = [k \in 1 .. n |-> r[k]]
            OBVIOUS
        <3> HIDE DEF g, r
        <3> QED
            BY <2>2, <3>1
    <2>4. g[n] = t
        BY <2>1
    <2> HIDE DEF g, s
    <2>5. Flattens(g, s)
        BY <2>1, <2>3 DEF Flattens
    <2>6. FlattenSeq(s) = g[n]
        BY <2>1, <2>5, Flattened
    <2> QED
        BY <2>4, <2>6 DEF s
<1> QED
    BY <1>1, <1>2

(* ... with a list of audio formats, ...                                   *)
LEMMA FormatsUnderstood ==
    ASSUME NEW m, m.op = Op.REQUEST_SHORT_AUDIO_DESCRIPTOR, m.val \in Values(m.op),
           NEW bytes \in Serialized(m), Len(bytes) <= 126
    PROVE  Understood(m, bytes)
<1>1. /\ m.op \notin OneAddress \cup {Op.ROUTING_CHANGE} /\ m.op \notin OptionalAddress
      /\ m.op # Op.REPORT_PHYSICAL_ADDRESS /\ m.op # Op.REPORT_AUDIO_STATUS
      /\ m.op # Op.REPORT_SHORT_AUDIO_DESCRIPTOR /\ m.op # Op.FEATURE_ABORT
    BY OpValues DEF OneAddress, OptionalAddress
<1>2. m.op \in Lists /\ m.op \notin FixedOperands /\ m.op \notin Bare \cup {Op.POLLING}
    BY Groups DEF Lists
<1> DEFINE F == (0 .. 3) \X (0 .. 63)
           v == m.val
           n == Len(v)
           t == [i \in 1 .. n |-> RequestAudioFormat(v[i])[1]]
<1>3. v \in Seq(F) /\ n <= 4
    BY <1>1, <1>2, OpValues DEF Values
<1>4. \A x \in F : LET s == RequestAudioFormat(x) IN s = <<s[1]>> /\ s[1] \in Byte /\ GetAudioFormat(s) = x
    BY FormatPacked, Alone
<1>5. Built(m) = [i \in 1 .. Least(4, n) |-> RequestAudioFormat(v[i])]
    BY <1>1, OpValues DEF Built
<1> HIDE DEF F, v
<1>6. n \in Nat /\ Least(4, n) = n /\ (\A i \in 1 .. n : v[i] \in F) /\ v = [i \in 1 .. n |-> v[i]]
    <2>3. n \in Nat
        BY <1>3, LenProperties
    <2>1. Least(4, n) = n
        <3> HIDE DEF n
        <3> QED
            BY <1>3, <2>3 DEF Least
    <2>2. (\A i \in 1 .. Len(v) : v[i] \in F) /\ v = [i \in 1 .. Len(v) |-> v[i]]
        BY <1>3
    <2> QED
        BY <2>1, <2>2, <2>3
<1> HIDE DEF n
<1>7. /\ \A i \in 1 .. n : RequestAudioFormat(v[i]) = <<t[i]>> /\ t[i] \in Byte /\ GetAudioFormat(<<t[i]>>) = v[i]
      /\ t \in [1 .. n -> Byte]
    BY <1>4, <1>6
<1>8. t \in Seq(Byte) /\ Len(t) = n
    BY <1>6, <1>7, Listed
<1> HIDE DEF t
<1>9. Built(m) = [i \in 1 .. n |-> <<t[i]>>]
    BY <1>5, <1>6, <1>7
<1>10. bytes = t
    <2>1. bytes = FlattenSeq(Built(m))
        BY <1>1, AllAppended
    <2>2. FlattenSeq([i \in 1 .. n |-> <<t[i]>>]) = t
        BY <1>6, <1>7, SinglesJoined
    <2> QED
        BY <1>9, <2>1, <2>2
<1> DEFINE made == Constructed(m.op, bytes)
<1>11. made = [i \in 1 .. n |-> CECBytes(t, i - 1, 1)]
    <2>1. made = RequestShortAudioDescriptor(bytes)
        <3>1. m.op \notin FixedOperands \ {Op.FEATURE_ABORT}
            BY <1>2
        <3>2. m.op # Op.REPORT_FEATURES /\ m.op # Op.REPORT_CURRENT_LATENCY
            BY OpValues
        <3> QED
            BY <1>1, <1>2, <3>1, <3>2 DEF Constructed
    <2> HIDE DEF made
    <2>2. Least(4, Len(bytes)) = n
        BY <1>6, <1>8, <1>10
    <2> QED
        BY <1>10, <2>1, <2>2 DEF RequestShortAudioDescriptor, RequestAudioFormatLen
<1> HIDE DEF made
<1>12. ASSUME NEW i \in 1 .. n PROVE made[i].error = "none" /\ made[i].str = <<t[i]>>
    <2> DEFINE p == i - 1
    <2>1. p \in Nat /\ p < Len(t) /\ Len(t) <= 128 /\ p + 1 = i
        BY <1>3, <1>6, <1>8 DEF n
    <2>2. made[i] = CECBytes(t, p, 1)
        BY <1>11
    <2> HIDE DEF p
    <2> QED
        BY <1>8, <2>1, <2>2, OneByte
<1>13. DOMAIN made = 1 .. n
    BY <1>11
<1>14. Clean(made) /\ Strs(made) = [i \in 1 .. n |-> <<t[i]>>]
    BY <1>12, <1>13 DEF Clean, Strs
<1>15. Seen(m.op, Strs(made)) = v
    <2> DEFINE args == Strs(made)
    <2>1. Seen(m.op, args) = [i \in DOMAIN args |-> GetAudioFormat(args[i])]
        BY <1>1, OpValues DEF Seen
    <2> HIDE DEF args
    <2>2. args = [i \in 1 .. n |-> <<t[i]>>]
        BY <1>14 DEF args
    <2>3. [i \in DOMAIN args |-> GetAudioFormat(args[i])] = [i \in 1 .. n |-> v[i]]
        BY <1>7, <2>2
    <2> QED
        BY <1>6, <2>1, <2>3 DEF args
<1> QED
    BY <1>14, <1>15 DEF Understood, made, v

(* An operand whose first byte has no extension bit is that byte.          *)
LEMMA NoExtension ==
    ASSUME NEW in \in Seq(Byte), NEW first \in Nat, first < Len(in), Bit(in[first + 1], 7) = 0
    PROVE  Extended(in, first) = 1
<1> DEFINE x == Extended(in, first)
<1>1. /\ x \in Nat /\ 0 < x
      /\ \A j \in Nat : first <= j /\ j < first + x - 1 => Bit(in[j + 1], 7) = 1
    BY ExtendedShape
<1> HIDE DEF x
<1>2. x = 1
    <2>1. ASSUME 1 < x PROVE FALSE
        <3>1. first <= first /\ first < first + x - 1
            BY <1>1, <2>1
        <3> QED
            BY <1>1, <3>1
    <2> QED
        BY <1>1, <2>1
<1> QED
    BY <1>2 DEF x

(* One more element at the end of a sequence.                              *)
LEMMA OneMore ==
    ASSUME NEW S, NEW s \in Seq(S), NEW e \in Seq(S), NEW r \in Seq(S), Len(e) = 1, Len(r) = Len(s) + 1,
           \A i \in 1 .. Len(s) : r[i] = s[i], r[Len(s) + 1] = e[1]
    PROVE  r = s \o e
<1>1. Len(s) \in Nat
    BY LenProperties
<1>2. /\ s \o e \in Seq(S) /\ Len(s \o e) = Len(s) + Len(e)
      /\ \A i \in 1 .. Len(s) + Len(e) : (s \o e)[i] = IF i <= Len(s) THEN s[i] ELSE e[i - Len(s)]
    BY ConcatProperties
<1> DEFINE z == s \o e
<1>3. z \in Seq(S) /\ Len(z) = Len(r) /\ \A i \in 1 .. Len(r) : z[i] = IF i <= Len(s) THEN s[i] ELSE e[i - Len(s)]
    BY <1>1, <1>2
<1> HIDE DEF z
<1>4. ASSUME NEW i \in 1 .. Len(r) PROVE z[i] = r[i]
    <2>1. CASE i <= Len(s)
        BY <1>1, <1>3, <2>1
    <2>2. CASE ~ (i <= Len(s))
        <3>1. i = Len(s) + 1 /\ i - Len(s) = 1
            BY <1>1, <2>2
        <3> QED
            BY <1>1, <1>3, <2>2, <3>1
    <2> QED
        BY <2>1, <2>2
<1>5. z = r
    BY <1>3, <1>4, SeqEqual
<1> QED
    BY <1>5 DEF z

(* A sequence of up to four elements, put together: the second one, ...    *)
LEMMA TwoElements ==
    ASSUME NEW S, NEW s \in Seq(S), NEW e \in Seq(S), NEW r \in Seq(S), Len(s) = 1, Len(e) = 1, Len(r) = 2,
           r[1] = s[1], r[2] = e[1]
    PROVE  r = s \o e
<1>1. Len(r) = Len(s) + 1 /\ r[Len(s) + 1] = e[1] /\ \A i \in 1 .. Len(s) : r[i] = s[i]
    OBVIOUS
<1> QED
    BY <1>1, OneMore

(* ... the third one, ...                                                  *)
LEMMA ThreeElements ==
    ASSUME NEW S, NEW w \in S, NEW x \in S, NEW y \in S,
           NEW s, s = <<w, x>>, NEW e, e = <<y>>, NEW r, r = <<w, x, y>>
    PROVE  r = s \o e
<1>1. s \in Seq(S) /\ Len(s) = 2 /\ s[1] = w /\ s[2] = x
    OBVIOUS
<1>2. r \in Seq(S) /\ Len(r) = 3 /\ r[1] = w /\ r[2] = x /\ r[3] = y
    OBVIOUS
<1>3. e \in Seq(S) /\ Len(e) = 1 /\ e[1] = y
    OBVIOUS
<1>4. \A i \in 1 .. 2 : i = 1 \/ i = 2
    OBVIOUS
<1> DEFINE t == s
           u == r
           f == e
<1>5. /\ t \in Seq(S) /\ u \in Seq(S) /\ f \in Seq(S) /\ Len(f) = 1 /\ Len(u) = Len(t) + 1
      /\ u[Len(t) + 1] = f[1] /\ \A i \in 1 .. Len(t) : u[i] = t[i]
    BY <1>1, <1>2, <1>3, <1>4
<1> HIDE DEF t, u, f
<1>6. u = t \o f
    BY <1>5, OneMore
<1> QED
    BY <1>6 DEF t, u, f

(* ... and the fourth.                                                     *)
LEMMA FourElements ==
    ASSUME NEW S, NEW w \in S, NEW x \in S, NEW y \in S, NEW z \in S,
           NEW s, s = <<w, x, y>>, NEW e, e = <<z>>, NEW r, r = <<w, x, y, z>>
    PROVE  r = s \o e
<1>1. s \in Seq(S) /\ Len(s) = 3 /\ s[1] = w /\ s[2] = x /\ s[3] = y
    OBVIOUS
<1>2. r \in Seq(S) /\ Len(r) = 4 /\ r[1] = w /\ r[2] = x /\ r[3] = y /\ r[4] = z
    OBVIOUS
<1>3. e \in Seq(S) /\ Len(e) = 1 /\ e[1] = z
    OBVIOUS
<1>4. \A i \in 1 .. 3 : i = 1 \/ i = 2 \/ i = 3
    OBVIOUS
<1> DEFINE t == s
           u == r
           f == e
<1>5. /\ t \in Seq(S) /\ u \in Seq(S) /\ f \in Seq(S) /\ Len(f) = 1 /\ Len(u) = Len(t) + 1
      /\ u[Len(t) + 1] = f[1] /\ \A i \in 1 .. Len(t) : u[i] = t[i]
    BY <1>1, <1>2, <1>3, <1>4
<1> HIDE DEF t, u, f
<1>6. u = t \o f
    BY <1>5, OneMore
<1> QED
    BY <1>6 DEF t, u, f

(* Putting together is associative.                                        *)
LEMMA Regrouped ==
    ASSUME NEW a \in Seq(Byte), NEW b \in Seq(Byte), NEW c \in Seq(Byte),
           NEW ab, ab = a \o b, NEW bc, bc = b \o c
    PROVE  ab \o c = a \o bc
BY ConcatAssociative

(* ... and four operands of a byte taken apart.                            *)
LEMMA FourTaken ==
    ASSUME NEW w \in Byte, NEW x \in Byte, NEW y \in Byte, NEW z \in Byte, NEW in, in = <<w, x, y, z>>,
           NEW made, made = <<CECBytes(in, 0, 1), CECBytes(in, 1, 1), CECBytes(in, 2, 1), CECBytes(in, 3, 1)>>
    PROVE  Clean(made) /\ Strs(made) = <<<<w>>, <<x>>, <<y>>, <<z>>>>
<1>1. in \in Seq(Byte) /\ Len(in) = 4 /\ in[1] = w /\ in[2] = x /\ in[3] = y /\ in[4] = z
    OBVIOUS
<1> DEFINE c(p) == CECBytes(in, p, 1)
<1>2. ASSUME NEW p \in Nat, p < 4 PROVE c(p).error = "none" /\ c(p).str = <<in[p + 1]>>
    <2>1. Len(in) <= 128 /\ p < Len(in)
        BY <1>1, <1>2
    <2> QED
        BY <1>1, <2>1, OneByte
<1>3. made = <<c(0), c(1), c(2), c(3)>>
    OBVIOUS
<1> HIDE DEF c
<1>4. /\ c(0).error = "none" /\ c(0).str = <<w>> /\ c(1).error = "none" /\ c(1).str = <<x>>
      /\ c(2).error = "none" /\ c(2).str = <<y>> /\ c(3).error = "none" /\ c(3).str = <<z>>
    <2>1. 0 + 1 = 1 /\ 1 + 1 = 2 /\ 2 + 1 = 3 /\ 3 + 1 = 4
        OBVIOUS
    <2> QED
        BY <1>1, <1>2, <2>1
<1>5. DOMAIN made = {1, 2, 3, 4} /\ made[1] = c(0) /\ made[2] = c(1) /\ made[3] = c(2) /\ made[4] = c(3)
    BY <1>3
<1>6. Clean(made)
    BY <1>4, <1>5 DEF Clean
<1>7. Strs(made) = <<c(0).str, c(1).str, c(2).str, c(3).str>>
    BY <1>3 DEF Strs
<1> QED
    BY <1>4, <1>6, <1>7

(* ... with version, device types, profile and features, ...               *)
LEMMA FeaturesUnderstood ==
    ASSUME NEW m, m.op = Op.REPORT_FEATURES, m.val \in Values(m.op), NEW bytes \in Serialized(m),
           Len(bytes) <= 126
    PROVE  Understood(m, bytes)
<1>1. /\ m.op \notin OneAddress \cup {Op.ROUTING_CHANGE} /\ m.op \notin OptionalAddress
      /\ m.op # Op.REPORT_PHYSICAL_ADDRESS /\ m.op # Op.REPORT_AUDIO_STATUS
      /\ m.op # Op.REPORT_SHORT_AUDIO_DESCRIPTOR /\ m.op # Op.FEATURE_ABORT
      /\ m.op # Op.REQUEST_SHORT_AUDIO_DESCRIPTOR /\ m.op # Op.REPORT_CURRENT_LATENCY
    BY OpValues DEF OneAddress, OptionalAddress
<1>2. m.op \notin FixedOperands /\ m.op \notin Bare \cup {Op.POLLING} /\ m.op \notin FixedOperands \ {Op.FEATURE_ABORT}
    BY Groups
<1> DEFINE v1 == m.val[1]
           v2 == m.val[2]
           v3 == m.val[3]
           v4 == m.val[4]
           b == AllDeviceTypes(v2)
           c == RcProfile(v3)
           d == DeviceFeatures(v4)
<1>3. /\ m.val = <<v1, v2, v3, v4>> /\ v1 \in Text(1) /\ v2 \in FlagList(6) /\ v3 \in RcProfileValue
      /\ v4 \in FlagList(6)
    <2>1. m.val \in Text(VersionLen) \X FlagList(6) \X RcProfileValue \X FlagList(6)
        BY <1>1, <1>2, OpValues DEF Values
    <2>2. \A A, B, C, D : \A q \in A \X B \X C \X D :
              q = <<q[1], q[2], q[3], q[4]>> /\ q[1] \in A /\ q[2] \in B /\ q[3] \in C /\ q[4] \in D
        OBVIOUS
    <2> QED
        BY <2>1, <2>2 DEF VersionLen
<1>4. Built(m) = <<v1, b, c, d>>
    BY <1>1 DEF Built
<1>5. b \in Text(1) /\ GetAllDeviceTypes(b) = v2
    BY <1>3, FlagsPacked
<1>6. c \in Text(1) /\ GetRcProfile(c) = v3 /\ Bit(c[1], 7) = 0
    BY <1>3, ProfilePacked
<1>7. d \in Text(1) /\ GetDeviceFeatures(d) = v4 /\ Bit(d[1], 7) = 0
    BY <1>3, FlagsPacked
<1> HIDE DEF v1, v2, v3, v4, b, c, d
<1> DEFINE w == v1[1]
           x == b[1]
           y == c[1]
           z == d[1]
<1>8. /\ w \in Byte /\ x \in Byte /\ y \in Byte /\ z \in Byte
      /\ v1 = <<w>> /\ b = <<x>> /\ c = <<y>> /\ d = <<z>>
    BY <1>3, <1>5, <1>6, <1>7, Alone
<1> HIDE DEF w, x, y, z
<1>9. bytes = <<w, x, y, z>>
    <2>1. bytes = FlattenSeq(Built(m))
        BY <1>1, AllAppended
    <2> DEFINE ab == <<w, x>>
               abc == <<w, x, y>>
               abcd == <<w, x, y, z>>
    <2>4. ab = <<w, x>> /\ abc = <<w, x, y>> /\ abcd = <<w, x, y, z>>
        OBVIOUS
    <2> HIDE DEF ab, abc, abcd
    <2>2. ab = v1 \o b /\ abc = ab \o c /\ abcd = abc \o d
        <3>1. ab = v1 \o b
            <4>1. /\ v1 \in Seq(Byte) /\ b \in Seq(Byte) /\ ab \in Seq(Byte)
                  /\ Len(v1) = 1 /\ Len(b) = 1 /\ Len(ab) = 2 /\ ab[1] = v1[1] /\ ab[2] = b[1]
                BY <1>8, <2>4
            <4> QED
                BY <4>1, TwoElements
        <3>2. abc = ab \o c
            BY <1>8, <2>4, ThreeElements
        <3>3. abcd = abc \o d
            BY <1>8, <2>4, FourElements
        <3> QED
            BY <3>1, <3>2, <3>3
    <2>3. FlattenSeq(<<v1, b, c, d>>) = abcd
        BY <2>2, FlattenFour
    <2> QED
        BY <1>4, <2>1, <2>3 DEF abcd
<1>10. bytes \in Seq(Byte) /\ Len(bytes) = 4 /\ bytes[3] = y /\ bytes[4] = z
    BY <1>8, <1>9
<1> DEFINE made == Constructed(m.op, bytes)
<1>11. made = ReportFeatures(bytes)
    BY <1>1, <1>2 DEF Constructed
<1> HIDE DEF made
<1>12. Extended(bytes, 2) = 1 /\ Extended(bytes, 3) = 1
    <2>1. Bit(bytes[2 + 1], 7) = 0 /\ Bit(bytes[3 + 1], 7) = 0 /\ 2 < Len(bytes) /\ 3 < Len(bytes)
        BY <1>6, <1>7, <1>10 DEF y, z
    <2> QED
        BY <1>10, <2>1, NoExtension
<1>13. made = <<CECBytes(bytes, 0, 1), CECBytes(bytes, 1, 1), CECBytes(bytes, 2, 1), CECBytes(bytes, 3, 1)>>
    BY <1>11, <1>12 DEF ReportFeatures, VersionLen, AllDeviceTypesLen
<1>14. Clean(made) /\ Strs(made) = <<<<w>>, <<x>>, <<y>>, <<z>>>>
    BY <1>8, <1>9, <1>13, FourTaken
<1>15. Strs(made) = <<v1, b, c, d>>
    BY <1>8, <1>14
<1>16. Seen(m.op, <<v1, b, c, d>>) = <<v1, GetAllDeviceTypes(b), GetRcProfile(c), GetDeviceFeatures(d)>>
    BY <1>1 DEF Seen
<1> QED
    BY <1>3, <1>5, <1>6, <1>7, <1>14, <1>15, <1>16 DEF Understood, made

(* ... and with address and latency.                                       *)
LEMMA LatencyUnderstood ==
    ASSUME NEW m, m.op = Op.REPORT_CURRENT_LATENCY, m.val \in Values(m.op), NEW bytes \in Serialized(m),
           Len(bytes) <= 126
    PROVE  Understood(m, bytes)
<1>1. /\ m.op \notin OneAddress \cup {Op.ROUTING_CHANGE} /\ m.op \notin OptionalAddress
      /\ m.op # Op.REPORT_PHYSICAL_ADDRESS /\ m.op # Op.REPORT_AUDIO_STATUS
      /\ m.op # Op.REPORT_SHORT_AUDIO_DESCRIPTOR /\ m.op # Op.FEATURE_ABORT
      /\ m.op # Op.REQUEST_SHORT_AUDIO_DESCRIPTOR /\ m.op # Op.REPORT_FEATURES
    BY OpValues DEF OneAddress, OptionalAddress
<1>2. m.op \notin FixedOperands /\ m.op \notin Bare \cup {Op.POLLING} /\ m.op \notin FixedOperands \ {Op.FEATURE_ABORT}
    BY Groups
<1>3. m.val \in Nibbles4 \X LatencyValue
    BY <1>1, <1>2, OpValues DEF Values
<1> DEFINE v == m.val[1]
           info == m.val[2]
           a == PhysicalAddress(v)
           x == info[1]
           y == info[2]
           z == info[3]
<1>4. m.val = <<v, info>> /\ v \in Nibbles4 /\ info \in LatencyValue
    BY <1>3, Pair
<1>5. a \in Seq(Byte) /\ Len(a) = 2 /\ GetByteValues(a) = v
    BY <1>4, AddressPacked
<1>6. Built(m) = <<a, <<x>>, <<y>>>> \o (IF y % 4 = 3 THEN <<<<z>>>> ELSE <<>>)
    BY <1>1 DEF Built
<1> HIDE DEF v, a, info
<1>7. /\ x \in Byte /\ y \in Byte /\ z \in Byte /\ info = <<x, y, z>>
      /\ y = 3 \/ (y % 4 # 3 /\ z = 255)
    <2>1. info \in Seq(Byte) /\ Len(info) = 3 /\ (info[2] = 3 \/ (info[2] % 4 # 3 /\ info[3] = 255))
        BY <1>4 DEF LatencyValue
    <2>4. info \in Seq(Byte) /\ Len(info) = 3
        BY <2>1
    <2>2. info[1] \in Byte /\ info[2] \in Byte /\ info[3] \in Byte
        <3>1. 1 \in 1 .. 3 /\ 2 \in 1 .. 3 /\ 3 \in 1 .. 3
            OBVIOUS
        <3> QED
            BY <2>4, <3>1, ElementOfSeq
    <2>3. info = <<info[1], info[2], info[3]>>
        <3> DEFINE r == <<info[1], info[2], info[3]>>
        <3>1. r \in Seq(Byte) /\ Len(r) = 3 /\ r[1] = info[1] /\ r[2] = info[2] /\ r[3] = info[3]
            BY <2>2
        <3> HIDE DEF r
        <3>2. \A i \in 1 .. 3 : i = 1 \/ i = 2 \/ i = 3
            OBVIOUS
        <3>3. r = info
            BY <2>1, <3>1, <3>2, SeqEqual
        <3> QED
            BY <3>3 DEF r
    <2> QED
        BY <2>1, <2>2, <2>3
<1> HIDE DEF x, y, z
<1> DEFINE b == IF y = 3 THEN <<x, y, z>> ELSE <<x, y>>
<1>8. /\ b \in Seq(Byte) /\ 0 < Len(b) /\ Len(b) <= 3 /\ 1 < Len(b)
      /\ GetLatencyInfo(b) = info
    <2>1. CASE y = 3
        <3>1. b = <<x, y, z>>
            BY <2>1
        <3> HIDE DEF b
        <3>2. b \in Seq(Byte) /\ Len(b) = 3 /\ b[1] = x /\ b[2] = y /\ b[3] = z
            BY <1>7, <3>1
        <3>3. GetLatencyInfo(b) = <<x, y, z>>
            BY <2>1, <3>2 DEF GetLatencyInfo
        <3> QED
            BY <1>7, <3>2, <3>3
    <2>2. CASE y # 3
        <3>1. b = <<x, y>>
            BY <2>2
        <3> HIDE DEF b
        <3>2. b \in Seq(Byte) /\ Len(b) = 2 /\ b[1] = x /\ b[2] = y
            BY <1>7, <3>1
        <3>3. GetLatencyInfo(b) = <<x, y, 255>>
            BY <2>2, <3>2 DEF GetLatencyInfo
        <3> QED
            BY <1>7, <2>2, <3>2, <3>3
    <2> QED
        BY <2>1, <2>2
<1>9. bytes = a \o b
    <2>1. bytes = FlattenSeq(Built(m))
        BY <1>1, AllAppended
    <2> DEFINE bx == <<x>>
               by == <<y>>
               bz == <<z>>
               xy == <<x, y>>
               xyz == <<x, y, z>>
               ax == a \o bx
    <2>2. bx \in Seq(Byte) /\ by \in Seq(Byte) /\ bz \in Seq(Byte) /\ xy \in Seq(Byte)
        BY <1>7, Single
    <2>8. bx = <<x>> /\ by = <<y>> /\ bz = <<z>> /\ xy = <<x, y>> /\ xyz = <<x, y, z>>
        OBVIOUS
    <2>4. b = (IF y = 3 THEN xyz ELSE xy) /\ Built(m) = <<a, bx, by>> \o (IF y % 4 = 3 THEN <<bz>> ELSE <<>>)
        BY <1>6
    <2>9. ax = a \o bx /\ a \in Seq(Byte)
        BY <1>5
    <2> HIDE DEF bx, by, bz, xy, xyz, b, ax
    <2>3. xy = bx \o by /\ xyz = xy \o bz
        <3>1. xy = bx \o by
            <4>1. /\ bx \in Seq(Byte) /\ by \in Seq(Byte) /\ xy \in Seq(Byte)
                  /\ Len(bx) = 1 /\ Len(by) = 1 /\ Len(xy) = 2 /\ xy[1] = bx[1] /\ xy[2] = by[1]
                BY <1>7, <2>8
            <4> QED
                BY <4>1, TwoElements
        <3>2. xyz = xy \o bz
            BY <1>7, <2>8, ThreeElements
        <3> QED
            BY <3>1, <3>2
    <2>5. ax \o by = a \o xy
        <3>1. a \in Seq(Byte) /\ bx \in Seq(Byte) /\ by \in Seq(Byte)
            BY <2>2, <2>9
        <3>2. ax = a \o bx /\ xy = bx \o by
            BY <2>3, <2>9
        <3> QED
            BY <3>1, <3>2, Regrouped
    <2>6. CASE y = 3
        <3> DEFINE abc == a \o xy
                   abcd == a \o xyz
        <3>1. Built(m) = <<a, bx, by, bz>>
            <4>1. y % 4 = 3
                BY <2>6
            <4> DEFINE T == {a, bx, by, bz}
                       abc3 == <<a, bx, by>>
                       abcd4 == <<a, bx, by, bz>>
                       e == <<bz>>
            <4>2. abc3 = <<a, bx, by>> /\ abcd4 = <<a, bx, by, bz>> /\ e = <<bz>> /\ a \in T /\ bx \in T /\ by \in T /\ bz \in T
                OBVIOUS
            <4> HIDE DEF T, abc3, abcd4, e
            <4>3. abcd4 = abc3 \o e
                BY <4>2, FourElements
            <4> QED
                BY <2>4, <4>1, <4>2, <4>3
        <3>5. abc = a \o xy /\ abcd = a \o xyz
            OBVIOUS
        <3> HIDE DEF abc, abcd
        <3>2. abcd = abc \o bz
            <4>1. a \in Seq(Byte) /\ xy \in Seq(Byte) /\ bz \in Seq(Byte)
                BY <2>2, <2>9
            <4>3. abc = a \o xy /\ xyz = xy \o bz
                BY <2>3, <3>5
            <4>2. abc \o bz = a \o xyz
                BY <4>1, <4>3, Regrouped
            <4> QED
                BY <3>5, <4>2
        <3>3. abc = ax \o by /\ ax = a \o bx
            BY <2>5, <2>9, <3>5
        <3>4. FlattenSeq(<<a, bx, by, bz>>) = abcd
            BY <3>2, <3>3, FlattenFour
        <3> QED
            BY <2>1, <2>4, <2>6, <3>1, <3>4 DEF abcd
    <2>7. CASE y # 3
        <3>1. Built(m) = <<a, bx, by>>
            <4>1. y % 4 # 3
                BY <1>7, <2>7
            <4>2. <<a, bx, by>> \o <<>> = <<a, bx, by>>
                OBVIOUS
            <4> QED
                BY <2>4, <4>1, <4>2
        <3> DEFINE abc == a \o xy
        <3>2. abc = ax \o by /\ ax = a \o bx
            BY <2>5, <2>9
        <3> HIDE DEF abc
        <3>3. FlattenSeq(<<a, bx, by>>) = abc
            BY <3>2, FlattenThree
        <3> QED
            BY <2>1, <2>4, <2>7, <3>1, <3>3 DEF abc
    <2> QED
        BY <2>6, <2>7
<1> DEFINE in == a \o b
           made == Constructed(m.op, in)
           k == 2
           l == LatencyLen(in)
<1> HIDE DEF b
<1>10. in \in Seq(Byte) /\ Len(in) = 2 + Len(b) /\ Len(b) \in Nat
    <2>1. a \in Seq(Byte) /\ b \in Seq(Byte) /\ Len(a) = 2
        BY <1>5, <1>8
    <2>2. a \o b \in Seq(Byte) /\ Len(a \o b) = Len(a) + Len(b)
        BY <2>1, ConcatProperties
    <2> QED
        BY <2>1, <2>2, LenProperties
<1>11. made = ReportCurrentLatency(in)
    <2> HIDE DEF in
    <2> QED
        BY <1>1, <1>2 DEF Constructed
<1>12. made = <<CECBytes(a \o b, 0, k), CECBytes(a \o b, k, l)>>
    BY <1>11 DEF ReportCurrentLatency, PhysicalAddressLen
<1> HIDE DEF in, made
<1>13. l = Len(b)
    <2>1. LatencyLen(in) = Least(5, Len(in)) - 2
        BY <1>8, <1>10, LatencyType
    <2>2. Least(5, Len(in)) = Len(in)
        BY <1>8, <1>10 DEF Least
    <2> QED
        BY <1>10, <2>1, <2>2
<1> HIDE DEF l
<1>14. k = Len(a) /\ 0 < Len(a) /\ l \in Nat /\ Len(b) <= l /\ l <= 128 /\ Len(a \o b) <= 126
    BY <1>5, <1>8, <1>9, <1>10, <1>13
<1>15. a \in Seq(Byte) /\ b \in Seq(Byte) /\ 0 < Len(b)
    BY <1>5, <1>8
<1> HIDE DEF k
<1>16. Clean(made) /\ Strs(made) = <<a, b>>
    BY <1>12, <1>14, <1>15, TwoTaken
<1>17. Seen(m.op, <<a, b>>) = <<GetByteValues(a), GetLatencyInfo(b)>>
    BY <1>1 DEF Seen
<1> QED
    BY <1>4, <1>5, <1>8, <1>9, <1>16, <1>17 DEF Understood, made, in

(* Where the decoder finds what the encoder puts together.                 *)
Reads(f, hb, b, op, bytes) ==
    /\ f \in Seq(Byte) /\ Len(f) = 1 + Len(b) + Len(bytes) /\ f[1] = hb
    /\ op # Op.POLLING => Len(b) = 1 /\ f[2] = op /\ SubFrame(f, 2) = bytes
    /\ op = Op.POLLING /\ bytes = <<>> => Len(f) = 1 /\ SubFrame(f, 2) = bytes

(* ... and it is there, in every frame of the encoder.                     *)
LEMMA Framed ==
    ASSUME NEW hb \in Byte, NEW op \in Byte \cup {Op.POLLING}, NEW bytes \in Seq(Byte),
           NEW a, a = <<hb>>, NEW b, b = OpCodeBytes(op), NEW c, c = a \o b, NEW f, f = c \o bytes
    PROVE  Reads(f, hb, b, op, bytes)
<1>1. a \in Seq(Byte) /\ Len(a) = 1 /\ a[1] = hb
    BY Single
<1>2. b \in Seq(Byte) /\ (op # Op.POLLING => Len(b) = 1 /\ b[1] = op) /\ (op = Op.POLLING => b = <<>>)
    <2>1. CASE op = Op.POLLING
        BY <2>1 DEF OpCodeBytes
    <2>2. CASE op # Op.POLLING
        <3>1. op \in Byte /\ b = <<op>>
            BY <2>2 DEF OpCodeBytes
        <3> QED
            BY <2>2, <3>1, Single
    <2> QED
        BY <2>1, <2>2
<1>4. /\ c \in Seq(Byte) /\ Len(c) = Len(a) + Len(b)
      /\ \A i \in 1 .. Len(a) + Len(b) : c[i] = IF i <= Len(a) THEN a[i] ELSE b[i - Len(a)]
    <2>1. a \in Seq(Byte) /\ b \in Seq(Byte)
        BY <1>1, <1>2
    <2>2. /\ a \o b \in Seq(Byte) /\ Len(a \o b) = Len(a) + Len(b)
          /\ \A i \in 1 .. Len(a) + Len(b) : (a \o b)[i] = IF i <= Len(a) THEN a[i] ELSE b[i - Len(a)]
        BY <2>1, ConcatProperties
    <2> QED
        BY <2>2
<1>5. Len(b) \in Nat /\ Len(bytes) \in Nat
    BY <1>2, LenProperties
<1>6. /\ c \o bytes \in Seq(Byte) /\ Len(c \o bytes) = Len(c) + Len(bytes)
      /\ \A i \in 1 .. Len(c) + Len(bytes) : (c \o bytes)[i] = IF i <= Len(c) THEN c[i] ELSE bytes[i - Len(c)]
    <2>1. c \in Seq(Byte) /\ bytes \in Seq(Byte)
        BY <1>4
    <2> QED
        BY <2>1, ConcatProperties
<1> DEFINE g == c \o bytes
<1>7. /\ g \in Seq(Byte) /\ Len(g) = 1 + Len(b) + Len(bytes)
      /\ \A i \in 1 .. Len(g) : g[i] = IF i <= Len(c) THEN c[i] ELSE bytes[i - Len(c)]
    BY <1>1, <1>4, <1>5, <1>6
<1>8. f = g
    OBVIOUS
<1> HIDE DEF g
<1>9. g[1] = hb
    <2>1. 1 \in 1 .. Len(a) + Len(b) /\ 1 <= Len(a) /\ 1 \in 1 .. Len(g) /\ 1 <= Len(c)
        BY <1>1, <1>4, <1>5, <1>7
    <2> QED
        BY <1>1, <1>4, <1>7, <2>1
<1>10. ASSUME op # Op.POLLING PROVE Len(b) = 1 /\ g[2] = op /\ SubFrame(g, 2) = bytes
    <2>1. Len(b) = 1 /\ Len(c) = 2 /\ Len(g) = 2 + Len(bytes) /\ c[2] = op
        <3>1. Len(b) = 1 /\ b[1] = op
            BY <1>2, <1>10
        <3>2. Len(a) + Len(b) = 2 /\ 2 - Len(a) = 1 /\ ~ (2 <= Len(a)) /\ 2 \in 1 .. 2
            BY <1>1, <3>1
        <3>3. c[2] = b[1]
            BY <1>4, <3>2
        <3> QED
            BY <1>4, <1>5, <1>7, <3>1, <3>2, <3>3
    <2>2. g[2] = op
        <3>1. 2 \in 1 .. Len(g) /\ 2 <= Len(c)
            BY <1>5, <2>1
        <3> QED
            BY <1>7, <2>1, <3>1
    <2> DEFINE s == SubFrame(g, 2)
    <2>3. s \in Seq(Byte) /\ Len(s) = Len(bytes)
        <3>1. 2 <= Len(g) /\ Len(g) - 2 = Len(bytes)
            BY <1>5, <2>1
        <3> QED
            BY <1>7, <3>1, SubFrameFacts
    <2>4. ASSUME NEW i \in 1 .. Len(bytes) PROVE s[i] = bytes[i]
        <3> DEFINE j == 2 + i
        <3>1. j \in 1 .. Len(g) /\ ~ (j <= Len(c)) /\ j - Len(c) = i
            BY <1>5, <2>1, <2>4
        <3>2. s[i] = g[2 + i]
            <4>1. Len(g) = 2 + Len(bytes) /\ g \in Seq(Byte) /\ Len(bytes) \in Nat
                BY <1>5, <1>7, <2>1
            <4> QED
                BY <2>4, <4>1 DEF SubFrame
        <3> HIDE DEF j, s
        <3>3. g[j] = bytes[i]
            BY <1>7, <3>1
        <3> QED
            BY <3>2, <3>3 DEF j
    <2> HIDE DEF s
    <2>5. s = bytes
        BY <2>3, <2>4, SeqEqual
    <2> QED
        BY <2>1, <2>2, <2>5 DEF s
<1>11. ASSUME op = Op.POLLING, bytes = <<>> PROVE Len(g) = 1 /\ SubFrame(g, 2) = bytes
    <2>1. Len(b) = 0 /\ Len(bytes) = 0
        BY <1>2, <1>11
    <2>2. Len(g) = 1
        BY <1>7, <2>1
    <2>3. SubSeq(g, 3, 1) = <<>>
        BY <1>7, <2>2
    <2> QED
        BY <1>11, <2>2, <2>3 DEF SubFrame
<1> QED
    BY <1>7, <1>8, <1>9, <1>10, <1>11 DEF Reads

(* Every message with the values its operands are made for is understood.  *)
LEMMA ValuesUnderstood ==
    ASSUME NEW m, m.op \in Bare \cup {Op.POLLING} \cup FixedOperands \cup Lists,
           m.op # Op.REPORT_SHORT_AUDIO_DESCRIPTOR, m.val \in Values(m.op),
           NEW bytes \in Serialized(m), Len(bytes) <= 126
    PROVE  Understood(m, bytes)
<1>1. CASE m.op \in Bare \cup {Op.POLLING}
    BY <1>1, BareUnderstood
<1>2. CASE m.op \in Lists
    <2>1. \/ m.op = Op.REQUEST_SHORT_AUDIO_DESCRIPTOR \/ m.op = Op.REPORT_FEATURES
          \/ m.op = Op.REPORT_CURRENT_LATENCY
        BY <1>2 DEF Lists
    <2> QED
        BY <2>1, FormatsUnderstood, FeaturesUnderstood, LatencyUnderstood
<1>3. CASE m.op \in FixedOperands
    <2>1. \/ m.op \in OneAddress \/ m.op \in Strings \/ m.op = Op.REPORT_AUDIO_STATUS
          \/ m.op = Op.REPORT_PHYSICAL_ADDRESS \/ m.op = Op.FEATURE_ABORT \/ m.op = Op.ROUTING_CHANGE
        BY <1>3 DEF FixedOperands, Strings
    <2> QED
        BY <2>1, AddressUnderstood, StringUnderstood, StatusUnderstood, PhysicalUnderstood,
           AbortUnderstood, RoutingUnderstood
<1> QED
    BY <1>1, <1>2, <1>3

(* The header's byte holds both addresses.                                 *)
LEMMA HeaderPacked ==
    ASSUME NEW from \in 0 .. 15, NEW to \in 0 .. 15
    PROVE  LET hb == HeaderByte(from, to) IN  hb \in Byte /\ hb \div 16 = from /\ hb % 16 = to
<1> DEFINE hb == from * 16 + to
<1>1. from \in Int /\ 0 <= from /\ from <= 15 /\ to \in Int /\ 0 <= to /\ to <= 15
    OBVIOUS
<1>2. hb \in Int /\ 0 <= hb /\ hb <= 255
    BY <1>1
<1>3. hb \div 16 = from
    BY <1>1
<1>4. hb % 16 = to
    BY <1>1
<1> QED
    BY <1>2, <1>3, <1>4 DEF HeaderByte, Byte

(* What a regular message comes to at the peer.                            *)
Arrived(d, from, to, m) ==
    /\ d.kind \in {"delivered", "unwound"} /\ d.from = from /\ d.to = to
    /\ d.op = m.op /\ Seen(d.op, d.args) = m.val

(* Nothing of it is lost or changed on the way.                            *)
LEMMA Arrives ==
    ASSUME NEW from \in 0 .. 15, NEW to \in 0 .. 15, NEW m \in Messages, Regular(m),
           m.op \notin EncodeOnly \cup {Op.REPORT_SHORT_AUDIO_DESCRIPTOR},
           NEW f \in Encodings(from, to, m), Len(f) <= 128, NEW error \in ProcessErrors,
           NEW d, d = Decoded(f, error)
    PROVE  Arrived(d, from, to, m)
<1> DEFINE hb == HeaderByte(from, to)
           op == m.op
           in == SubFrame(f, 2)
           a == <<hb>>
           b == OpCodeBytes(op)
           c == a \o b
<1>1. PICK bytes \in Serialized(m) : f = <<HeaderByte(from, to)>> \o OpCodeBytes(m.op) \o bytes
    BY DEF Encodings
<1>2. a = <<hb>> /\ b = OpCodeBytes(op) /\ c = a \o b /\ f = c \o bytes
    BY <1>1
<1>3. op \in Byte \cup {Op.POLLING} /\ bytes \in Seq(Byte)
    BY CodecAssumption
<1>4. hb \in Byte /\ hb \div 16 = from /\ hb % 16 = to
    BY HeaderPacked
<1>5. /\ op \in Bare \cup {Op.POLLING} \cup FixedOperands \cup Lists /\ op # Op.REPORT_SHORT_AUDIO_DESCRIPTOR
      /\ Fits(m) => m.val \in Values(op)
    BY DEF Regular
<1> HIDE DEF hb, op, a, b, c
<1>6. /\ f \in Seq(Byte) /\ Len(f) = 1 + Len(b) + Len(bytes) /\ f[1] = hb
      /\ op # Op.POLLING => Len(b) = 1 /\ f[2] = op /\ SubFrame(f, 2) = bytes
      /\ op = Op.POLLING /\ bytes = <<>> => Len(f) = 1 /\ SubFrame(f, 2) = bytes
    <2>1. hb \in Byte /\ op \in Byte \cup {Op.POLLING} /\ bytes \in Seq(Byte)
        BY <1>3, <1>4
    <2>2. Reads(f, hb, b, op, bytes)
        BY <1>2, <2>1, Framed
    <2> QED
        BY <2>2 DEF Reads
<1>7. Fits(m)
    BY <1>2, <1>6 DEF Fits, MaxLength, op
<1>8. m.val \in Values(op)
    BY <1>5, <1>7
<1>9. op = Op.POLLING => bytes = <<>>
    BY <1>8, BareUnderstood DEF op
<1>10. Len(bytes) \in Nat /\ Len(b) \in Nat
    <2>1. b \in Seq(Byte)
        BY <1>2, <1>3 DEF OpCodeBytes
    <2> QED
        BY <1>3, <2>1, LenProperties
<1>11. /\ Len(bytes) <= 126 /\ in = bytes /\ 0 < Len(f)
       /\ op = IF Len(f) = 1 THEN Op.POLLING ELSE f[2]
    <2>1. CASE op = Op.POLLING
        BY <1>6, <1>9, <1>10, <2>1
    <2>2. CASE op # Op.POLLING
        <3>1. Len(b) = 1 /\ f[2] = op /\ in = bytes
            BY <1>6, <2>2
        <3>2. Len(f) = 2 + Len(bytes)
            BY <1>6, <1>10, <3>1
        <3> QED
            BY <1>10, <3>1, <3>2
    <2> QED
        BY <2>1, <2>2
<1>12. Understood(m, bytes)
    BY <1>5, <1>8, <1>11, ValuesUnderstood DEF op
<1> HIDE DEF in
<1> DEFINE made == Constructed(op, bytes)
<1>13. Clean(made) /\ Seen(op, Strs(made)) = m.val
    BY <1>12 DEF Understood, op
<1>14. Ends(d, op, f, Constructed(op, SubFrame(f, 2)))
    BY <1>5, <1>6, <1>11, DecodedCases
<1>15. Ends(d, op, f, made)
    BY <1>11, <1>14 DEF in
<1> HIDE DEF made
<1>16. /\ d.op = op /\ d.from = f[1] \div 16 /\ d.to = f[1] % 16
       /\ d.kind = "delivered" \/ d.kind = "unwound"
       /\ d.args = Strs(made)
    BY <1>13, <1>15 DEF Ends, Clean, Strs
<1> QED
    BY <1>4, <1>6, <1>13, <1>16 DEF op, Arrived
-----------------------------------------------------------------------------
(* The inductive invariant                                                 *)

(* What the encoder puts on the wire is bytes.                             *)
LEMMA EncodingsType ==
    ASSUME NEW h \in Headers, NEW m \in Messages, NEW f \in Encodings(h[1], h[2], m)
    PROVE  f \in Seq(Byte) /\ 0 < Len(f) /\ h[1] \in 0 .. 15 /\ h[2] \in 0 .. 15
<1>1. h[1] \in 0 .. 15 /\ h[2] \in 0 .. 15
    BY CodecAssumption
<1>2. HeaderByte(h[1], h[2]) \in Byte
    <2>1. \A a, b \in Int : 0 <= a /\ a <= 15 /\ 0 <= b /\ b <= 15 =>
              a * 16 + b \in Int /\ 0 <= a * 16 + b /\ a * 16 + b <= 255
        OBVIOUS
    <2>2. \A x \in Int : 0 <= x /\ x <= 255 => x \in Byte
        BY DEF Byte
    <2> QED
        BY <1>1, <2>1, <2>2 DEF HeaderByte
<1>3. OpCodeBytes(m.op) \in Seq(Byte)
    <2> DEFINE op == m.op
    <2>1. op \in Byte \cup {Op.POLLING}
        BY CodecAssumption
    <2> HIDE DEF op
    <2>2. OpCodeBytes(op) \in Seq(Byte)
        BY <2>1 DEF OpCodeBytes
    <2> QED
        BY <2>2 DEF op
<1>4. PICK bytes \in Serialized(m) : f = <<HeaderByte(h[1], h[2])>> \o OpCodeBytes(m.op) \o bytes
    BY DEF Encodings
<1>5. bytes \in Seq(Byte)
    BY <1>4, CodecAssumption
<1> DEFINE a == <<HeaderByte(h[1], h[2])>>
           b == OpCodeBytes(m.op)
           c == a \o b
<1>6. b \in Seq(Byte) /\ f = c \o bytes
    BY <1>3, <1>4
<1>7. a \in Seq(Byte) /\ Len(a) = 1
    <2> DEFINE x == HeaderByte(h[1], h[2])
    <2>1. x \in Byte
        BY <1>2
    <2> HIDE DEF x
    <2>2. <<x>> \in Seq(Byte) /\ Len(<<x>>) = 1
        BY <2>1
    <2> QED
        BY <2>2 DEF x
<1> HIDE DEF a, b
<1>8. c \in Seq(Byte) /\ Len(c) = Len(a) + Len(b)
    BY <1>6, <1>7, ConcatProperties
<1>9. Len(b) \in Nat /\ Len(bytes) \in Nat
    BY <1>5, <1>6, LenProperties
<1> HIDE DEF c
<1>10. f \in Seq(Byte) /\ Len(f) = Len(c) + Len(bytes)
    BY <1>5, <1>6, <1>8, ConcatProperties
<1>11. 0 < Len(f)
    BY <1>7, <1>8, <1>9, <1>10
<1> QED
    BY <1>1, <1>10, <1>11

(* Idle and Pending, and the list of no operands.                          *)
LEMMA Started ==
    /\ Idle.kind = "idle" /\ Pending.kind = "pending" /\ <<>> \in Seq(Byte) /\ <<>> \in Seq(Seq(Byte))
    /\ \A o \in {Idle, Pending} : o.from \in 0 .. 15 /\ o.to \in 0 .. 15 /\ o.args \in Seq(Seq(Byte))
<1>1. \A S : <<>> \in Seq(S)
    OBVIOUS
<1>2. <<>> \in Seq(Byte) /\ <<>> \in Seq(Seq(Byte))
    BY <1>1
<1>3. /\ Idle.kind = "idle" /\ Idle.from = 0 /\ Idle.to = 0 /\ Idle.args = <<>>
      /\ Pending.kind = "pending" /\ Pending.from = 0 /\ Pending.to = 0 /\ Pending.args = <<>>
    BY DEF Idle, Pending, Outcome
<1>4. 0 \in 0 .. 15
    OBVIOUS
<1> QED
    BY <1>2, <1>3, <1>4

(* A frame goes on its way.                                                *)
LEMMA Departs ==
    ASSUME IInv, out' = Pending, wire' \in Seq(Byte), Len(wire') <= MaxLength,
           sent' = <<>> \/ (sent'[1] \in 0 .. 15 /\ sent'[2] \in 0 .. 15 /\ sent'[3] \in Messages),
           sent' # <<>> => wire' \in Encodings(sent'[1], sent'[2], sent'[3])
    PROVE  IInv'
<1>1. TypeOK'
    BY Started DEF TypeOK
<1>2. ~ Unused'
    BY Started DEF Unused
<1> QED
    BY <1>1, <1>2 DEF IInv, DecodeInv, SentInv

(* The application is told that there will be no frame.                    *)
LEMMA Refused ==
    ASSUME IInv, out = Idle, UNCHANGED <<sent, wire>>, out'.kind \in {"thrown", "discarded"},
           out'.from \in 0 .. 15, out'.to \in 0 .. 15, out'.args = <<>>
    PROVE  IInv'
<1>1. wire = <<>> /\ sent = <<>>
    BY Started DEF IInv, DecodeInv, SentInv, Unused
<1>2. TypeOK'
    BY Started DEF IInv, TypeOK
<1>3. Unused' /\ wire' = <<>> /\ sent' = <<>>
    BY <1>1 DEF Unused
<1> QED
    BY <1>2, <1>3 DEF IInv, DecodeInv, SentInv

(* Every step keeps the inductive invariant.                               *)
LEMMA Step == IInv /\ [Next]_vars => IInv'
<1> SUFFICES ASSUME IInv, [Next]_vars PROVE IInv'
    OBVIOUS
<1>1. ASSUME NEW h \in Headers, NEW m \in Messages, Send(h, m) PROVE IInv'
    <2>1. PICK f \in Encodings(h[1], h[2], m) : Len(f) <= MaxLength /\ wire' = f
        BY <1>1 DEF Send
    <2>2. f \in Seq(Byte) /\ h[1] \in 0 .. 15 /\ h[2] \in 0 .. 15
        BY EncodingsType
    <2>3. sent'[1] \in 0 .. 15 /\ sent'[2] \in 0 .. 15 /\ sent'[3] \in Messages
        BY <1>1, <2>2 DEF Send
    <2>4. wire' \in Encodings(sent'[1], sent'[2], sent'[3])
        BY <1>1, <2>1 DEF Send
    <2> QED
        BY <1>1, <2>1, <2>2, <2>3, <2>4, Departs DEF Send
<1>2. ASSUME NEW h \in Headers, NEW m \in Messages, SendTooLong(h, m) PROVE IInv'
    <2>1. PICK f \in Encodings(h[1], h[2], m) : TRUE
        BY <1>2 DEF SendTooLong
    <2>2. h[1] \in 0 .. 15 /\ h[2] \in 0 .. 15
        BY EncodingsType
    <2>3. out'.kind = "thrown" /\ out'.from = h[1] /\ out'.to = h[2] /\ out'.args = <<>>
        BY <1>2 DEF SendTooLong, Outcome
    <2> QED
        BY <1>2, <2>2, <2>3, Refused DEF SendTooLong
<1>3. ASSUME NEW f \in Frames, Receive(f) PROVE IInv'
    <2>1. f \in Seq(Byte)
        BY CodecAssumption
    <2> QED
        BY <1>3, <2>1, Departs DEF Receive, IsValidReceiveFrame
<1>4. ASSUME NEW f \in Frames, Discard(f) PROVE IInv'
    <2>1. out'.kind = "discarded" /\ out'.from = 0 /\ out'.to = 0 /\ out'.args = <<>>
        BY <1>4 DEF Discard, Outcome
    <2>2. 0 \in 0 .. 15
        OBVIOUS
    <2> QED
        BY <1>4, <2>1, <2>2, Refused DEF Discard
<1>5. CASE Decode
    <2>1. PICK error \in ProcessErrors : out' = Decoded(wire, error)
        BY <1>5 DEF Decode
    <2>2. wire \in Seq(Byte) /\ 0 < Len(wire) /\ Len(wire) <= 128 /\ wire' = wire /\ sent' = sent
        BY <1>5 DEF Decode, IsValidReceiveFrame, IInv, TypeOK, MaxLength
    <2>3. /\ out'.kind \in {"delivered", "dropped", "ignored", "unwound"}
          /\ out'.from \in 0 .. 15 /\ out'.to \in 0 .. 15 /\ out'.args \in Seq(Seq(Byte))
        <3> DEFINE d == Decoded(wire, error)
        <3>1. /\ d.kind \in {"delivered", "dropped", "ignored", "unwound"}
              /\ d.from \in 0 .. 15 /\ d.to \in 0 .. 15 /\ d.args \in Seq(Seq(Byte))
            BY <2>2, DecodedFacts
        <3> QED
            BY <2>1, <3>1
    <2>4. TypeOK'
        BY <2>2, <2>3 DEF IInv, TypeOK
    <2>5. ~ Unused'
        BY <2>3 DEF Unused
    <2>6. IsValidReceiveFrame(wire') /\ \E e \in ProcessErrors : out' = Decoded(wire', e)
        BY <1>5, <2>1, <2>2 DEF Decode
    <2>7. SentInv'
        BY <2>2, <2>5 DEF IInv, SentInv
    <2> QED
        BY <2>4, <2>5, <2>6, <2>7 DEF IInv, DecodeInv
<1>6. CASE Finish
    <2>1. TypeOK'
        BY <1>6, Started DEF Finish, TypeOK, MaxLength
    <2>2. Unused' /\ wire' = <<>> /\ sent' = <<>>
        BY <1>6, Started DEF Finish, Unused
    <2> QED
        BY <2>1, <2>2 DEF IInv, DecodeInv, SentInv
<1>7. CASE UNCHANGED vars
    BY <1>7 DEF vars, IInv, TypeOK, DecodeInv, SentInv, Unused
<1> QED
    BY <1>1, <1>2, <1>3, <1>4, <1>5, <1>6, <1>7 DEF Next

(* Every outcome is what decode() makes of the frame on the wire.          *)
THEOREM Invariance == Spec => []IInv
<1>1. Init => IInv
    <2> SUFFICES ASSUME Init PROVE IInv
        OBVIOUS
    <2>1. TypeOK
        BY Started DEF Init, TypeOK, MaxLength
    <2>2. Unused /\ wire = <<>> /\ sent = <<>>
        BY Started DEF Init, Unused
    <2> QED
        BY <2>1, <2>2 DEF IInv, DecodeInv, SentInv
<1> QED
    BY <1>1, Step, PTL DEF Spec

(* The variables have their types and no frame is longer than the buffer   *)
(* of CECFrame, for all headers, messages and frames of bytes.             *)
THEOREM TypeCorrect == Spec => []TypeOK
<1>1. IInv => TypeOK
    BY DEF IInv
<1> QED
    BY <1>1, Invariance, PTL

(* What became of a frame, in terms of decode().                           *)
LEMMA Fate ==
    ASSUME IInv, ~ Unused, out # Pending
    PROVE  /\ wire \in Seq(Byte) /\ 0 < Len(wire) /\ Len(wire) <= 128
           /\ \E error \in ProcessErrors : out = Decoded(wire, error)
BY DEF IInv, DecodeInv, TypeOK, IsValidReceiveFrame, MaxLength

(* No frame of any device, and nothing an application encodes, makes an    *)
(* exception of the operands' constructors leave decode(); only what       *)
(* process(Polling) throws does.                                           *)
THEOREM NothingElseEscapes == Spec => []OnlyPollingEscapes
<1>1. IInv => OnlyPollingEscapes
    <2> SUFFICES ASSUME IInv PROVE OnlyPollingEscapes
        OBVIOUS
    <2>1. CASE Unused \/ out = Pending
        BY <2>1, Started DEF Unused, OnlyPollingEscapes
    <2>2. CASE ~ Unused /\ out # Pending
        <3>1. PICK error \in ProcessErrors : out = Decoded(wire, error)
            BY <2>2, Fate
        <3> DEFINE d == Decoded(wire, error)
        <3>2. d.kind \in {"delivered", "dropped", "ignored", "unwound"} /\ (d.kind = "unwound" => d.op = Op.POLLING)
            BY <2>2, Fate, DecodedFacts
        <3> QED
            BY <3>1, <3>2 DEF OnlyPollingEscapes
    <2> QED
        BY <2>1, <2>2
<1> QED
    BY <1>1, Invariance, PTL

(* Every frame that holds the bytes its opcode asks for reaches process(), *)
(* with operands of their full length, and every text up to MAX_LEN,       *)
(* whatever the bytes are.                                                 *)
THEOREM NothingCompleteIsLost == Spec => []CompleteFramesAreDelivered
<1>1. IInv => CompleteFramesAreDelivered
    <2> SUFFICES ASSUME IInv, out \notin {Idle, Pending}, 1 < Len(wire)
                 PROVE  LET in == SubFrame(wire, 2)
                            lens == [i \in DOMAIN out.args |-> Len(out.args[i])]
                        IN  /\ wire[2] \in FixedOperands \ Texts /\ Len(in) >= Total(Layout[wire[2]]) =>
                                   out.kind = "delivered" /\ lens = Layout[wire[2]]
                            /\ wire[2] \in Texts /\ Len(in) >= 1 =>
                                   out.kind = "delivered" /\ lens = <<Least(Len(in), Layout[wire[2]][1])>>
                            /\ wire[2] = Op.REPORT_CURRENT_LATENCY /\ Len(in) >= 4 =>
                                   out.kind = "delivered" /\ lens = <<2, Least(3, Len(in) - 2)>>
        BY DEF CompleteFramesAreDelivered
    <2>1. ~ Unused
        BY DEF IInv, DecodeInv
    <2>2. /\ wire \in Seq(Byte) /\ Len(wire) <= 128
          /\ \E error \in ProcessErrors : out = Decoded(wire, error)
        BY <2>1, Fate
    <2>3. PICK error \in ProcessErrors : out = Decoded(wire, error)
        BY <2>2
    <2>4. ASSUME wire[2] \in FixedOperands, Len(SubFrame(wire, 2)) >= Total(Layout[wire[2]])
          PROVE  out.kind = "delivered" /\ [i \in DOMAIN out.args |-> Len(out.args[i])] = Layout[wire[2]]
        BY <2>2, <2>3, <2>4, FixedDelivered
    <2>5. ASSUME wire[2] = Op.REPORT_CURRENT_LATENCY, Len(SubFrame(wire, 2)) >= 4
          PROVE  /\ out.kind = "delivered"
                 /\ [i \in DOMAIN out.args |-> Len(out.args[i])]
                        = <<2, Least(3, Len(SubFrame(wire, 2)) - 2)>>
        BY <2>2, <2>3, <2>5, LatencyDelivered
    <2>6. ASSUME wire[2] \in Texts, Len(SubFrame(wire, 2)) >= 1
          PROVE  /\ out.kind = "delivered"
                 /\ [i \in DOMAIN out.args |-> Len(out.args[i])]
                        = <<Least(Len(SubFrame(wire, 2)), Layout[wire[2]][1])>>
        BY <2>2, <2>3, <2>6, TextDelivered
    <2> QED
        BY <2>4, <2>5, <2>6
<1> QED
    BY <1>1, Invariance, PTL

(* What is on the wire when a message was delivered.                       *)
LEMMA Delivered ==
    ASSUME IInv, out.kind = "delivered"
    PROVE  LET in == SubFrame(wire, 2)
               made == Constructed(out.op, in)
           IN  /\ in \in Seq(Byte) /\ Len(in) <= 128 /\ made \in Seq(Result) /\ Clean(made)
               /\ out.op \in Bare \cup {Op.POLLING} \cup FixedOperands \cup Lists
               /\ out.args = Strs(made)
<1> DEFINE in == SubFrame(wire, 2)
           op == IF Len(wire) = 1 THEN Op.POLLING ELSE wire[2]
           made == Constructed(op, in)
<1>1. ~ Unused /\ out # Pending
    BY Started DEF Unused
<1>2. wire \in Seq(Byte) /\ 0 < Len(wire) /\ Len(wire) <= 128
    BY <1>1, Fate
<1>3. PICK error \in ProcessErrors : out = Decoded(wire, error)
    BY <1>1, Fate
<1>4. op \in Bare \cup {Op.POLLING} \cup FixedOperands \cup Lists
    <2>1. ASSUME op \notin Bare \cup {Op.POLLING} \cup FixedOperands \cup Lists PROVE FALSE
        <3>1. wire # <<>>
            BY <1>2
        <3>2. out = Outcome("ignored", wire[1] \div 16, wire[1] % 16, op, <<>>)
            BY <1>3, <2>1, <3>1 DEF Decoded
        <3> HIDE DEF op
        <3>3. out.kind = "ignored"
            BY <3>2 DEF Outcome
        <3> QED
            BY <3>3
    <2> QED
        BY <2>1
<1>5. op = IF Len(wire) = 1 THEN Op.POLLING ELSE wire[2]
    OBVIOUS
<1> HIDE DEF op, made, in
<1>6. Ends(out, op, wire, made)
    BY <1>2, <1>3, <1>4, <1>5, DecodedCases DEF made, in
<1>7. made \in Seq(Result) /\ out.op = op /\ Clean(made) /\ out.args = Strs(made)
    BY <1>6 DEF Ends, Clean, Strs
<1>8. in \in Seq(Byte) /\ Len(in) <= 128
    BY <1>2, SubFrameFacts DEF in
<1> QED
    BY <1>4, <1>7, <1>8 DEF made, in

(* The operands process() gets are consecutive pieces of the frame, for    *)
(* every frame: no byte is in two of them, skipped, or from behind the     *)
(* end.                                                                    *)
THEOREM OperandsAreTheFrame == Spec => []OperandsCoverFrame
<1>1. IInv => OperandsCoverFrame
    <2> SUFFICES ASSUME IInv, out.kind = "delivered"
                 PROVE  IsPrefix(FlattenSeq(out.args), SubFrame(wire, 2))
        BY DEF OperandsCoverFrame
    <2> DEFINE in == SubFrame(wire, 2)
               op == out.op
               made == Constructed(op, in)
    <2>1. /\ in \in Seq(Byte) /\ Len(in) <= 128 /\ made \in Seq(Result) /\ Clean(made)
          /\ op \in Bare \cup {Op.POLLING} \cup FixedOperands \cup Lists
          /\ out.args = Strs(made)
        BY Delivered
    <2>2. made = Constructed(op, in)
        OBVIOUS
    <2> HIDE DEF in, op, made
    <2>3. IsPrefix(FlattenSeq(Strs(made)), in)
        BY <2>1, <2>2, ConstructedCovers
    <2> QED
        BY <2>1, <2>3 DEF in
<1> QED
    BY <1>1, Invariance, PTL

(* Bit 7 delimits the variable operands of <Report Features>, however long *)
(* their chains are and wherever the frame ends.                           *)
THEOREM ChainsAreDelimited == Spec => []ExtensionBitDelimits
<1>1. IInv => ExtensionBitDelimits
    <2> SUFFICES ASSUME IInv, out.kind = "delivered", out.op = Op.REPORT_FEATURES
                 PROVE  /\ \A k \in {3, 4} : GetByteChain(out.args[k]) = out.args[k]
                        /\ Bit(Last(out.args[3]), 7) = 0
                        /\ Bit(Last(out.args[4]), 7) = 1 => FlattenSeq(out.args) = SubFrame(wire, 2)
        BY DEF ExtensionBitDelimits
    <2> DEFINE in == SubFrame(wire, 2)
               op == out.op
               made == Constructed(op, in)
               args == Strs(made)
    <2>1. in \in Seq(Byte) /\ Len(in) <= 128 /\ Clean(made) /\ out.args = args
        BY Delivered
    <2>2. made = ReportFeatures(in)
        <3>1. /\ op \notin Bare \cup {Op.POLLING} /\ op \notin FixedOperands /\ op # Op.FEATURE_ABORT
              /\ op \notin FixedOperands \ {Op.FEATURE_ABORT}
            BY Groups
        <3>2. /\ op # Op.REQUEST_SHORT_AUDIO_DESCRIPTOR /\ op # Op.REPORT_SHORT_AUDIO_DESCRIPTOR
              /\ op # Op.REPORT_CURRENT_LATENCY
            BY OpValues
        <3> HIDE DEF in
        <3> QED
            BY <3>1, <3>2 DEF Constructed
    <2> HIDE DEF in, op, made
    <2>3. /\ GetByteChain(args[3]) = args[3] /\ GetByteChain(args[4]) = args[4]
          /\ Bit(Last(args[3]), 7) = 0 /\ (Bit(Last(args[4]), 7) = 1 => FlattenSeq(args) = in)
        BY <2>1, <2>2, FeaturesDelimited
    <2> HIDE DEF args
    <2> QED
        BY <2>1, <2>3 DEF in
<1> QED
    BY <1>1, Invariance, PTL

(* The decoder is the inverse of the encoder, for every message whose      *)
(* values are those its operands' classes are made for, every pair of      *)
(* logical addresses and whatever process() throws.                        *)
THEOREM PeersUnderstand ==
    ASSUME \A m \in Messages : Regular(m)
    PROVE  Spec => []EncodeDecodeInverse
<1>1. IInv => EncodeDecodeInverse
    <2> SUFFICES ASSUME IInv, sent # <<>>, out # Pending,
                        sent[3].op \notin EncodeOnly \cup {Op.REPORT_SHORT_AUDIO_DESCRIPTOR}
                 PROVE  /\ out.kind \in {"delivered", "unwound"} /\ out.from = sent[1] /\ out.to = sent[2]
                        /\ out.op = sent[3].op /\ Seen(out.op, out.args) = sent[3].val
        BY DEF EncodeDecodeInverse
    <2>1. /\ sent[1] \in 0 .. 15 /\ sent[2] \in 0 .. 15 /\ sent[3] \in Messages
          /\ wire \in Encodings(sent[1], sent[2], sent[3]) /\ ~ Unused
        BY DEF IInv, TypeOK, SentInv
    <2>2. PICK error \in ProcessErrors : out = Decoded(wire, error)
        BY <2>1, Fate
    <2>3. Len(wire) <= 128
        BY <2>1, Fate
    <2>4. Regular(sent[3])
        BY <2>1
    <2> DEFINE from == sent[1]
               to == sent[2]
               m == sent[3]
    <2>5. /\ from \in 0 .. 15 /\ to \in 0 .. 15 /\ m \in Messages /\ Regular(m)
          /\ wire \in Encodings(from, to, m)
          /\ m.op \notin EncodeOnly \cup {Op.REPORT_SHORT_AUDIO_DESCRIPTOR}
        BY <2>1, <2>4
    <2> HIDE DEF from, to, m
    <2>6. Arrived(out, from, to, m)
        BY <2>2, <2>3, <2>5, Arrives
    <2> QED
        BY <2>6 DEF Arrived, from, to, m
<1> QED
    BY <1>1, Invariance, PTL
=============================================================================
