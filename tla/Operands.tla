------------------------------ MODULE Operands ------------------------------
(***************************************************************************)
(* The operands of CEC messages as byte sequences: how CECBytes cuts them  *)
(* out of a frame, how their constructors pack what the application says   *)
(* and what their getters make of the bytes.  Values are sequences of      *)
(* numbers; a set of flags is a sequence of zeros and ones.                *)
(***************************************************************************)
EXTENDS Integers, Sequences, FiniteSetsExt

Byte == 0 .. 255

(* CECFrame::MAX_LENGTH *)
MaxLength == 128

(* size_t arithmetic wraps around; 2^16 stands for 2^64, both are far from *)
(* every length there is.                                                  *)
SizeT == 2 ^ 16

Least(a, b) == IF a <= b THEN a ELSE b
Bit(b, i) == (b \div 2 ^ i) % 2

(* The byte whose bits low, low + 1, ... are the flags; the others are 0.  *)
FromFlags(flags, low) ==
    CHOOSE b \in Byte : \A i \in 0 .. 7 :
        Bit(b, i) = IF i - low + 1 \in DOMAIN flags THEN flags[i - low + 1] ELSE 0
Flags(b, low, high) == [i \in 1 .. high - low + 1 |-> Bit(b, low + i - 1)]

(* frame.subFrame(start)                                                   *)
SubFrame(frame, start) == SubSeq(frame, start + 1, Len(frame))
-----------------------------------------------------------------------------
(* MAX_LEN of the classes                                                  *)
OSDStringLen == 13
OSDNameLen == 14
AbortReasonLen == 1
DeviceTypeLen == 1
LanguageLen == 3
VendorIDLen == 3
PhysicalAddressLen == 2
VersionLen == 1
PowerStatusLen == 1
RequestAudioFormatLen == 1
ShortAudioDescriptorLen == 3
SystemAudioStatusLen == 1
AudioStatusLen == 1
UICommandLen == 1
AllDeviceTypesLen == 1
OpCodeLen == 1

(* frame.at(i)                                                             *)
At(frame, i) ==
    IF i >= Len(frame) THEN [error |-> "std::out_of_range", str |-> <<>>]
                       ELSE [error |-> "none", str |-> <<frame[i + 1]>>]

(* The length CECBytes settles for: what is left of the frame if that is   *)
(* less.  A start behind the end makes it a huge number.                   *)
Clipped(in, startPos, len) ==
    IF (startPos + len) % SizeT > Len(in) THEN (Len(in) - startPos) % SizeT ELSE len

(* CECBytes(frame, startPos, len).  A huge length makes vector::insert     *)
(* throw; an empty operand is refused by validate(), which in this         *)
(* constructor is CECBytes' own and knows nothing of the class' MAX_LEN.   *)
CECBytes(in, startPos, len) ==
    LET n == Clipped(in, startPos, len)
    IN  CASE n >= SizeT \div 2 -> [error |-> "std::length_error", str |-> <<>>]
          [] n = 0 -> [error |-> "InvalidParamException", str |-> <<>>]
          [] OTHER -> [error |-> "none", str |-> SubSeq(in, startPos + 1, startPos + n)]
-----------------------------------------------------------------------------
(* Constructors from values, and the getters.  Where a class takes the     *)
(* byte ready-made, the constructor here is the application's and puts v   *)
(* where the enumerators or the getters of the class have it.              *)

(* Four nibbles a.b.c.d in two bytes.                                      *)
PhysicalAddress(v) == <<(v[1] % 16) * 16 + (v[2] % 16), (v[3] % 16) * 16 + (v[4] % 16)>>
GetByteValues(str) == <<str[1] \div 16, str[1] % 16, str[2] \div 16, str[2] % 16>>

(* Two bits of format id and six of format code.                           *)
RequestAudioFormat(v) == <<(v[1] * 64 + (v[2] % 64)) % 256>>
GetAudioFormat(str) == <<str[1] \div 64, str[1] % 64>>

(* ReportShortAudioDescriptor's constructor keeps four bits of each byte   *)
(* of the descriptor; getAudiodescriptor returns the three bytes as such.  *)
ShortAudioDescriptor(v) == <<v[1] % 16, v[2] % 16, v[3] % 16>>

(* Mute flag and volume.                                                   *)
AudioStatus(v) == <<v[1] * 128 + v[2]>>
GetAudioStatus(str) == <<Bit(str[1], 7), str[1] % 128>>

(* isDeviceTypeCECSwitch (bit 2) to isDeviceTypeTV (bit 7).                *)
AllDeviceTypes(v) == <<FromFlags(v, 2)>>
GetAllDeviceTypes(str) == Flags(str[1], 2, 7)

(* A TV's profile 0 to 4, or a source's five menu flags with bit 6 set.    *)
RcProfile(v) ==
    IF v[1] = 0 THEN <<<<0, 2, 6, 10, 14>>[v[2] + 1]>>
                ELSE <<FromFlags(Tail(v) \o <<0, 1>>, 0)>>

(* (b & mask) == mask for the masks 0xE, 0xA, 0x6 and 0x2.                 *)
HasProfileBits(b, mask) == \A i \in 0 .. 3 : Bit(mask, i) = 1 => Bit(b, i) = 1

(* Mutant: the weakest test comes first.                                   *)
TvProfileWeakestFirst(b) ==
    IF HasProfileBits(b, 2) THEN 1 ELSE IF HasProfileBits(b, 6) THEN 2
    ELSE IF HasProfileBits(b, 10) THEN 3 ELSE IF HasProfileBits(b, 14) THEN 4 ELSE 0

(* The chain of tests in getRcProfile.                                     *)
TvProfile(b) ==
    IF HasProfileBits(b, 14) THEN 4 ELSE IF HasProfileBits(b, 10) THEN 3
    ELSE IF HasProfileBits(b, 6) THEN 2 ELSE IF HasProfileBits(b, 2) THEN 1 ELSE 0

(* getRcProfileVal and getDeviceFeaturesVal: up to the first byte without  *)
(* the extension bit.                                                      *)
GetByteChain(str) ==
    SubSeq(str, 1, Min({i \in DOMAIN str : Bit(str[i], 7) = 0 \/ i = Len(str)}))

GetRcProfile(str) ==
    IF Bit(str[1], 6) = 0 THEN <<0, TvProfile(str[1])>> ELSE <<1>> \o Flags(str[1], 0, 4)

(* Bits 1 (ARC Rx) to 6 (Record TV Screen).  getDeviceFeatures also lists  *)
(* bit 0, as "Reserved"; it is no feature and is left out.                 *)
DeviceFeatures(v) == <<FromFlags(v, 1)>>
GetDeviceFeatures(str) == Flags(str[1], 1, 6)

(* Video latency, latency flags, audio output delay (255 if there is none).*)
GetLatencyInfo(str) ==
    <<str[1], str[2], IF str[2] = 3 /\ Len(str) = 3 THEN str[3] ELSE 255>>
=============================================================================
