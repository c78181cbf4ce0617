------------------------------- MODULE SdpBuilder -----------------------------
(***************************************************************************)
(* The description DESCRIBE sends (sdp/sdp_builder.c): the two parameter   *)
(* sets of the media object in Base64 (sdp/base64.c), three bytes at a     *)
(* time into a buffer of fixed size, and the profile taken from the SPS.   *)
(* A digit of Base64 is its value, '=' is Pad; the rest of the text is its *)
(* length.                                                                 *)
(***************************************************************************)
EXTENDS AccessUnit

CONSTANTS
    TextSize,           \* sizeof(sps_base64), sizeof(pps_base64), 512
    FixedLength,        \* the characters of the SDP around the two sets
    SdpSize             \* the caller's buffer, 2048

ASSUME SdpAssumption ==
    TextSize \in Nat \ {0} /\ FixedLength \in Nat /\ SdpSize \in Nat

VARIABLES
    step,           \* "idle", the set being encoded, "print", "done", "failed"
    next, output,   \* base64_encode's position and output
    text,           \* the encoded sets
    sdp             \* the last SDP of this connection

sdpVars == <<step, next, output, text, sdp>>

Pad == 64
NoSdp == [profile |-> <<>>, sets |-> <<>>]

SdpInit == step = "idle" /\ next = 0 /\ output = <<>> /\ text = <<>> /\ sdp = NoSdp

Check ==
    /\ step = "idle"
    /\ step' = IF Len(sps) < 4 \/ pps = <<>> THEN "failed" ELSE "sps"
    /\ UNCHANGED <<next, output, text, sdp>>

-----------------------------------------------------------------------------
Input  == IF step = "sps" THEN sps ELSE pps
Remain == Len(Input) - next

(* Up to three bytes as a number; what is missing is zero.                 *)
Value ==
    Input[next + 1] * 65536 + (IF Remain > 1 THEN Input[next + 2] * 256 ELSE 0)
                            + (IF Remain > 2 THEN Input[next + 3] ELSE 0)

Digit(shift) == (Value \div shift) % 64

Group == <<Digit(262144), Digit(4096),
           IF Remain > 1 THEN Digit(64) ELSE Pad,
           IF Remain > 2 THEN Digit(1) ELSE Pad>>

Encoding == step \in {"sps", "pps"} /\ next < Len(Input)

(* Mutant of EncodeGroup: the terminating zero is not reckoned with.       *)
EncodeGroupFull ==
    /\ Encoding
    /\ \/ /\ Len(output) + 4 <= TextSize
          /\ output' = output \o Group /\ next' = next + 3 /\ UNCHANGED step
       \/ /\ Len(output) + 4 > TextSize
          /\ step' = "failed" /\ UNCHANGED <<next, output>>
    /\ UNCHANGED <<text, sdp>>

(* One turn of the loop of base64_encode.                                  *)
EncodeGroup ==
    /\ Encoding
    /\ \/ /\ Len(output) + 4 < TextSize
          /\ output' = output \o Group /\ next' = next + 3 /\ UNCHANGED step
       \/ /\ Len(output) + 4 >= TextSize
          /\ step' = "failed" /\ UNCHANGED <<next, output>>
    /\ UNCHANGED <<text, sdp>>

EncodeEnds ==
    /\ step \in {"sps", "pps"} /\ next >= Len(Input)
    /\ text' = Append(text, output) /\ next' = 0 /\ output' = <<>>
    /\ step' = IF step = "sps" THEN "pps" ELSE "print"
    /\ UNCHANGED sdp

(* snprintf; a text that was cut is refused.                               *)
PrintSdp ==
    /\ step = "print"
    /\ IF FixedLength + Len(text[1]) + Len(text[2]) >= SdpSize
       THEN step' = "failed" /\ UNCHANGED sdp
       ELSE step' = "done" /\ sdp' = [profile |-> SubSeq(sps, 2, 4), sets |-> text]
    /\ UNCHANGED <<next, output, text>>

(* The locals of the call are gone.                                        *)
SdpReturns(result) ==
    /\ step = result /\ step' = "idle"
    /\ next' = 0 /\ output' = <<>> /\ text' = <<>>
    /\ UNCHANGED sdp

-----------------------------------------------------------------------------
(* The reference: how a client reads Base64, four digits at a time, with   *)
(* the bits of the padding thrown away.                                    *)
Bits(d)     == IF d = Pad THEN 0 ELSE d
Byte(ds, k) == LET g == 4 * ((k - 1) \div 3)
                   n == Bits(ds[g + 1]) * 262144 + Bits(ds[g + 2]) * 4096
                        + Bits(ds[g + 3]) * 64 + Bits(ds[g + 4])
               IN  (n \div <<65536, 256, 1>>[((k - 1) % 3) + 1]) % 256

Padding(ds) == IF ds[Len(ds) - 1] = Pad THEN 2 ELSE IF ds[Len(ds)] = Pad THEN 1 ELSE 0
Decode(ds)  == [k \in 1 .. 3 * (Len(ds) \div 4) - Padding(ds) |-> Byte(ds, k)]

Encoded(set) == 4 * ((Len(set) + 2) \div 3)

(* From the SDP a client decodes the very parameter sets the encoder wrote *)
(* into its first access unit, of any length and however they lay there;   *)
(* every buffer has room for its terminating zero; and only sets that do   *)
(* not fit, or an SPS without a profile, are refused.                      *)
SdpDecodes ==
    /\ sdp # NoSdp =>
          /\ Decode(sdp.sets[1]) = params.sps /\ Decode(sdp.sets[2]) = params.pps
          /\ sdp.profile = SubSeq(params.sps, 2, 4)
    /\ Len(output) < TextSize
    /\ step = "failed" =>
          \/ Len(params.sps) < 4
          \/ Encoded(params.sps) >= TextSize \/ Encoded(params.pps) >= TextSize
          \/ FixedLength + Encoded(params.sps) + Encoded(params.pps) >= SdpSize
=============================================================================
