----------------------------- MODULE FrameCodec -----------------------------
(***************************************************************************)
(* The conversions between HDLC frames and the bytes on the serial line:   *)
(* FrameGenerator, FCS16, and RemoveEscapeCharacters and Deserialize-      *)
(* Frame of FrameParser.  A byte is a number, a buffer a sequence.         *)
(***************************************************************************)
EXTENDS Naturals, Sequences, SequencesExt, Bitwise

Flag == 126         \* 0x7E
Escape == 125       \* 0x7D
EscapedFlag == 94   \* 0x5E
EscapedEscape == 93 \* 0x5D

\* Types in the order of their two bits.
STypes == <<"RR", "RNR", "REJ", "SREJ">>
SType(type) == CHOOSE i \in 0..3: STypes[i + 1] = type

\* The control fields of the U-frames, without the P/F bit.
UControl == [UI |-> 3, SABM |-> 47, DISC |-> 67, UA |-> 99, CMDR |-> 131, TEST |-> 227]

\* How the parser reads bits 2, 3 and 5 to 7 of a U-frame.
UTypes == [UI |-> 0, SIM |-> 1, SARM |-> 3, UP |-> 4, SABM |-> 7, DISC |-> 8, UA |-> 12,
           SNRM |-> 16, CMDR |-> 17, TEST |-> 28, XID |-> 29]

-----------------------------------------------------------------------------
(* FCS16: fcstab is the table of the reflected CCITT polynomial.           *)

PPPINITFCS16 == 65535
PPPGOODFCS16 == 61624

ShiftOut(fcs) == IF fcs % 2 = 1 THEN (fcs \div 2) ^^ 33800 ELSE fcs \div 2
fcstab == [byte \in 0..255 |-> FoldLeft(LAMBDA fcs, i: ShiftOut(fcs), byte, <<1, 2, 3, 4, 5, 6, 7, 8>>)]

pppfcs16(init, bytes) ==
  FoldLeft(LAMBDA fcs, byte: (fcs \div 256) ^^ fcstab[(fcs ^^ byte) % 256], init, bytes)

-----------------------------------------------------------------------------
(* FrameGenerator.                                                         *)

ControlField(frame) ==
  (CASE frame.type = "I" -> (2 * (frame.ns % 8)) + (32 * (frame.nr % 8))
     [] frame.type \in {"RR", "RNR", "REJ", "SREJ"} -> 1 + (4 * SType(frame.type)) + (32 * (frame.nr % 8))
     [] frame.type \in DOMAIN UControl -> UControl[frame.type])
  + (IF frame.pf THEN 16 ELSE 0)

ApplyFCS(buffer) ==
  LET trialfcs == 65535 - pppfcs16(PPPINITFCS16, Tail(buffer))
  IN buffer \o <<trialfcs % 256, trialfcs \div 256>>

SerializeFrame(frame) ==
  ApplyFCS(<<Flag, frame.address, ControlField(frame)>>
             \o (IF frame.type \in {"I", "UI"} THEN frame.payload ELSE <<>>))
    \o <<Flag>>

EscapeByte(byte) ==
  CASE byte = Escape -> <<Escape, EscapedEscape>>
    [] byte = Flag -> <<Escape, EscapedFlag>>
    [] OTHER -> <<byte>>

EscapeFrame(buffer) ==
  LET inner == SubSeq(buffer, 2, Len(buffer) - 1)
  IN <<Flag>> \o FlattenSeq([i \in DOMAIN inner |-> EscapeByte(inner[i])]) \o <<Flag>>

-----------------------------------------------------------------------------
(* FrameParser: from the bytes between two flags, flags included.          *)

DanglingEscape(buffer) == buffer[Len(buffer) - 1] = Escape

\* The scan for escape sequences: the bytes so far, whether the last one was
\* the escape character, and whether an escape sequence was illegal.
UnescapeStep(scan, byte) ==
  CASE scan.escaping ->
         [bytes |-> Append(scan.bytes, CASE byte = EscapedFlag -> Flag
                                         [] byte = EscapedEscape -> Escape
                                         [] OTHER -> byte),
          escaping |-> FALSE,
          invalid |-> scan.invalid \/ byte \notin {EscapedFlag, EscapedEscape}]
    [] ~scan.escaping /\ byte = Escape -> [scan EXCEPT !.escaping = TRUE]
    [] OTHER -> [scan EXCEPT !.bytes = Append(@, byte)]

Unescape(buffer) ==
  IF DanglingEscape(buffer) THEN [bytes |-> buffer, escaping |-> FALSE, invalid |-> TRUE]
  ELSE FoldLeft(UnescapeStep, [bytes |-> <<>>, escaping |-> FALSE, invalid |-> FALSE], buffer)

\* Mutant: the FCS is not checked.
AnyFCS(buffer) == TRUE

GoodFCS(buffer) == pppfcs16(PPPINITFCS16, SubSeq(buffer, 2, Len(buffer) - 1)) = PPPGOODFCS16

TypeOfControl(ctrl) ==
  CASE ctrl % 2 = 0 -> "I"
    [] ctrl % 4 = 1 -> STypes[((ctrl \div 4) % 4) + 1]
    [] OTHER -> LET ucType == ((ctrl \div 4) % 4) + (4 * (ctrl \div 32))
                IN IF \E t \in DOMAIN UTypes: UTypes[t] = ucType
                   THEN CHOOSE t \in DOMAIN UTypes: UTypes[t] = ucType ELSE "UNSET"

DeserializeFrame(buffer) ==
  LET ctrl == buffer[3]
      type == TypeOfControl(ctrl)
  IN [address |-> buffer[2],
      type |-> type,
      pf |-> (ctrl \div 16) % 2 = 1,
      nr |-> IF ctrl % 4 = 3 THEN 0 ELSE ctrl \div 32,
      ns |-> IF type = "I" THEN (ctrl \div 2) % 8 ELSE 0,
      payload |-> IF type \in {"I", "UI", "CMDR", "TEST", "XID"}
                  THEN SubSeq(buffer, 4, Len(buffer) - 3) ELSE <<>>]
=============================================================================
