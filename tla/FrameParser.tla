---------------------------- MODULE FrameParser ----------------------------
(***************************************************************************)
(* src/SerialPort/HDLC/FrameParser: finds the frames in the bytes that the *)
(* reads of the serial port happen to deliver, and reports them to         *)
(* InterpretDeserializedFrame.                                             *)
(*                                                                         *)
(* The line is external.  The device writes junk and then the frames of    *)
(* Sent, which the daemon's own FrameGenerator could have written.  At     *)
(* most one thing goes wrong: a byte is lost or changed, or the port is    *)
(* suspended and resumed while the bytes come in.                          *)
(***************************************************************************)
EXTENDS FrameCodec

CONSTANTS
  Sent,        \* the frames on the line, all different
  Junk,        \* the bytes before them
  max_length,  \* 1024 in the code
  Changed      \* the bytes a damaged byte may turn into

ASSUME ConstantsAssumption ==
  /\ max_length \in Nat
  /\ Changed \subseteq 0..255
  /\ \A i, j \in DOMAIN Sent: Sent[i] = Sent[j] => i = j

VARIABLES
  line,      \* the bytes that were not read yet, each with the number of its frame
  hit,       \* the frame that was damaged, or NoFrame
  chunk,     \* what is left of the bytes of the current read
  m_Buffer,
  m_bStartTokenSeen,
  reported   \* the frames reported, with a_bMessageInvalid

vars == <<line, hit, chunk, m_Buffer, m_bStartTokenSeen, reported>>

NoFrame == Len(Sent) + 1

Tagged(bytes, number) == [i \in DOMAIN bytes |-> [byte |-> bytes[i], of |-> number]]
Undamaged == Tagged(Junk, 0)
               \o FlattenSeq([i \in DOMAIN Sent |-> Tagged(EscapeFrame(SerializeFrame(Sent[i])), i)])

TypeOK ==
  /\ line \in Seq([byte: 0..255, of: 0..Len(Sent)])
  /\ hit \in 0..NoFrame
  /\ chunk \in Seq(0..255)
  /\ m_Buffer \in Seq(0..255) /\ Head(m_Buffer) = Flag /\ Len(m_Buffer) <= 2 * max_length
  /\ m_bStartTokenSeen \in BOOLEAN
  /\ \A i \in DOMAIN reported: reported[i].invalid \in BOOLEAN

Init ==
  /\ \/ line = Undamaged /\ hit = NoFrame
     \/ \E i \in DOMAIN Undamaged:
          /\ hit = Undamaged[i].of
          /\ \/ line = RemoveAt(Undamaged, i)
             \/ \E byte \in Changed \ {Undamaged[i].byte}: line = [Undamaged EXCEPT ![i].byte = byte]
  /\ chunk = <<>>
  /\ m_Buffer = <<Flag>>
  /\ m_bStartTokenSeen = FALSE
  /\ reported = <<>>

-----------------------------------------------------------------------------
\* The parser is asked to consume the next bytes once the last are consumed.
AddReceivedRawBytes(n) ==
  /\ chunk = <<>>
  /\ chunk' = [i \in 1..n |-> line[i].byte]
  /\ line' = SubSeq(line, n + 1, Len(line))
  /\ UNCHANGED <<hit, m_Buffer, m_bStartTokenSeen, reported>>

FlagAt == SelectInSeq(chunk, LAMBDA byte: byte = Flag)
Consume(n) == chunk' = SubSeq(chunk, n + 1, Len(chunk))

\* The branches of AddChunk.
FindStartToken ==
  /\ chunk # <<>> /\ ~m_bStartTokenSeen
  /\ FlagAt # 0
  /\ m_bStartTokenSeen' = TRUE
  /\ Consume(FlagAt)
  /\ UNCHANGED <<line, hit, m_Buffer, reported>>

DropJunk ==
  /\ chunk # <<>> /\ ~m_bStartTokenSeen
  /\ FlagAt = 0
  /\ Consume(Len(chunk))
  /\ UNCHANGED <<line, hit, m_Buffer, m_bStartTokenSeen, reported>>

\* Mutant: the buffer is not limited.
NeverTooMuch(n) == FALSE

TooMuch(n) == Len(m_Buffer) + n > 2 * max_length

\* Mutant: an end token never starts the next frame.
FindEndTokenOnly ==
  /\ chunk # <<>> /\ m_bStartTokenSeen
  /\ FlagAt # 0
  /\ LET buffer == m_Buffer \o SubSeq(chunk, 1, FlagAt)
         unescaped == Unescape(buffer)
         size == Len(unescaped.bytes)
         junk == Len(buffer) = 2 \/ size < 6 \/ size > max_length
         invalid == unescaped.invalid \/ ~GoodFCS(unescaped.bytes)
     IN IF TooMuch(FlagAt) \/ junk THEN UNCHANGED reported
        ELSE reported' = Append(reported, [frame |-> DeserializeFrame(unescaped.bytes),
                                           invalid |-> invalid])
  /\ m_bStartTokenSeen' = FALSE
  /\ m_Buffer' = <<Flag>>
  /\ Consume(FlagAt)
  /\ UNCHANGED <<line, hit>>

\* RemoveEscapeCharacters of what is between two flags.
FindEndToken ==
  /\ chunk # <<>> /\ m_bStartTokenSeen
  /\ FlagAt # 0
  /\ LET buffer == m_Buffer \o SubSeq(chunk, 1, FlagAt)
         unescaped == Unescape(buffer)
         size == Len(unescaped.bytes)
         junk == Len(buffer) = 2 \/ size < 6 \/ size > max_length
         invalid == unescaped.invalid \/ ~GoodFCS(unescaped.bytes)
     IN IF TooMuch(FlagAt) \/ junk THEN UNCHANGED <<reported, m_bStartTokenSeen>>
        ELSE /\ reported' = Append(reported, [frame |-> DeserializeFrame(unescaped.bytes),
                                              invalid |-> invalid])
             /\ m_bStartTokenSeen' = invalid
  /\ m_Buffer' = <<Flag>>
  /\ Consume(FlagAt)
  /\ UNCHANGED <<line, hit>>

CollectBytes ==
  /\ chunk # <<>> /\ m_bStartTokenSeen
  /\ FlagAt = 0
  /\ IF TooMuch(Len(chunk)) THEN m_bStartTokenSeen' = FALSE /\ m_Buffer' = <<Flag>>
     ELSE m_Buffer' = m_Buffer \o chunk /\ UNCHANGED m_bStartTokenSeen
  /\ Consume(Len(chunk))
  /\ UNCHANGED <<line, hit, reported>>

\* ProtocolState::Reset, for a port that is suspended and resumed.
Reset ==
  /\ chunk = <<>>
  /\ hit = NoFrame /\ line # <<>>
  /\ hit' = Head(line).of
  /\ m_Buffer' = <<Flag>>
  /\ m_bStartTokenSeen' = FALSE
  /\ UNCHANGED <<line, chunk, reported>>

Next ==
  \/ \E n \in 1..Len(line): AddReceivedRawBytes(n)
  \/ FindStartToken
  \/ DropJunk
  \/ FindEndToken
  \/ CollectBytes
  \/ Reset

Spec == Init /\ [][Next]_vars
-----------------------------------------------------------------------------
Valid == LET v == SelectSeq(reported, LAMBDA r: ~r.invalid) IN [i \in DOMAIN v |-> v[i].frame]
Done == line = <<>> /\ chunk = <<>>

(* However the bytes are cut into reads and whichever of them is damaged,  *)
(* a frame is taken for valid only if the device sent it, and the frames   *)
(* arrive in order and once.                                               *)
OnlySentFrames ==
  \A i \in DOMAIN Valid:
    /\ \E j \in DOMAIN Sent: Valid[i] = Sent[j]
    /\ \A k \in DOMAIN Valid, j, l \in DOMAIN Sent:
         i < k /\ Valid[i] = Sent[j] /\ Valid[k] = Sent[l] => j < l

(* A damaged byte, junk or a restart in the middle of a frame costs no     *)
(* more than the frame hit and the one after it, however the bytes are cut *)
(* into reads: the parser finds back to the frame boundaries.              *)
Resynchronises ==
  Done => \A j \in DOMAIN Sent: j \notin {hit, hit + 1} => \E i \in DOMAIN Valid: Valid[i] = Sent[j]
=============================================================================
