---------------------------- MODULE VerifySimple ----------------------------
(***************************************************************************)
(* VerifySimpleProtocol (jvmVer): the verify_simple protocol plugin.  It   *)
(* cuts what SSRLocal sends into frames and puts what it receives together *)
(* again, whatever pieces the reads of the TCP stream return.  Bytes are   *)
(* counted, with the sizes of the code; what they say is left out, but for *)
(* where in the stream each frame ends.  The other end frames its data the *)
(* same way, and the stream is intact.                                     *)
(***************************************************************************)
EXTENDS Integers, Sequences

CONSTANTS
    Sizes,      \* the sizes of the arrays given to beforeEncrypt
    Pads,       \* the random paddings drawn
    Reads,      \* the sizes of the reads, besides those that take all there is
    MaxSends    \* bound: calls of beforeEncrypt

ASSUME SizesAssumption == Sizes \subseteq Nat \ {0}
ASSUME PadsAssumption == Pads \subseteq 0..15
ASSUME ReadsAssumption == Reads \subseteq 1..8224 /\ MaxSends \in Nat

UNIT_SIZE == 8100
MaxFrame == 8191        \* the largest length a frame may state
Overhead == 7           \* length, padding length, CRC32
ReadBuf == 8224         \* remoteReadBuf of SSRLocal

VARIABLES
    enc,        \* beforeEncrypt: the data's size, i, and how much is in buf
    marks,      \* where the stream and its data begin, and where each frame made ends
    sends,      \* calls of beforeEncrypt
    pos,        \* bytes of the stream that were read
    tmp,        \* tmpBuf.size, 0 for null
    dec,        \* afterDecrypt: buf.size, i, how much is in bb; busy while it runs
    at,         \* the mark up to which frames were taken out of the stream
    delivered,  \* bytes afterDecrypt has returned
    thrown      \* afterDecrypt ended with a BufferOverflowException

encVars == <<enc, marks, sends>>
decVars == <<pos, tmp, dec, at, delivered, thrown>>
frameVars == <<encVars, decVars>>

Mark == [end : Nat, data : Nat]
Encoder == [size : Nat, i : Nat, put : Nat]
Decoder == [size : Nat, i : Nat, put : Nat, busy : BOOLEAN]

FramesTypeOK ==
    /\ enc \in Encoder
    /\ marks \in Seq(Mark)
    /\ sends \in Nat
    /\ pos \in Nat /\ tmp \in Nat /\ at \in Nat \ {0} /\ delivered \in Nat
    /\ dec \in Decoder
    /\ thrown \in BOOLEAN

FramesInit ==
    /\ enc = [size |-> 0, i |-> 0, put |-> 0]
    /\ marks = <<[end |-> 0, data |-> 0]>>
    /\ sends = 0
    /\ pos = 0 /\ tmp = 0 /\ at = 1 /\ delivered = 0
    /\ dec = [size |-> 0, i |-> 0, put |-> 0, busy |-> FALSE]
    /\ thrown = FALSE

Least(a, b) == IF a < b THEN a ELSE b
-----------------------------------------------------------------------------
(* Variant: the last, partial unit is not counted.                         *)
CapacityRoundedDown(size) == (size \div UNIT_SIZE) * MaxFrame

(* ByteBuffer.allocate in beforeEncrypt and in afterDecrypt.               *)
Capacity(size) == (size \div UNIT_SIZE + 1) * MaxFrame
DataCapacity(size) == (size \div MaxFrame + 1) * UNIT_SIZE

Encoded == enc.i = enc.size

BeginEncrypt(size) ==
    /\ Encoded
    /\ sends < MaxSends
    /\ enc' = [size |-> size, i |-> 0, put |-> 0]
    /\ sends' = sends + 1
    /\ UNCHANGED <<marks, decVars>>

dtLen == Least(enc.size - enc.i, UNIT_SIZE)

(* The next unit, in a frame of its own.                                   *)
Encode(pad) ==
    /\ ~Encoded
    /\ LET len == dtLen + pad + Overhead
           last == marks[Len(marks)]
       IN  /\ marks' = Append(marks, [end |-> last.end + len, data |-> last.data + dtLen])
           /\ enc' = [size |-> enc.size, i |-> enc.i + dtLen, put |-> enc.put + len]
    /\ UNCHANGED <<sends, decVars>>

-----------------------------------------------------------------------------
Unread == marks[Len(marks)].end - pos
Returned == [size |-> 0, i |-> 0, put |-> 0, busy |-> FALSE]

(* A read of n bytes and the call of afterDecrypt with them.               *)
Read(n) ==
    /\ Encoded /\ ~dec.busy /\ ~thrown
    /\ n \in 1..Least(Unread, ReadBuf)
    /\ pos' = pos + n
    /\ dec' = [size |-> tmp + n, i |-> 0, put |-> 0, busy |-> TRUE]
    /\ tmp' = 0
    /\ UNCHANGED <<encVars, at, delivered, thrown>>

Left == dec.size - dec.i
FrameLen == marks[at + 1].end - marks[at].end
FrameData == marks[at + 1].data - marks[at].data

(* Variant: a frame that ends the buffer is left for the next call.        *)
CompleteStrict == Left >= Overhead /\ FrameLen < Left

(* buf holds the next frame from its length to its CRC32.                  *)
Complete == Left >= Overhead /\ FrameLen <= Left

(* Variant: the CRC32 is counted twice.                                    *)
DecodeSkips ==
    /\ dec.busy /\ Complete
    /\ at' = at + 1
    /\ dec' = [dec EXCEPT !.i = @ + FrameLen + 4, !.put = @ + FrameData]
    /\ UNCHANGED <<encVars, pos, tmp, delivered, thrown>>

(* bb.put of a frame's data, which throws if bb has no room for it.        *)
Decode ==
    /\ dec.busy /\ Complete
    /\ LET put == dec.put + FrameData
       IN  \/ /\ put <= DataCapacity(dec.size)
              /\ at' = at + 1
              /\ dec' = [size |-> dec.size, i |-> dec.i + FrameLen, put |-> put, busy |-> TRUE]
              /\ UNCHANGED thrown
           \/ /\ put > DataCapacity(dec.size)
              /\ thrown' = TRUE
              /\ dec' = Returned
              /\ UNCHANGED at
    /\ UNCHANGED <<encVars, pos, tmp, delivered>>

(* Variant: less than a header is not kept.                                *)
ReturnDropsHeader ==
    /\ dec.busy /\ ~Complete
    /\ tmp' = IF Left < Overhead THEN 0 ELSE Left
    /\ delivered' = delivered + dec.put
    /\ dec' = Returned
    /\ UNCHANGED <<encVars, pos, at, thrown>>

(* What is left in buf is kept for the next call.                          *)
Return ==
    /\ dec.busy /\ ~Complete
    /\ tmp' = Left
    /\ delivered' = delivered + dec.put
    /\ dec' = Returned
    /\ UNCHANGED <<encVars, pos, at, thrown>>

(* What follows a call of beforeEncrypt, and all of afterDecrypt.          *)
FramesStep ==
    \/ \E pad \in Pads : Encode(pad)
    \/ \E n \in Reads \cup {Least(Unread, ReadBuf)} : Read(n)
    \/ Decode
    \/ Return

FramesNext == (\E size \in Sizes : BeginEncrypt(size)) \/ FramesStep

FramesSpec == FramesInit /\ [][FramesNext]_frameVars
-----------------------------------------------------------------------------
(* beforeEncrypt never puts more into buf than it has allocated.           *)
EncoderFits == enc.put <= Capacity(enc.size)

(* What afterDecrypt holds, in buf or in tmpBuf, is all that was read and   *)
(* not decoded, and begins where a frame begins: in its loop, and from one *)
(* call to the next.                                                       *)
Aligned == ~thrown => pos = marks[at].end + (IF dec.busy THEN Left ELSE tmp)

(* A call returns the data of every frame that is there to its end.        *)
NothingHeldBack ==
    ~dec.busy /\ ~thrown =>
        /\ delivered = marks[at].data
        /\ at < Len(marks) => pos < marks[at + 1].end

(* bb has room for the data of any run of frames that reads bring together. *)
DecoderFits == ~thrown
=============================================================================
