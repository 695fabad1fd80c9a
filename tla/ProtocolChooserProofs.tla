------------------------ MODULE ProtocolChooserProofs ------------------------
(***************************************************************************)
(* The two protocol plugins that keep a state.  auth_simple, for any       *)
(* sessions, client ids and limit: no two first packages of an SSRLocal    *)
(* carry the same (client id, connection id) pair.  verify_simple, for     *)
(* arrays of any size, cut and read in any way: beforeEncrypt has room for *)
(* its frames, and afterDecrypt, as long as it does not throw, stays in    *)
(* step with the frames and returns every one that is there.               *)
(***************************************************************************)
EXTENDS ProtocolChooser, TLAPS

-----------------------------------------------------------------------------
(* VerifySimpleProtocol.                                                   *)
(* beforeEncrypt has made one frame for each unit up to i, of at most a    *)
(* unit, 15 bytes of padding and the overhead; only the last unit is       *)
(* shorter.                                                                *)
Units(n) == (n + UNIT_SIZE - 1) \div UNIT_SIZE
EncoderAt ==
    /\ enc.i <= enc.size
    /\ enc.i % UNIT_SIZE = 0 \/ enc.i = enc.size
    /\ enc.put <= Units(enc.i) * (UNIT_SIZE + 15 + Overhead)

(* Every frame is longer than its overhead.                                *)
Growing ==
    \A n \in 1..Len(marks) : n + 1 <= Len(marks) =>
        /\ marks[n].end + Overhead < marks[n + 1].end
        /\ marks[n].data < marks[n + 1].data

(* The decoder is somewhere in what was sent, with as much read as it      *)
(* holds, and has returned or holds in bb the data of the frames it took.  *)
DecoderAt ==
    /\ at <= Len(marks)
    /\ pos <= marks[Len(marks)].end
    /\ dec.busy => dec.i <= dec.size
    /\ ~thrown => marks[at].data = delivered + (IF dec.busy THEN dec.put ELSE 0)
    /\ thrown => ~dec.busy

FramesInv == FramesTypeOK /\ EncoderAt /\ Growing /\ DecoderAt /\ Aligned /\ NothingHeldBack

USE DEF UNIT_SIZE, MaxFrame, Overhead, ReadBuf

(* Nothing has been sent or read.                                          *)
LEMMA InitFrames == FramesInit => FramesInv
<1> SUFFICES ASSUME FramesInit PROVE FramesInv
  OBVIOUS
<1>1. /\ enc = [size |-> 0, i |-> 0, put |-> 0] /\ sends = 0
      /\ dec = [size |-> 0, i |-> 0, put |-> 0, busy |-> FALSE]
      /\ pos = 0 /\ tmp = 0 /\ at = 1 /\ delivered = 0 /\ ~thrown
  BY DEF FramesInit
<1>2. thrown \in BOOLEAN
  BY Zenon DEF FramesInit
<1>3. [end |-> 0, data |-> 0] \in Mark
  BY DEF Mark
<1>4. marks \in Seq(Mark) /\ Len(marks) = 1 /\ marks[1] = [end |-> 0, data |-> 0]
  BY <1>3 DEF FramesInit
<1>5. enc \in Encoder /\ dec \in Decoder
  BY <1>1 DEF Encoder, Decoder
<1>6. FramesTypeOK
  BY <1>1, <1>2, <1>4, <1>5 DEF FramesTypeOK
<1>7. EncoderAt /\ Growing
  BY <1>1, <1>4 DEF EncoderAt, Units, Growing
<1>8. DecoderAt /\ Aligned /\ NothingHeldBack
  BY <1>1, <1>4 DEF DecoderAt, Aligned, NothingHeldBack
<1>9. QED
  BY <1>6, <1>7, <1>8 DEF FramesInv

(* The marks as numbers.                                                   *)
LEMMA Places ==
    ASSUME FramesInv
    PROVE  /\ marks \in Seq(Mark) /\ Len(marks) \in Nat \ {0} /\ at \in 1..Len(marks)
           /\ \A n \in 1..Len(marks) : marks[n].end \in Nat /\ marks[n].data \in Nat
<1>1. marks \in Seq(Mark) /\ Len(marks) \in Nat
  BY DEF FramesInv, FramesTypeOK
<1>2. at \in 1..Len(marks) /\ Len(marks) # 0
  BY <1>1 DEF FramesInv, FramesTypeOK, DecoderAt
<1>3. \A n \in 1..Len(marks) : marks[n] \in Mark
  BY <1>1
<1>4. QED
  BY <1>1, <1>2, <1>3 DEF Mark

(* The integers of the encoder and the decoder.                            *)
LEMMA Counts ==
    ASSUME FramesTypeOK
    PROVE  /\ enc.size \in Nat /\ enc.i \in Nat /\ enc.put \in Nat
           /\ dec.size \in Nat /\ dec.i \in Nat /\ dec.put \in Nat
           /\ pos \in Nat /\ tmp \in Nat /\ delivered \in Nat /\ sends \in Nat
BY DEF FramesTypeOK, Encoder, Decoder

(* A new array to send, an empty one too.                                  *)
LEMMA BeginEncryptStep ==
    ASSUME FramesInv, NEW size \in Nat, BeginEncrypt(size)
    PROVE  FramesInv'
<1>1. /\ enc' = [size |-> size, i |-> 0, put |-> 0]
      /\ sends' = sends + 1 /\ UNCHANGED <<marks, decVars>>
  BY DEF BeginEncrypt
<1>2. enc' \in Encoder /\ sends' \in Nat
  BY <1>1, Counts DEF Encoder, FramesInv
<1>3. FramesTypeOK'
  BY <1>1, <1>2 DEF FramesInv, FramesTypeOK, decVars
<1>4. EncoderAt'
  BY <1>1 DEF EncoderAt, Units
<1>5. Growing' /\ DecoderAt' /\ Aligned' /\ NothingHeldBack'
  BY <1>1 DEF FramesInv, Growing, DecoderAt, Aligned, NothingHeldBack, Left, decVars
<1>6. QED
  BY <1>3, <1>4, <1>5 DEF FramesInv

(* The data of the next unit: a whole one or the last.                     *)
LEMMA NextUnit ==
    \A size, i \in Nat : i < size =>
        /\ Least(size - i, UNIT_SIZE) \in 1..8100
        /\ i + Least(size - i, UNIT_SIZE) <= size
        /\ Least(size - i, UNIT_SIZE) = 8100 \/ i + Least(size - i, UNIT_SIZE) = size
BY DEF Least

(* The next frame is made.                                                 *)
LEMMA EncodeStep ==
    ASSUME FramesInv, NEW pad \in Pads, Encode(pad)
    PROVE  FramesInv'
<1> pad \in 0..15
  BY PadsAssumption
<1> DEFINE len == dtLen + pad + Overhead
           last == Len(marks)
           mark == [end |-> marks[last].end + len, data |-> marks[last].data + dtLen]
<1>1. /\ marks' = Append(marks, mark)
      /\ enc' = [size |-> enc.size, i |-> enc.i + dtLen, put |-> enc.put + len]
      /\ UNCHANGED <<sends, decVars>>
  BY DEF Encode
<1>2. /\ FramesTypeOK /\ Growing /\ DecoderAt /\ dec \in Decoder
      /\ enc.size \in Nat /\ enc.i \in Nat /\ enc.put \in Nat
  BY Counts DEF FramesInv, FramesTypeOK
<1>3. enc.i < enc.size /\ enc.i % UNIT_SIZE = 0
  <2>1. enc.i <= enc.size /\ (enc.i % UNIT_SIZE = 0 \/ enc.i = enc.size)
    BY DEF FramesInv, EncoderAt
  <2>2. enc.i # enc.size
    BY DEF Encode, Encoded
  <2>3. QED
    BY <1>2, <2>1, <2>2
<1>4. /\ dtLen \in Nat /\ dtLen \in 1..8100
      /\ enc.i + dtLen <= enc.size
      /\ dtLen = 8100 \/ enc.i + dtLen = enc.size
  <2>1. dtLen \in Nat /\ 1 <= dtLen /\ dtLen <= 8100
    BY <1>2, <1>3 DEF dtLen, Least
  <2>2. enc.i < enc.size /\ enc.size \in Nat /\ enc.i \in Nat
    BY <1>2, <1>3
  <2>3. dtLen = Least(enc.size - enc.i, UNIT_SIZE)
    BY DEF dtLen
  <2>4. enc.i + dtLen <= enc.size /\ (dtLen = 8100 \/ enc.i + dtLen = enc.size)
    BY <2>2, <2>3, NextUnit
  <2>5. QED
    BY <2>1, <2>4
<1>dt. dtLen \in 1..8100 /\ dtLen \in Nat /\ dtLen > 0
  BY <1>2, <1>4
<1>5. len \in Nat /\ len > Overhead /\ len <= 8122
  BY <1>2, <1>4
<1> HIDE DEF len
<1>6. /\ marks \in Seq(Mark) /\ last \in Nat \ {0} /\ at \in 1..last
      /\ \A n \in 1..last : marks[n].end \in Nat /\ marks[n].data \in Nat
  BY Places
<1>7. mark \in Mark /\ mark.end = marks[last].end + len /\ mark.data = marks[last].data + dtLen
  <2>1. last \in 1..last
    BY <1>6
  <2>2. marks[last].end \in Nat /\ marks[last].data \in Nat
    BY <1>6, <2>1
  <2>3. marks[last].end + len \in Nat /\ marks[last].data + dtLen \in Nat
    BY <1>dt, <1>5, <2>2
  <2>4. QED
    BY <2>3 DEF Mark
<1> HIDE DEF mark
<1>8. /\ marks' \in Seq(Mark) /\ Len(marks') = last + 1 /\ marks'[last + 1] = mark
      /\ \A n \in 1..last : marks'[n] = marks[n]
  BY <1>1, <1>6, <1>7
<1>9. /\ enc' \in Encoder
      /\ enc'.size = enc.size /\ enc'.i = enc.i + dtLen /\ enc'.put = enc.put + len
  <2>1. enc.i + dtLen \in Nat /\ enc.put + len \in Nat
    BY <1>2, <1>4, <1>5
  <2>2. QED
    BY <1>1, <1>2, <2>1 DEF Encoder
<1>10. FramesTypeOK'
  BY <1>1, <1>2, <1>8, <1>9 DEF FramesTypeOK, decVars
<1>11. EncoderAt'
  <2>1. enc.put <= Units(enc.i) * 8122
    BY DEF FramesInv, EncoderAt
  <2>2. enc'.i <= enc'.size /\ (enc'.i % UNIT_SIZE = 0 \/ enc'.i = enc'.size)
    BY <1>2, <1>3, <1>4, <1>9, Counts
  <2>3. Units(enc'.i) = Units(enc.i) + 1 /\ Units(enc.i) \in Nat
    <3> DEFINE i == enc.i
    <3>1. i \in Nat /\ i % 8100 = 0
      BY <1>2, <1>3
    <3> HIDE DEF i
    <3>2. (i + dtLen + 8099) \div 8100 = (i + 8099) \div 8100 + 1 /\ (i + 8099) \div 8100 \in Nat
      <4> DEFINE k == i \div 8100
      <4>1. k \in Nat /\ i = 8100 * k
        BY <3>1
      <4> HIDE DEF k
      <4>2. QED
        BY <1>dt, <3>1, <4>1
    <3>3. QED
      BY <1>9, <3>2 DEF Units, i
  <2>4. enc'.put <= Units(enc'.i) * 8122
    BY <1>2, <1>5, <1>9, <2>1, <2>3, Counts
  <2>5. QED
    BY <2>2, <2>4 DEF EncoderAt
<1>12. Growing'
  <2> SUFFICES ASSUME NEW n \in 1..last
               PROVE  /\ marks'[n].end + Overhead < marks'[n + 1].end
                      /\ marks'[n].data < marks'[n + 1].data
    BY <1>6, <1>8 DEF Growing
  <2>1. CASE n < last
    <3>1. n + 1 \in 1..last
      BY <1>6, <2>1
    <3>2. marks[n].end + Overhead < marks[n + 1].end /\ marks[n].data < marks[n + 1].data
      BY <1>2, <1>6, <3>1 DEF Growing
    <3>3. QED
      BY <1>8, <3>1, <3>2
  <2>2. CASE n = last
    <3>1. /\ marks'[n] = marks[n] /\ marks'[n + 1] = mark
          /\ marks[n].end \in Nat /\ marks[n].data \in Nat
      BY <1>6, <1>8, <2>2
    <3>2. dtLen > 0
      BY <1>4
    <3>3. QED
      BY <1>dt, <1>5, <1>7, <2>2, <3>1, <3>2
  <2>3. QED
    BY <1>6, <2>1, <2>2
<1>13. /\ at' = at /\ pos' = pos /\ tmp' = tmp /\ dec' = dec
       /\ delivered' = delivered /\ thrown' = thrown
       /\ marks'[at] = marks[at]
  BY <1>1, <1>6, <1>8 DEF decVars
<1>14. pos \in Nat /\ pos <= marks[last].end
  BY <1>2, Counts DEF DecoderAt
<1>grows. marks[last].end < marks'[last + 1].end
  BY <1>5, <1>6, <1>7, <1>8
<1>15. DecoderAt'
  <2>1. last \in 1..last /\ marks'[Len(marks')].end \in Nat /\ marks[last].end \in Nat
    BY <1>5, <1>6, <1>7, <1>8
  <2>2. at' <= Len(marks') /\ pos' <= marks'[Len(marks')].end
    BY <1>6, <1>8, <1>13, <1>14, <1>grows, <2>1
  <2>3. /\ dec'.busy => dec'.i <= dec'.size
        /\ ~thrown' => marks'[at'].data = delivered' + (IF dec'.busy THEN dec'.put ELSE 0)
        /\ thrown' => ~dec'.busy
    <3>1. dec'.busy = dec.busy /\ dec'.i = dec.i /\ dec'.size = dec.size /\ dec'.put = dec.put
      BY <1>13
    <3>2. /\ dec.busy => dec.i <= dec.size
          /\ ~thrown => marks[at].data = delivered + (IF dec.busy THEN dec.put ELSE 0)
          /\ thrown => ~dec.busy
      BY <1>2 DEF DecoderAt
    <3>3. QED
      BY <1>13, <3>1, <3>2
  <2>4. QED
    BY <2>2, <2>3 DEF DecoderAt
<1>16. Aligned'
  BY <1>13 DEF FramesInv, Aligned, Left
<1>17. NothingHeldBack'
  <2> SUFFICES ASSUME ~dec.busy, ~thrown
               PROVE  delivered = marks[at].data /\ (at < last + 1 => pos < marks'[at + 1].end)
    BY <1>8, <1>13 DEF NothingHeldBack
  <2>1. delivered = marks[at].data /\ (at < last => pos < marks[at + 1].end)
    BY DEF FramesInv, NothingHeldBack
  <2>2. CASE at < last
    BY <1>6, <1>8, <2>1, <2>2
  <2>3. CASE at = last
    BY <1>6, <1>7, <1>8, <1>13, <1>14, <1>grows, <2>1, <2>3 DEF Mark
  <2>4. QED
    BY <1>6, <2>2, <2>3, <2>1
<1>18. QED
  BY <1>10, <1>11, <1>12, <1>15, <1>16, <1>17 DEF FramesInv

(* What the steps of the decoder keep.                                     *)
LEMMA EncoderKept ==
    ASSUME FramesInv, UNCHANGED encVars
    PROVE  /\ EncoderAt' /\ Growing'
           /\ enc' \in Encoder /\ marks' \in Seq(Mark) /\ sends' \in Nat
BY DEF FramesInv, FramesTypeOK, encVars, EncoderAt, Growing

(* A read, and the call of afterDecrypt.                                   *)
LEMMA ReadStep ==
    ASSUME FramesInv, NEW n, Read(n)
    PROVE  FramesInv'
<1> DEFINE last == Len(marks)
<1>1. /\ last \in Nat \ {0} /\ at \in 1..last /\ last \in 1..last
      /\ marks[last].end \in Nat /\ marks[at].end \in Nat /\ marks[at].data \in Nat
  BY Places
<1>2. pos \in Nat /\ tmp \in Nat /\ delivered \in Nat
  BY Counts DEF FramesInv
<1>3. n \in Nat /\ n > 0 /\ pos + n <= marks[last].end
  BY <1>1, <1>2 DEF Read, Unread, Least
<1>4. /\ pos' = pos + n /\ tmp' = 0 /\ at' = at /\ delivered' = delivered
      /\ thrown' = thrown /\ marks' = marks /\ UNCHANGED encVars /\ ~dec.busy /\ ~thrown
      /\ dec' = [size |-> tmp + n, i |-> 0, put |-> 0, busy |-> TRUE]
  BY DEF Read, encVars
<1>5. dec' \in Decoder /\ dec'.size = tmp + n /\ dec'.i = 0 /\ dec'.put = 0 /\ dec'.busy
  BY <1>2, <1>3, <1>4 DEF Decoder
<1>6. EncoderAt' /\ Growing' /\ enc' \in Encoder /\ marks' \in Seq(Mark) /\ sends' \in Nat
  BY <1>4, EncoderKept
<1>7. FramesTypeOK'
  BY <1>2, <1>3, <1>4, <1>5, <1>6 DEF FramesInv, FramesTypeOK
<1>8. DecoderAt'
  <2>1. marks[at].data = delivered
    BY <1>4 DEF FramesInv, NothingHeldBack
  <2>2. at' <= Len(marks') /\ pos' <= marks'[Len(marks')].end
    BY <1>1, <1>3, <1>4
  <2>3. marks'[at'].data = delivered' + 0
    BY <1>1, <1>2, <1>4, <2>1
  <2>4. QED
    BY <1>2, <1>3, <1>4, <1>5, <2>2, <2>3 DEF DecoderAt
<1>9. Aligned'
  <2>1. pos = marks[at].end + tmp
    BY <1>4 DEF FramesInv, Aligned
  <2>2. pos + n = marks[at].end + ((tmp + n) - 0)
    BY <1>1, <1>2, <1>3, <2>1
  <2>3. QED
    BY <1>4, <1>5, <2>2 DEF Aligned, Left
<1>10. NothingHeldBack'
  BY <1>5 DEF NothingHeldBack
<1>11. QED
  BY <1>6, <1>7, <1>8, <1>9, <1>10 DEF FramesInv

(* In the loop of afterDecrypt.                                            *)
LEMMA InTheLoop ==
    ASSUME FramesInv, dec.busy
    PROVE  /\ at \in 1..Len(marks) /\ Len(marks) \in Nat
           /\ Left \in Nat /\ dec.i + Left = dec.size
           /\ marks[at].end \in Nat /\ marks[at].data \in Nat
           /\ pos = marks[at].end + Left /\ marks[at].data = delivered + dec.put
           /\ at < Len(marks) =>
                 /\ FrameLen \in Nat /\ FrameData \in Nat /\ FrameLen > Overhead
                 /\ marks[at + 1].end = marks[at].end + FrameLen
                 /\ marks[at + 1].data = marks[at].data + FrameData
           /\ at = Len(marks) => Left = 0
<1>1. /\ Len(marks) \in Nat /\ at \in 1..Len(marks)
      /\ marks[at].end \in Nat /\ marks[at].data \in Nat
  BY Places
<1>2. /\ dec.size \in Nat /\ dec.i \in Nat /\ dec.put \in Nat
      /\ pos \in Nat /\ delivered \in Nat
  BY Counts DEF FramesInv
<1>3. dec.i <= dec.size /\ ~thrown /\ pos <= marks[Len(marks)].end
  BY DEF FramesInv, DecoderAt
<1>4. Left \in Nat /\ dec.i + Left = dec.size
  BY <1>2, <1>3 DEF Left
<1>5. pos = marks[at].end + Left /\ marks[at].data = delivered + dec.put
  BY <1>3 DEF FramesInv, Aligned, DecoderAt
<1>6. ASSUME at < Len(marks)
      PROVE  /\ FrameLen \in Nat /\ FrameData \in Nat /\ FrameLen > Overhead
             /\ marks[at + 1].end = marks[at].end + FrameLen
             /\ marks[at + 1].data = marks[at].data + FrameData
  <2>1. at + 1 \in 1..Len(marks)
    BY <1>1, <1>6
  <2>2. marks[at + 1].end \in Nat /\ marks[at + 1].data \in Nat
    BY <2>1, Places
  <2>3. marks[at].end + Overhead < marks[at + 1].end /\ marks[at].data < marks[at + 1].data
    BY <1>1, <2>1 DEF FramesInv, Growing
  <2>4. QED
    BY <1>1, <2>2, <2>3 DEF FrameLen, FrameData
<1>7. ASSUME at = Len(marks)
      PROVE  Left = 0
  BY <1>1, <1>2, <1>3, <1>4, <1>5, <1>7
<1>8. QED
  BY <1>1, <1>4, <1>5, <1>6, <1>7

(* A frame is taken out, or does not fit.                                  *)
LEMMA DecodeStep ==
    ASSUME FramesInv, Decode
    PROVE  FramesInv'
<1>1. /\ dec.busy /\ Complete /\ UNCHANGED encVars /\ marks' = marks
      /\ pos' = pos /\ tmp' = tmp /\ delivered' = delivered
  BY DEF Decode, encVars
<1>2. /\ at \in 1..Len(marks) /\ Len(marks) \in Nat
      /\ Left \in Nat /\ dec.i + Left = dec.size
      /\ marks[at].end \in Nat /\ marks[at].data \in Nat
      /\ pos = marks[at].end + Left /\ marks[at].data = delivered + dec.put
  BY <1>1, InTheLoop
<1>3. Left >= Overhead /\ FrameLen <= Left
  BY <1>1 DEF Complete
<1>4. at < Len(marks)
  BY <1>1, <1>2, <1>3, InTheLoop
<1>5. /\ FrameLen \in Nat /\ FrameData \in Nat
      /\ marks[at + 1].end = marks[at].end + FrameLen
      /\ marks[at + 1].data = marks[at].data + FrameData
  BY <1>1, <1>4, InTheLoop
<1>6. /\ dec \in Decoder /\ pos \in Nat /\ tmp \in Nat /\ delivered \in Nat
      /\ dec.size \in Nat /\ dec.i \in Nat /\ dec.put \in Nat /\ thrown \in BOOLEAN
      /\ at \in Nat \ {0} /\ ~thrown /\ pos <= marks[Len(marks)].end
  BY <1>1, Counts DEF FramesInv, FramesTypeOK, DecoderAt
<1>ints. dec.i \in Nat /\ dec.size \in Nat
  BY <1>6
<1>7. EncoderAt' /\ Growing' /\ enc' \in Encoder /\ marks' \in Seq(Mark) /\ sends' \in Nat
  BY <1>1, EncoderKept
<1>8. CASE /\ at' = at + 1 /\ thrown' = thrown
           /\ dec' = [size |-> dec.size, i |-> dec.i + FrameLen,
                      put |-> dec.put + FrameData, busy |-> TRUE]
  <2>1. /\ dec' \in Decoder /\ dec'.size = dec.size /\ dec'.busy
        /\ dec'.i = dec.i + FrameLen /\ dec'.put = dec.put + FrameData
    BY <1>1, <1>5, <1>6, <1>8 DEF Decoder
  <2>2. FramesTypeOK'
    BY <1>1, <1>6, <1>7, <1>8, <2>1 DEF FramesTypeOK
  <2>3. DecoderAt'
    <3>1. at + 1 <= Len(marks)
      BY <1>2, <1>4
    <3>2. marks[at + 1].data = delivered + (dec.put + FrameData)
      BY <1>2, <1>5, <1>6
    <3>kept. dec.i + FrameLen <= dec.size
      BY <1>2, <1>3, <1>5, <1>ints
    <3>3. QED
      BY <1>1, <1>6, <1>8, <2>1, <3>1, <3>2, <3>kept DEF DecoderAt
  <2>4. Aligned'
    <3>1. pos = marks[at + 1].end + (dec.size - (dec.i + FrameLen))
      <4>1. marks[at].end + Left = (marks[at].end + FrameLen) + (Left - FrameLen)
        BY <1>2, <1>5
      <4>2. Left - FrameLen = dec.size - (dec.i + FrameLen)
        BY <1>2, <1>5, <1>ints
      <4>3. QED
        BY <1>2, <1>5, <4>1, <4>2
    <3>2. QED
      BY <1>1, <1>8, <2>1, <3>1 DEF Aligned, Left
  <2>5. NothingHeldBack'
    BY <2>1 DEF NothingHeldBack
  <2>6. QED
    BY <1>7, <2>2, <2>3, <2>4, <2>5 DEF FramesInv
<1>9. CASE at' = at /\ thrown' = TRUE /\ dec' = Returned
  <2>1. dec' \in Decoder /\ ~dec'.busy
    BY <1>9 DEF Returned, Decoder
  <2>2. FramesTypeOK'
    BY <1>1, <1>6, <1>7, <1>9, <2>1 DEF FramesTypeOK
  <2>3. DecoderAt'
    BY <1>1, <1>2, <1>6, <1>9, <2>1 DEF DecoderAt
  <2>4. Aligned' /\ NothingHeldBack'
    BY <1>9 DEF Aligned, NothingHeldBack
  <2>5. QED
    BY <1>7, <2>2, <2>3, <2>4 DEF FramesInv
<1>10. QED
  BY <1>8, <1>9 DEF Decode

(* afterDecrypt returns.                                                   *)
LEMMA ReturnStep ==
    ASSUME FramesInv, Return
    PROVE  FramesInv'
<1>1. /\ dec.busy /\ ~Complete /\ UNCHANGED encVars /\ marks' = marks
      /\ pos' = pos /\ tmp' = Left /\ delivered' = delivered + dec.put
      /\ at' = at /\ thrown' = thrown /\ dec' = Returned
  BY DEF Return, encVars
<1>2. /\ at \in 1..Len(marks) /\ Len(marks) \in Nat
      /\ Left \in Nat
      /\ marks[at].end \in Nat /\ marks[at].data \in Nat
      /\ pos = marks[at].end + Left /\ marks[at].data = delivered + dec.put
  BY <1>1, InTheLoop
<1>3. /\ pos \in Nat /\ delivered \in Nat /\ dec.put \in Nat /\ thrown \in BOOLEAN
      /\ at \in Nat \ {0} /\ ~thrown /\ pos <= marks[Len(marks)].end
  BY <1>1, Counts DEF FramesInv, FramesTypeOK, DecoderAt
<1>4. EncoderAt' /\ Growing' /\ enc' \in Encoder /\ marks' \in Seq(Mark) /\ sends' \in Nat
  BY <1>1, EncoderKept
<1>5. dec' \in Decoder /\ ~dec'.busy /\ delivered' \in Nat
  BY <1>1, <1>3 DEF Returned, Decoder
<1>6. FramesTypeOK'
  BY <1>1, <1>2, <1>3, <1>4, <1>5 DEF FramesTypeOK
<1>7. DecoderAt'
  <2>1. marks[at].data = (delivered + dec.put) + 0
    BY <1>2, <1>3
  <2>2. QED
    BY <1>1, <1>2, <1>3, <1>5, <2>1 DEF DecoderAt
<1>8. Aligned'
  BY <1>1, <1>2, <1>5 DEF Aligned
<1>9. NothingHeldBack'
  <2>1. ASSUME at < Len(marks)
        PROVE  pos < marks[at + 1].end
    <3>1. /\ FrameLen \in Nat /\ FrameLen > Overhead
          /\ marks[at + 1].end = marks[at].end + FrameLen
      BY <1>1, <2>1, InTheLoop
    <3>2. Left < FrameLen
      BY <1>1, <1>2, <3>1 DEF Complete
    <3>3. QED
      BY <1>2, <3>1, <3>2
  <2>2. QED
    BY <1>1, <1>2, <2>1 DEF NothingHeldBack
<1>10. QED
  BY <1>4, <1>6, <1>7, <1>8, <1>9 DEF FramesInv

(* What follows a call of beforeEncrypt, and afterDecrypt.                 *)
LEMMA FramesStepKept ==
    ASSUME FramesInv, FramesStep
    PROVE  FramesInv'
<1>1. ASSUME NEW pad \in Pads, Encode(pad) PROVE FramesInv'
  BY <1>1, EncodeStep
<1>2. ASSUME NEW n, Read(n) PROVE FramesInv'
  BY <1>2, ReadStep
<1>3. CASE Decode
  BY <1>3, DecodeStep
<1>4. CASE Return
  BY <1>4, ReturnStep
<1>5. QED
  BY <1>1, <1>2, <1>3, <1>4 DEF FramesStep

(* What else a SSRLocal does leaves the frames alone.                      *)
LEMMA FramesLeftAlone == FramesInv /\ UNCHANGED frameVars => FramesInv'
BY DEF frameVars, encVars, decVars, FramesInv, FramesTypeOK, EncoderAt, Growing, DecoderAt, Aligned,
       NothingHeldBack, Left

(* Every step of the two ends.                                             *)
LEMMA NextFrames == FramesInv /\ [FramesNext]_frameVars => FramesInv'
<1> SUFFICES ASSUME FramesInv, [FramesNext]_frameVars PROVE FramesInv'
  OBVIOUS
<1>1. ASSUME NEW size \in Sizes, BeginEncrypt(size) PROVE FramesInv'
  <2>1. size \in Nat
    BY SizesAssumption
  <2>2. QED
    BY <1>1, <2>1, BeginEncryptStep
<1>2. CASE FramesStep
  BY <1>2, FramesStepKept
<1>3. CASE UNCHANGED frameVars
  BY <1>3, FramesLeftAlone
<1>4. QED
  BY <1>1, <1>2, <1>3 DEF FramesNext

(* The inductive invariant holds of VerifySimpleProtocol.                  *)
THEOREM FramesInvariance == FramesSpec => []FramesInv
BY InitFrames, NextFrames, PTL DEF FramesSpec

(* Every state of the encoder and the decoder has its type.                *)
THEOREM FramesTypeCorrect == FramesSpec => []FramesTypeOK
<1>1. FramesInv => FramesTypeOK
  BY DEF FramesInv
<1>2. QED
  BY <1>1, FramesInvariance, PTL

(* The frames made so far fit: a unit and what a frame adds to it are less *)
(* than the 8191 bytes allocated for each unit begun.                      *)
LEMMA RoomForFrames == FramesInv => EncoderFits
<1> SUFFICES ASSUME FramesInv PROVE EncoderFits
  OBVIOUS
<1>1. enc.size \in Nat /\ enc.i \in Nat /\ enc.put \in Nat
  BY Counts DEF FramesInv
<1>2. enc.i <= enc.size /\ enc.put <= Units(enc.i) * 8122
  BY DEF FramesInv, EncoderAt
<1>3. Units(enc.i) \in Nat /\ Units(enc.i) <= enc.size \div 8100 + 1
  BY <1>1, <1>2 DEF Units
<1>4. enc.size \div 8100 + 1 \in Nat
  BY <1>1
<1>5. Units(enc.i) * 8122 <= (enc.size \div 8100 + 1) * 8191
  BY <1>3, <1>4
<1>6. QED
  BY <1>1, <1>2, <1>3, <1>4, <1>5 DEF EncoderFits, Capacity

(* For an array of any size and any padding, the buffer beforeEncrypt      *)
(* allocates has room for the frames it makes: buf.put never throws.       *)
THEOREM EncoderHasRoom == FramesSpec => []EncoderFits
BY RoomForFrames, FramesInvariance, PTL

(* However the reads cut the stream, afterDecrypt stays in step with the   *)
(* frames: it never looks for a header in the middle of one.               *)
THEOREM DecoderStaysAligned == FramesSpec => []Aligned
<1>1. FramesInv => Aligned
  BY DEF FramesInv
<1>2. QED
  BY <1>1, FramesInvariance, PTL

(* However the reads cut the stream, afterDecrypt has returned the data of *)
(* every frame that is there to its end, once and no more.                 *)
THEOREM EveryFrameIsReturned == FramesSpec => []NothingHeldBack
<1>1. FramesInv => NothingHeldBack
  BY DEF FramesInv
<1>2. QED
  BY <1>1, FramesInvariance, PTL

-----------------------------------------------------------------------------
(* AuthSimpleProtocol.                                                     *)
(* The ids appear together, before the first plugin object is usable.      *)
IdsDrawn ==
    /\ connId = NoId <=> clientId = NoId
    /\ created # {} => connId # NoId
    /\ clientId # NoId => clientId \in drawn

(* What is on the wire is at most what the shared ids have reached.        *)
HeadsBehindIds ==
    \A i \in 1..Len(heads) :
        /\ heads[i].client \in drawn
        /\ heads[i].client = clientId => heads[i].conn <= connId
        /\ headSent[heads[i].session]

HeadsInv == TypeOK /\ IdsDrawn /\ HeadsBehindIds /\ UniqueHeads /\ RepeatedHeadIsNewClient

USE SeedBoundAssumption, WrapLimitAssumption, NoIdAssumption

(* No session has been accepted.                                           *)
LEMMA InitHeads == Init => HeadsInv
BY DEF Init, HeadsInv, TypeOK, IdsDrawn, HeadsBehindIds, UniqueHeads, RepeatedHeadIsNewClient

(* What appending a first package does to the log, element by element.     *)
LEMMA AppendHead ==
    ASSUME NEW log \in Seq(FirstPackage), NEW h \in FirstPackage
    PROVE  /\ Append(log, h) \in Seq(FirstPackage)
           /\ Len(Append(log, h)) = Len(log) + 1
           /\ Len(log) \in Nat
           /\ \A i \in 1..Len(log) : Append(log, h)[i] = log[i]
           /\ Append(log, h)[Len(log) + 1] = h
OBVIOUS

(* A package from s under (c, n), where n is beyond whatever was sent      *)
(* under c and s owes nothing under c, keeps both uniqueness properties.   *)
LEMMA NewHeadUnique ==
    ASSUME HeadsInv,
           NEW s \in Session, NEW c \in ClientId, NEW n \in Nat,
           \A i \in 1..Len(heads) : heads[i].client = c => heads[i].conn < n,
           \A i \in 1..Len(heads) : heads[i].client = c => heads[i].session # s,
           heads' = Append(heads, [session |-> s, client |-> c, conn |-> n])
    PROVE  UniqueHeads' /\ RepeatedHeadIsNewClient'
<1> DEFINE h == [session |-> s, client |-> c, conn |-> n]
<1>1. heads \in Seq(FirstPackage) /\ h \in FirstPackage
  BY DEF HeadsInv, TypeOK, FirstPackage
<1>2. \A i \in 1..Len(heads) : heads[i] \in FirstPackage
  BY <1>1
<1>3. /\ Len(heads') = Len(heads) + 1
      /\ Len(heads) \in Nat
      /\ \A i \in 1..Len(heads) : heads'[i] = heads[i]
      /\ heads'[Len(heads) + 1] = h
  BY <1>1, AppendHead
<1>4. UniqueHeads'
  <2> SUFFICES ASSUME NEW i \in 1..Len(heads'), NEW j \in 1..Len(heads'),
                      heads'[i].client = heads'[j].client, heads'[i].conn = heads'[j].conn
               PROVE  i = j
    BY DEF UniqueHeads
  <2>1. CASE i \in 1..Len(heads) /\ j \in 1..Len(heads)
    BY <2>1, <1>3 DEF HeadsInv, UniqueHeads
  <2>2. CASE i \in 1..Len(heads) /\ j = Len(heads) + 1
    <3>1. heads[i].client = c /\ heads[i].conn = n
      BY <2>2, <1>3
    <3>2. heads[i].conn < n
      BY <3>1, <2>2
    <3> QED BY <3>1, <3>2
  <2>3. CASE j \in 1..Len(heads) /\ i = Len(heads) + 1
    <3>1. heads[j].client = c /\ heads[j].conn = n
      BY <2>3, <1>3
    <3>2. heads[j].conn < n
      BY <3>1, <2>3
    <3> QED BY <3>1, <3>2
  <2> QED BY <2>1, <2>2, <2>3, <1>3
<1>5. RepeatedHeadIsNewClient'
  <2> SUFFICES ASSUME NEW i \in 1..Len(heads'), NEW j \in 1..Len(heads'),
                      heads'[i].client = heads'[j].client, heads'[i].session = heads'[j].session
               PROVE  i = j
    BY DEF RepeatedHeadIsNewClient
  <2>1. CASE i \in 1..Len(heads) /\ j \in 1..Len(heads)
    BY <2>1, <1>3 DEF HeadsInv, RepeatedHeadIsNewClient
  <2>2. CASE i \in 1..Len(heads) /\ j = Len(heads) + 1
    BY <2>2, <1>3
  <2>3. CASE j \in 1..Len(heads) /\ i = Len(heads) + 1
    BY <2>3, <1>3
  <2> QED BY <2>1, <2>2, <2>3, <1>3
<1> QED BY <1>4, <1>5

(* The constructor of the plugin.                                          *)
LEMMA NewPluginStep ==
    ASSUME HeadsInv, NEW s \in Session, NewPlugin(s)
    PROVE  HeadsInv'
<1>1. TypeOK' /\ IdsDrawn'
  BY DEF NewPlugin, HeadsInv, TypeOK, IdsDrawn, RandomSeed, FreshClient
<1>2. HeadsBehindIds'
  <2> SUFFICES ASSUME NEW i \in 1..Len(heads)
               PROVE  /\ heads[i].client \in drawn'
                      /\ heads[i].client = clientId' => heads[i].conn <= connId'
                      /\ headSent[heads[i].session]
    BY DEF HeadsBehindIds, NewPlugin
  <2>1. CASE connId = NoId
    BY <2>1 DEF NewPlugin, HeadsInv, TypeOK, IdsDrawn, HeadsBehindIds, FreshClient
  <2>2. CASE connId # NoId
    BY <2>2 DEF NewPlugin, HeadsInv, HeadsBehindIds
  <2> QED BY <2>1, <2>2
<1>3. UniqueHeads' /\ RepeatedHeadIsNewClient'
  BY DEF NewPlugin, HeadsInv, UniqueHeads, RepeatedHeadIsNewClient
<1> QED BY <1>1, <1>2, <1>3 DEF HeadsInv

(* Both forms of beforeEncrypt, by the ids the package carries.            *)
LEMMA SendStep ==
    ASSUME HeadsInv, NEW s \in created,
           NEW c \in ClientId, NEW n \in 0..(WrapLimit + 1), NEW owes,
           connId' = n, clientId' = c, created' = created,
           drawn' = drawn \cup {c},
           SendPackage(s, owes, c, n),
           \/ /\ clientId = c
              /\ connId \in Nat
              /\ n = connId + 1
              /\ owes <=> ~headSent[s]
           \/ c \notin drawn
    PROVE  HeadsInv'
<1> DEFINE h == [session |-> s, client |-> c, conn |-> n]
<1>0. s \in Session /\ h \in FirstPackage /\ heads \in Seq(FirstPackage)
  BY DEF HeadsInv, TypeOK, FirstPackage
<1>1. /\ Len(Append(heads, h)) = Len(heads) + 1
      /\ Len(heads) \in Nat
      /\ Append(heads, h) \in Seq(FirstPackage)
      /\ \A i \in 1..Len(heads) : Append(heads, h)[i] = heads[i]
      /\ Append(heads, h)[Len(heads) + 1] = h
  BY <1>0, AppendHead
<1>2. \A i \in 1..Len(heads) : heads[i] \in FirstPackage
  BY <1>0
<1>3. TypeOK' /\ IdsDrawn'
  BY <1>0, <1>1 DEF HeadsInv, TypeOK, IdsDrawn, SendPackage
<1>4. \A i \in 1..Len(heads) : heads[i].client = c => heads[i].conn < n
  BY <1>2 DEF HeadsInv, HeadsBehindIds, FirstPackage
<1>5. HeadsBehindIds'
  <2>1. \A i \in 1..Len(heads) : /\ heads[i].client \in drawn'
                                 /\ heads[i].client = clientId' => heads[i].conn <= connId'
                                 /\ headSent'[heads[i].session]
    BY <1>0, <1>2, <1>4 DEF HeadsInv, TypeOK, HeadsBehindIds, SendPackage, FirstPackage
  <2>2. h.client \in drawn' /\ h.conn <= connId' /\ headSent'[h.session]
    BY <1>0 DEF HeadsInv, TypeOK, SendPackage
  <2>3. CASE owes
    <3> SUFFICES ASSUME NEW i \in 1..Len(heads')
                 PROVE  /\ heads'[i].client \in drawn'
                        /\ heads'[i].client = clientId' => heads'[i].conn <= connId'
                        /\ headSent'[heads'[i].session]
      BY DEF HeadsBehindIds
    <3>1. heads' = Append(heads, h)
      BY <2>3 DEF SendPackage
    <3>2. CASE i \in 1..Len(heads)
      BY <3>1, <3>2, <2>1, <1>1
    <3>3. CASE i = Len(heads) + 1
      BY <3>1, <3>3, <2>2, <1>1
    <3> QED BY <3>1, <3>2, <3>3, <1>1
  <2>4. CASE ~owes
    BY <2>4, <2>1 DEF HeadsBehindIds, SendPackage
  <2> QED BY <2>3, <2>4
<1>6. UniqueHeads' /\ RepeatedHeadIsNewClient'
  <2>1. CASE owes
    <3>1. \A i \in 1..Len(heads) : heads[i].client = c => heads[i].session # s
      BY <2>1 DEF HeadsInv, HeadsBehindIds
    <3>2. heads' = Append(heads, h)
      BY <2>1 DEF SendPackage
    <3> QED BY <3>1, <3>2, <1>0, <1>4, NewHeadUnique
  <2>2. CASE ~owes
    BY <2>2 DEF HeadsInv, UniqueHeads, RepeatedHeadIsNewClient, SendPackage
  <2> QED BY <2>1, <2>2
<1> QED BY <1>3, <1>5, <1>6 DEF HeadsInv

(* A package below the limit.                                              *)
LEMMA AuthEncryptStep ==
    ASSUME HeadsInv, NEW s \in Session, BeforeEncrypt(s)
    PROVE  HeadsInv'
<1>1. /\ s \in created
      /\ connId \in Nat /\ connId + 1 \in 0..(WrapLimit + 1)
      /\ clientId \in ClientId /\ clientId \in drawn
  BY DEF BeforeEncrypt, HeadsInv, TypeOK, IdsDrawn
<1>2. /\ connId' = connId + 1
      /\ clientId' = clientId /\ created' = created
      /\ drawn' = drawn \cup {clientId}
      /\ SendPackage(s, ~headSent[s], clientId, connId + 1)
  BY <1>1 DEF BeforeEncrypt
<1> QED BY <1>1, <1>2, SendStep

(* A package that meets the limit.                                         *)
LEMMA AuthWrapStep ==
    ASSUME HeadsInv, NEW s \in Session, BeforeEncryptWrap(s)
    PROVE  HeadsInv'
<1>1. PICK c \in FreshClient, seed \in RandomSeed :
          /\ clientId' = c
          /\ drawn' = drawn \cup {c}
          /\ connId' = seed + 1
          /\ SendPackage(s, TRUE, c, seed + 1)
  BY DEF BeforeEncryptWrap
<1>2. s \in created /\ created' = created
  BY DEF BeforeEncryptWrap
<1>3. c \in ClientId /\ c \notin drawn /\ seed + 1 \in 0..(WrapLimit + 1)
  BY DEF FreshClient, RandomSeed
<1> QED BY <1>1, <1>2, <1>3, SendStep

(* Every step of every session.                                            *)
LEMMA NextHeads == HeadsInv /\ [Next]_vars => HeadsInv'
<1> SUFFICES ASSUME HeadsInv, [Next]_vars PROVE HeadsInv'
  OBVIOUS
<1>1. ASSUME NEW s \in Session, NewPlugin(s) PROVE HeadsInv'
  BY <1>1, NewPluginStep
<1>2. ASSUME NEW s \in Session, BeforeEncrypt(s) PROVE HeadsInv'
  BY <1>2, AuthEncryptStep
<1>3. ASSUME NEW s \in Session, BeforeEncryptWrap(s) PROVE HeadsInv'
  BY <1>3, AuthWrapStep
<1>4. CASE UNCHANGED vars
  BY <1>4 DEF vars, HeadsInv, TypeOK, IdsDrawn, HeadsBehindIds, UniqueHeads, RepeatedHeadIsNewClient
<1> QED BY <1>1, <1>2, <1>3, <1>4 DEF Next

(* The connection id never leaves the 32-bit range the wire format has.    *)
THEOREM HeadsTypeCorrect == Spec => []TypeOK
<1>1. HeadsInv => TypeOK
  BY DEF HeadsInv
<1> QED BY <1>1, InitHeads, NextHeads, PTL DEF Spec

(* AuthSimpleProtocol never announces two connections under one id pair.   *)
THEOREM HeadsAreUnique == Spec => []UniqueHeads
<1>1. HeadsInv => UniqueHeads
  BY DEF HeadsInv
<1> QED BY <1>1, InitHeads, NextHeads, PTL DEF Spec

(* A session that meets the limit repeats its head under a fresh client.   *)
THEOREM RepeatedHeadsAreFresh == Spec => []RepeatedHeadIsNewClient
<1>1. HeadsInv => RepeatedHeadIsNewClient
  BY DEF HeadsInv
<1> QED BY <1>1, InitHeads, NextHeads, PTL DEF Spec

-----------------------------------------------------------------------------
(* ProtocolChooser.                                                        *)
ChooserInv == HeadsInv /\ FramesInv /\ given \in Seq(Nat)

USE CutsAssumption, NoSessionAssumption

(* A call of beforeEncrypt gives vsp one array or two, the second of them  *)
(* empty if all of the data goes with the head.                            *)
LEMMA Given ==
    ASSUME given \in Seq(Nat), NEW s, GiveToVsp(s)
    PROVE  given' \in Seq(Nat)
<1>1. CASE s # followed
  BY <1>1 DEF GiveToVsp
<1>2. CASE s = followed
  <2>1. PICK size \in Sizes, cut \in Cuts :
           given' = IF heads' # heads THEN HeadAndRest(size, cut) ELSE <<size>>
    BY <1>2 DEF GiveToVsp
  <2>2. size \in Nat /\ cut \in Nat
    BY SizesAssumption
  <2>3. 12 + Least(size, cut) \in Nat /\ size - Least(size, cut) \in Nat
    BY <2>2 DEF Least
  <2>4. <<size>> \in Seq(Nat) /\ HeadAndRest(size, cut) \in Seq(Nat)
    BY <2>2, <2>3 DEF HeadAndRest
  <2>5. QED
    BY <2>1, <2>4
<1>3. QED
  BY <1>1, <1>2

(* Every step of a SSRLocal whose plugin is auth_simple.                   *)
LEMMA AuthSimpleStep ==
    ASSUME ChooserInv, AuthSimpleNext
    PROVE  ChooserInv'
<1>0. HeadsInv /\ FramesInv /\ given \in Seq(Nat)
  BY DEF ChooserInv
<1>1. ASSUME NEW s \in Session, NewPlugin(s), UNCHANGED given, UNCHANGED frameVars
      PROVE  ChooserInv'
  <2>1. HeadsInv'
    BY <1>0, <1>1, NewPluginStep
  <2>2. FramesInv'
    BY <1>0, <1>1, FramesLeftAlone
  <2>3. QED
    BY <1>0, <1>1, <2>1, <2>2 DEF ChooserInv
<1>2. ASSUME NEW s \in Session, BeforeEncrypt(s) \/ BeforeEncryptWrap(s), GiveToVsp(s),
             UNCHANGED frameVars
      PROVE  ChooserInv'
  <2>1. HeadsInv'
    BY <1>0, <1>2, AuthEncryptStep, AuthWrapStep
  <2>2. FramesInv'
    BY <1>0, <1>2, FramesLeftAlone
  <2>3. given' \in Seq(Nat)
    BY <1>0, <1>2, Given
  <2>4. QED
    BY <2>1, <2>2, <2>3 DEF ChooserInv
<1>3. ASSUME VspEncrypt, UNCHANGED vars
      PROVE  ChooserInv'
  <2>1. given # <<>> /\ BeginEncrypt(Head(given)) /\ given' = Tail(given)
    BY <1>3 DEF VspEncrypt
  <2>2. Head(given) \in Nat /\ Tail(given) \in Seq(Nat)
    BY <1>0, <2>1
  <2>3. FramesInv'
    BY <1>0, <2>1, <2>2, BeginEncryptStep
  <2>4. HeadsInv'
    BY <1>0, <1>3, NextHeads
  <2>5. QED
    BY <2>1, <2>2, <2>3, <2>4 DEF ChooserInv
<1>4. ASSUME FramesStep, UNCHANGED <<given, vars>>
      PROVE  ChooserInv'
  <2>1. FramesInv'
    BY <1>0, <1>4, FramesStepKept
  <2>2. HeadsInv'
    BY <1>0, <1>4, NextHeads
  <2>3. QED
    BY <1>0, <1>4, <2>1, <2>2 DEF ChooserInv
<1>5. QED
  BY <1>1, <1>2, <1>3, <1>4 DEF AuthSimpleNext

(* Every step of a SSRLocal, whichever its plugin.                         *)
LEMMA ChooserStep == ChooserInv /\ [ChooserNext]_chooserVars => ChooserInv'
<1> SUFFICES ASSUME ChooserInv, [ChooserNext]_chooserVars PROVE ChooserInv'
  OBVIOUS
<1>1. CASE AuthSimpleNext
  BY <1>1, AuthSimpleStep
<1>2. CASE FramesNext /\ UNCHANGED <<given, vars>>
  BY <1>2, NextFrames, NextHeads DEF ChooserInv
<1>3. CASE UNCHANGED chooserVars
  BY <1>3, FramesLeftAlone, NextHeads DEF ChooserInv, chooserVars
<1>4. QED
  BY <1>1, <1>2, <1>3 DEF ChooserNext

(* Whichever plugin its profile names: the heads of a SSRLocal's sessions  *)
(* are unique, and the frames of any one of them, with heads of 12 bytes   *)
(* and a part of the data apart from the rest under auth_simple, fit their *)
(* buffer and are all returned.                                            *)
THEOREM ChosenPluginKeepsItsPromises ==
    ChooserSpec => [](UniqueHeads /\ RepeatedHeadIsNewClient /\ EncoderFits /\ Aligned /\ NothingHeldBack)
<1>1. ChooserInit => ChooserInv
  BY InitHeads, InitFrames DEF ChooserInit, ChooserInv
<1>2. ChooserInv => UniqueHeads /\ RepeatedHeadIsNewClient /\ EncoderFits /\ Aligned /\ NothingHeldBack
  BY RoomForFrames DEF ChooserInv, HeadsInv, FramesInv
<1>3. QED
  BY <1>1, <1>2, ChooserStep, PTL DEF ChooserSpec
=============================================================================
