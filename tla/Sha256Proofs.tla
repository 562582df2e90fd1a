---------------------------- MODULE Sha256Proofs ----------------------------
(***************************************************************************)
(* For buffers, bit counts and messages of any size, and any way to cut a   *)
(* message into pieces: what the compression function is fed is the padded  *)
(* message.                                                                 *)
(***************************************************************************)
EXTENDS Sha256Buffer, TLAPS

Bytes == [kind : {"message", "mark", "zero", "length"}, at : Int, n : Int]

(* The i-th byte of the padded message in front of the bit count.           *)
Text(i) == IF i <= count THEN Byte(i) ELSE IF i = count + 1 THEN Mark ELSE Zero

Types ==
  /\ pc \in {"open", "marked", "spilled", "done"}
  /\ buffer \in [1 .. BlockSize -> Bytes]
  /\ size \in Nat /\ count \in Nat /\ rest \in Nat
  /\ fed \in Seq(Bytes)

(* What has been fed and what waits are the front of the padded message.    *)
InOrder ==
  /\ \A i \in 1 .. Len(fed) : fed[i] = Text(i)
  /\ \A i \in 1 .. size : buffer[i] = Text(Len(fed) + i)

OpenInv ==
  pc = "open" => Len(fed) + size + rest = count /\ size < BlockSize

MarkedInv ==
  pc = "marked" => Len(fed) + size = count + 1 /\ size <= BlockSize /\ size > 0 /\ rest = 0

SpilledInv ==
  pc = "spilled" =>
    /\ size <= Room /\ rest = 0
    /\ \/ Len(fed) + size = count + 1
       \/ size = 0 /\ Len(fed) > count /\ Len(fed) <= count + LengthSize

(* In front of the end every byte fed is in order, and whole blocks are.    *)
Running == pc # "done" => InOrder /\ Whole(Len(fed))

BufferInv == Types /\ OpenInv /\ MarkedInv /\ SpilledInv /\ Running /\ Padded /\ (pc = "done" => rest = 0)

-----------------------------------------------------------------------------

(* A full buffer behind what has been fed is one block more.                *)
LEMMA OneBlockMore ==
  ASSUME NEW filled \in [1 .. BlockSize -> Bytes], fed \in Seq(Bytes), Whole(Len(fed))
  PROVE  /\ fed \o filled \in Seq(Bytes)
         /\ Len(fed \o filled) = Len(fed) + BlockSize
         /\ Whole(Len(fed \o filled))
         /\ \A i \in 1 .. Len(fed) : (fed \o filled)[i] = fed[i]
         /\ \A i \in 1 .. BlockSize : (fed \o filled)[Len(fed) + i] = filled[i]
<1>1. filled \in Seq(Bytes) /\ Len(filled) = BlockSize
  BY SizesAssumption
<1>2. fed \o filled \in Seq(Bytes) /\ Len(fed \o filled) = Len(fed) + BlockSize
  BY <1>1
<1>3. Whole(Len(fed) + BlockSize)
  <2>1. PICK k \in 0 .. Len(fed) : Len(fed) = k * BlockSize
    BY DEF Whole
  <2>2. Len(fed) \in Nat
    OBVIOUS
  <2>3. (k + 1) * BlockSize = Len(fed) + BlockSize
    BY <2>1, <2>2, SizesAssumption
  <2>4. k + 1 \in 0 .. Len(fed) + BlockSize
    BY <2>1, <2>2, SizesAssumption
  <2> QED
    BY <2>3, <2>4 DEF Whole
<1>4. \A i \in 1 .. Len(fed) : (fed \o filled)[i] = fed[i]
  BY <1>1
<1>5. \A i \in 1 .. BlockSize : (fed \o filled)[Len(fed) + i] = filled[i]
  BY <1>1, SizesAssumption
<1> QED
  BY <1>2, <1>3, <1>4, <1>5

LEMMA InitBuffer == Init => BufferInv
<1> SUFFICES ASSUME Init PROVE BufferInv
  OBVIOUS
<1>1. Types
  BY SizesAssumption DEF Init, Types, Bytes, Zero
<1>2. Len(fed) = 0 /\ Whole(0)
  BY SizesAssumption DEF Init, Whole
<1> QED
  BY <1>1, <1>2, SizesAssumption
  DEF Init, BufferInv, OpenInv, MarkedInv, SpilledInv, Running, InOrder, Padded

LEMMA UpdateStep ==
  ASSUME BufferInv, NEW n \in 0 .. MaxMessage - count, Update(n)
  PROVE  BufferInv'
<1>1. n \in Nat /\ pc = "open" /\ pc' = "open" /\ count' = count + n /\ rest' = n /\ rest = 0
  BY SizesAssumption DEF Update, BufferInv, Types
<1>2. Types'
  BY <1>1 DEF BufferInv, Types, Update
<1>3. InOrder'
  BY <1>1, SizesAssumption DEF BufferInv, Types, Running, InOrder, OpenInv, Update, Text
<1>4. OpenInv' /\ Running'
  BY <1>1, <1>3 DEF BufferInv, Types, Running, OpenInv, Update, Whole
<1> QED
  BY <1>1, <1>2, <1>4 DEF BufferInv, MarkedInv, SpilledInv, Padded

(* A piece is copied up to the end of the buffer or its own.                *)
LEMMA CopyStep == BufferInv /\ Copy => BufferInv'
<1> SUFFICES ASSUME BufferInv, Copy PROVE BufferInv'
  OBVIOUS
<1> DEFINE n == IF rest < BlockSize - size THEN rest ELSE BlockSize - size
           filled == [i \in 1 .. BlockSize |->
                        IF i > size /\ i <= size + n THEN Byte(count - rest + i - size)
                        ELSE buffer[i]]
<1>1. /\ pc = "open" /\ pc' = "open" /\ count' = count /\ rest > 0 /\ rest' = rest - n
      /\ Take(filled, size + n) /\ Types /\ Running /\ InOrder /\ Whole(Len(fed))
      /\ Len(fed) + size + rest = count /\ size < BlockSize
  BY DEF Copy, BufferInv, Types, OpenInv, MarkedInv, SpilledInv, Running
<1>2. n \in Nat /\ n > 0 /\ n <= rest /\ size + n <= BlockSize /\ Len(fed) \in Nat
  BY <1>1, SizesAssumption DEF Types
<1>3. filled \in [1 .. BlockSize -> Bytes]
  BY <1>1, <1>2, SizesAssumption DEF Types, Bytes, Byte
<1>4. ASSUME NEW i \in 1 .. size + n PROVE filled[i] = Text(Len(fed) + i)
  <2>1. i \in 1 .. BlockSize /\ i \in Nat /\ size \in Nat /\ count \in Nat /\ rest \in Nat
    BY <1>1, <1>2, SizesAssumption DEF Types
  <2>2. CASE i <= size
    <3>1. filled[i] = buffer[i] /\ i \in 1 .. size
      BY <2>1, <2>2
    <3> QED
      BY <1>1, <3>1 DEF InOrder
  <2>3. CASE i > size
    <3>1. filled[i] = Byte(count - rest + i - size)
      BY <2>1, <2>3
    <3>2. count - rest + i - size = Len(fed) + i /\ Len(fed) + i <= count
      BY <1>1, <1>2, <2>1
    <3> QED
      BY <3>1, <3>2 DEF Text
  <2> QED
    BY <2>1, <2>2, <2>3
<1> HIDE DEF n, filled
<1>5. CASE size + n = BlockSize
  <2>1. fed' = fed \o filled /\ size' = 0 /\ buffer' = filled
    BY <1>1, <1>5 DEF Take
  <2>2. /\ fed' \in Seq(Bytes) /\ Len(fed') = Len(fed) + BlockSize /\ Whole(Len(fed'))
        /\ \A i \in 1 .. Len(fed) : fed'[i] = fed[i]
        /\ \A i \in 1 .. BlockSize : fed'[Len(fed) + i] = filled[i]
    BY <1>1, <1>3, <2>1, OneBlockMore DEF Types
  <2>3. ASSUME NEW i \in 1 .. Len(fed') PROVE fed'[i] = Text(i)
    <3>1. CASE i <= Len(fed)
      BY <1>1, <1>2, <2>2, <3>1 DEF InOrder
    <3>2. CASE i > Len(fed)
      <4>1. i - Len(fed) \in 1 .. BlockSize /\ i = Len(fed) + (i - Len(fed))
        BY <1>2, <2>2, <3>2, SizesAssumption
      <4> QED
        BY <1>4, <1>5, <2>2, <4>1
    <3> QED
      BY <1>2, <2>2, <3>1, <3>2
  <2>4. InOrder' /\ Running'
    BY <1>1, <2>1, <2>2, <2>3 DEF InOrder, Running, Text, Whole
  <2>5. Types'
    BY <1>1, <1>2, <1>3, <2>1, <2>2 DEF Types
  <2>6. OpenInv'
    <3>1. Len(fed) + BlockSize + 0 + (rest - n) = count /\ 0 < BlockSize
      BY <1>1, <1>2, <1>5, SizesAssumption DEF Types
    <3> QED
      BY <1>1, <2>1, <2>2, <3>1 DEF OpenInv
  <2> QED
    BY <1>1, <2>4, <2>5, <2>6 DEF BufferInv, MarkedInv, SpilledInv, Padded
<1>6. CASE size + n # BlockSize
  <2>1. fed' = fed /\ size' = size + n /\ buffer' = filled
    BY <1>1, <1>6 DEF Take
  <2>2. InOrder' /\ Running'
    BY <1>1, <1>4, <2>1 DEF InOrder, Running, Text, Whole
  <2>3. Types'
    BY <1>1, <1>2, <1>3, <2>1 DEF Types
  <2>4. OpenInv'
    BY <1>1, <1>2, <1>6, <2>1, SizesAssumption DEF Types, OpenInv
  <2> QED
    BY <1>1, <2>2, <2>3, <2>4 DEF BufferInv, MarkedInv, SpilledInv, Padded
<1> QED
  BY <1>5, <1>6

LEMMA PutMarkStep == BufferInv /\ PutMark => BufferInv'
<1> SUFFICES ASSUME BufferInv, PutMark PROVE BufferInv'
  OBVIOUS
<1>1. /\ pc = "open" /\ pc' = "marked" /\ rest = 0 /\ rest' = 0 /\ count' = count
      /\ fed' = fed /\ size' = size + 1 /\ buffer' = [buffer EXCEPT ![size + 1] = Mark]
      /\ Types /\ InOrder /\ Whole(Len(fed)) /\ Len(fed) + size = count /\ size < BlockSize
  BY DEF PutMark, BufferInv, Types, OpenInv, Running
<1>2. Len(fed) \in Nat /\ Mark \in Bytes
  BY <1>1 DEF Types, Mark, Bytes
<1>3. buffer' \in [1 .. BlockSize -> Bytes] /\ size + 1 \in 1 .. BlockSize
  BY <1>1, <1>2, SizesAssumption DEF Types
<1>4. Types'
  BY <1>1, <1>3 DEF Types
<1>5. InOrder' /\ Running'
  <2>1. ASSUME NEW i \in 1 .. size + 1 PROVE buffer'[i] = Text(Len(fed) + i)
    <3>1. CASE i = size + 1
      <4>1. buffer'[i] = Mark
        BY <1>1, <1>3, <3>1 DEF Types
      <4>2. Len(fed) + i = count + 1 /\ count \in Nat
        BY <1>1, <1>2, <3>1 DEF Types
      <4> QED
        BY <4>1, <4>2 DEF Text
    <3>2. CASE i # size + 1
      <4>1. i \in 1 .. size
        BY <1>1, <3>2 DEF Types
      <4>2. buffer'[i] = buffer[i]
        BY <1>1, <1>3, <3>2, <4>1, SizesAssumption DEF Types
      <4> QED
        BY <1>1, <4>1, <4>2 DEF InOrder
    <3> QED
      BY <3>1, <3>2
  <2> QED
    BY <1>1, <2>1 DEF InOrder, Running, Text, Whole
<1>6. MarkedInv'
  BY <1>1, <1>2, SizesAssumption DEF Types, MarkedInv
<1> QED
  BY <1>1, <1>4, <1>5, <1>6 DEF BufferInv, OpenInv, SpilledInv, Padded

(* Zeros to the end of the block make room for the bit count.               *)
LEMMA SpillStep == BufferInv /\ Spill => BufferInv'
<1> SUFFICES ASSUME BufferInv, Spill PROVE BufferInv'
  OBVIOUS
<1>1. /\ pc = "marked" /\ pc' = "spilled" /\ rest = 0 /\ rest' = 0 /\ count' = count
      /\ Types /\ InOrder /\ Whole(Len(fed)) /\ Len(fed) + size = count + 1
      /\ size <= BlockSize /\ size > 0 /\ Len(fed) \in Nat
  BY DEF Spill, BufferInv, Types, MarkedInv, Running
<1>2. CASE size > Room
  <2> DEFINE filled == [i \in 1 .. BlockSize |-> IF i > size THEN Zero ELSE buffer[i]]
  <2>1. fed' = fed \o filled /\ size' = 0 /\ buffer' = filled
    BY <1>2 DEF Spill, Take
  <2>2. filled \in [1 .. BlockSize -> Bytes]
    BY <1>1 DEF Types, Bytes, Zero
  <2>3. \A i \in 1 .. BlockSize : filled[i] = Text(Len(fed) + i)
    BY <1>1, SizesAssumption DEF Types, InOrder, Text
  <2> HIDE DEF filled
  <2>4. /\ fed' \in Seq(Bytes) /\ Len(fed') = Len(fed) + BlockSize /\ Whole(Len(fed'))
        /\ \A i \in 1 .. Len(fed) : fed'[i] = fed[i]
        /\ \A i \in 1 .. BlockSize : fed'[Len(fed) + i] = filled[i]
    BY <1>1, <2>1, <2>2, OneBlockMore DEF Types
  <2>5. ASSUME NEW i \in 1 .. Len(fed') PROVE fed'[i] = Text(i)
    <3>1. CASE i <= Len(fed)
      BY <1>1, <2>4, <3>1 DEF InOrder
    <3>2. CASE i > Len(fed)
      <4>1. i - Len(fed) \in 1 .. BlockSize /\ i = Len(fed) + (i - Len(fed))
        BY <1>1, <2>4, <3>2, SizesAssumption
      <4> QED
        BY <2>3, <2>4, <4>1
    <3> QED
      BY <1>1, <2>4, <3>1, <3>2
  <2>6. InOrder' /\ Running'
    BY <1>1, <2>1, <2>4, <2>5 DEF InOrder, Running, Text, Whole
  <2>7. Types'
    BY <1>1, <2>1, <2>2, <2>4 DEF Types
  <2>8. SpilledInv'
    BY <1>1, <1>2, <2>1, <2>4, SizesAssumption DEF Types, SpilledInv, Room
  <2> QED
    BY <1>1, <2>6, <2>7, <2>8 DEF BufferInv, OpenInv, MarkedInv, Padded
<1>3. CASE ~(size > Room)
  <2>1. fed' = fed /\ size' = size /\ buffer' = buffer
    BY <1>3 DEF Spill
  <2>2. InOrder' /\ Running' /\ Types'
    BY <1>1, <2>1 DEF InOrder, Running, Text, Whole, Types
  <2>3. SpilledInv'
    BY <1>1, <1>3, <2>1, SizesAssumption DEF Types, SpilledInv, Room
  <2> QED
    BY <1>1, <2>2, <2>3 DEF BufferInv, OpenInv, MarkedInv, Padded
<1> QED
  BY <1>2, <1>3

LEMMA PutLengthStep == BufferInv /\ PutLength => BufferInv'
<1> SUFFICES ASSUME BufferInv, PutLength PROVE BufferInv'
  OBVIOUS
<1> DEFINE filled == [i \in 1 .. BlockSize |->
                        IF i <= size THEN buffer[i]
                        ELSE IF i <= Room THEN Zero ELSE Length(i - Room, count)]
<1>1. /\ pc = "spilled" /\ pc' = "done" /\ rest' = 0 /\ count' = count /\ Types /\ InOrder
      /\ Whole(Len(fed)) /\ size <= Room /\ Take(filled, BlockSize)
      /\ \/ Len(fed) + size = count + 1
         \/ size = 0 /\ Len(fed) > count /\ Len(fed) <= count + LengthSize
  BY DEF PutLength, BufferInv, Types, SpilledInv, Running
<1>2. /\ Len(fed) \in Nat /\ size \in Nat /\ count \in Nat /\ Room \in Nat
      /\ BlockSize = Room + LengthSize /\ LengthSize \in Nat /\ LengthSize > 0
  BY <1>1, SizesAssumption DEF Types, Room
<1>3. fed' = fed \o filled /\ size' = 0 /\ buffer' = filled
  BY <1>1 DEF Take
<1>4. filled \in [1 .. BlockSize -> Bytes]
  BY <1>1, <1>2 DEF Types, Bytes, Zero, Length
<1>5. /\ \A i \in 1 .. size : filled[i] = Text(Len(fed) + i)
      /\ \A i \in size + 1 .. Room : filled[i] = Zero
      /\ \A i \in Room + 1 .. BlockSize : filled[i] = Length(i - Room, count)
  BY <1>1, <1>2 DEF InOrder
<1> HIDE DEF filled
<1>6. /\ fed' \in Seq(Bytes) /\ Len(fed') = Len(fed) + BlockSize /\ Whole(Len(fed'))
      /\ \A i \in 1 .. Len(fed) : fed'[i] = fed[i]
      /\ \A i \in 1 .. BlockSize : fed'[Len(fed) + i] = filled[i]
  BY <1>1, <1>3, <1>4, OneBlockMore DEF Types
<1>7. Len(fed') >= count + 1 + LengthSize /\ Len(fed') < count + 1 + LengthSize + BlockSize
  BY <1>1, <1>2, <1>6
<1>8. ASSUME NEW i \in 1 .. Len(fed')
      PROVE  fed'[i] = IF i <= count THEN Byte(i)
                       ELSE IF i = count + 1 THEN Mark
                       ELSE IF i <= Len(fed') - LengthSize THEN Zero
                       ELSE Length(i - Len(fed') + LengthSize, count)
  <2>1. CASE i <= Len(fed)
    <3>1. fed'[i] = Text(i) /\ i \in Nat
      BY <1>1, <1>2, <1>6, <2>1 DEF InOrder
    <3>2. i <= Len(fed') - LengthSize
      BY <1>2, <1>6, <2>1
    <3> QED
      BY <3>1, <3>2 DEF Text
  <2>2. CASE i > Len(fed)
    <3> DEFINE j == i - Len(fed)
    <3>1. j \in 1 .. BlockSize /\ i = Len(fed) + j /\ fed'[i] = filled[j] /\ i \in Nat
      BY <1>2, <1>6, <2>2
    <3>2. CASE j <= size
      <4>1. fed'[i] = Text(i) /\ i <= Len(fed') - LengthSize
        BY <1>1, <1>2, <1>5, <1>6, <3>1, <3>2
      <4> QED
        BY <4>1 DEF Text
    <3>3. CASE j > size /\ j <= Room
      <4>1. fed'[i] = Zero
        BY <1>2, <1>5, <3>1, <3>3
      <4>2. i > count + 1 /\ i <= Len(fed') - LengthSize
        BY <1>1, <1>2, <1>6, <3>1, <3>3
      <4> QED
        BY <1>2, <3>1, <4>1, <4>2
    <3>4. CASE j > Room
      <4>1. fed'[i] = Length(j - Room, count)
        BY <1>2, <1>5, <3>1, <3>4
      <4>2. i > count + 1 /\ i > Len(fed') - LengthSize /\ j - Room = i - Len(fed') + LengthSize
        BY <1>1, <1>2, <1>6, <3>1, <3>4
      <4> QED
        BY SMTT(30), <1>2, <3>1, <4>1, <4>2
    <3> QED
      BY <1>2, <3>1, <3>2, <3>3, <3>4
  <2> QED
    BY <1>2, <1>6, <2>1, <2>2
<1>9. Padded'
  BY <1>1, <1>6, <1>7, <1>8 DEF Padded, Whole, Byte, Mark, Zero, Length
<1>10. Types'
  BY <1>1, <1>3, <1>4, <1>6 DEF Types
<1> QED
  BY <1>1, <1>9, <1>10 DEF BufferInv, OpenInv, MarkedInv, SpilledInv, Running

LEMMA BufferStutter == BufferInv /\ UNCHANGED vars => BufferInv'
BY DEF vars, BufferInv, Types, OpenInv, MarkedInv, SpilledInv, Running, InOrder, Text, Padded, Whole

LEMMA BufferInductive == Spec => []BufferInv
<1>1. ASSUME BufferInv, [Next]_vars PROVE BufferInv'
  <2>1. ASSUME NEW n \in 0 .. MaxMessage - count, Update(n) PROVE BufferInv'
    BY <1>1, <2>1, UpdateStep
  <2>2. CASE Finished
    BY <1>1, <2>2, BufferStutter DEF Finished
  <2> QED
    BY <1>1, <2>1, <2>2, CopyStep, PutMarkStep, SpillStep, PutLengthStep, BufferStutter DEF Next
<1> QED
  BY <1>1, InitBuffer, PTL DEF Spec

(* Whatever the pieces, every byte of the message so far is fed or waits,   *)
(* once and in order (sif.cc:130-146).                                      *)
THEOREM FedOnce == Spec => []BytesInOrder
<1>1. BufferInv => BytesInOrder
  <2> SUFFICES ASSUME BufferInv, pc = "open" PROVE BytesInOrder
    BY DEF BytesInOrder
  <2>1. Types /\ InOrder /\ Whole(Len(fed)) /\ Len(fed) + size + rest = count /\ size < BlockSize
    BY DEF BufferInv, Running, OpenInv
  <2>2. Len(fed) \in Nat /\ size \in Nat /\ rest \in Nat /\ count \in Nat
    BY <2>1 DEF Types
  <2>3. \A i \in 1 .. Len(fed) : fed[i] = Byte(i)
    BY <2>1, <2>2 DEF InOrder, Text
  <2>4. \A i \in 1 .. size : buffer[i] = Byte(Len(fed) + i)
    BY <2>1, <2>2 DEF InOrder, Text
  <2> QED
    BY <2>1, <2>3, <2>4 DEF BytesInOrder
<1> QED
  BY <1>1, BufferInductive, PTL

(* finish() feeds exactly the padded message, for any message length and    *)
(* whatever the buffer held before (sif.cc:148-167).                        *)
THEOREM PaddedToTheEnd == Spec => []Padded
<1>1. BufferInv => Padded
  BY DEF BufferInv
<1> QED
  BY <1>1, BufferInductive, PTL
=============================================================================
