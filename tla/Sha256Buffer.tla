---------------------------- MODULE Sha256Buffer ----------------------------
(***************************************************************************)
(* Class Sha256 of lang/sif.cc around its compression function: update()    *)
(* collects the message in a buffer that is handed to transform() whenever  *)
(* it is full, finish() pads the message.  The buffer is an array that is   *)
(* never cleared, so what transform() sees of it may be stale.              *)
(*                                                                          *)
(* A message byte is its position; what transform() computes is left out,   *)
(* but the model keeps every byte it was fed.                               *)
(***************************************************************************)
EXTENDS Integers, Sequences

CONSTANTS
  BlockSize,     \* sizeof(buffer), 64
  LengthSize,    \* bytes of the bit count, 8
  MaxMessage     \* bound: bytes of a message

ASSUME SizesAssumption ==
  /\ BlockSize \in Nat /\ LengthSize \in Nat /\ MaxMessage \in Nat
  /\ LengthSize > 0 /\ LengthSize < BlockSize

VARIABLES
  pc,       \* "open", then the parts of finish(): "marked", "spilled", "done"
  buffer,
  size,     \* buffer_size
  count,    \* bit_count, in bytes
  rest,     \* bytes of the current update() not yet copied
  fed       \* what transform() has been given

vars == <<pc, buffer, size, count, rest, fed>>

Byte(i) == [kind |-> "message", at |-> i, n |-> 0]
Mark == [kind |-> "mark", at |-> 0, n |-> 0]               \* 0x80
Zero == [kind |-> "zero", at |-> 0, n |-> 0]
Length(i, n) == [kind |-> "length", at |-> i, n |-> n]   \* i-th byte of the bit count of n bytes

Room == BlockSize - LengthSize

Init ==
  /\ pc = "open"
  /\ buffer = [i \in 1 .. BlockSize |-> Zero]
  /\ size = 0 /\ count = 0 /\ rest = 0 /\ fed = <<>>

Update(n) ==
  /\ pc = "open" /\ rest = 0
  /\ count' = count + n
  /\ rest' = n
  /\ UNCHANGED <<pc, buffer, size, fed>>

\* The buffer is transformed when the next byte does not fit.
TakeLate(filled, upTo) ==
  /\ buffer' = filled
  /\ IF upTo > BlockSize
     THEN fed' = fed \o filled /\ size' = 0
     ELSE fed' = fed /\ size' = upTo

(* The buffer as it becomes, transformed when that fills it.                *)
Take(filled, upTo) ==
  /\ buffer' = filled
  /\ IF upTo = BlockSize
     THEN fed' = fed \o filled /\ size' = 0
     ELSE fed' = fed /\ size' = upTo

(* One round of the loop in update().                                       *)
Copy ==
  /\ rest > 0
  /\ LET n == IF rest < BlockSize - size THEN rest ELSE BlockSize - size
     IN /\ Take([i \in 1 .. BlockSize |->
                   IF i > size /\ i <= size + n THEN Byte(count - rest + i - size) ELSE buffer[i]],
                size + n)
        /\ rest' = rest - n
  /\ UNCHANGED <<pc, count>>

PutMark ==
  /\ pc = "open" /\ rest = 0
  /\ buffer' = [buffer EXCEPT ![size + 1] = Mark]
  /\ size' = size + 1
  /\ pc' = "marked"
  /\ UNCHANGED <<count, rest, fed>>

\* One byte too many is left in front of the bit count.
SpillLate ==
  /\ pc = "marked"
  /\ IF size > Room + 1
     THEN Take([i \in 1 .. BlockSize |-> IF i > size THEN Zero ELSE buffer[i]], BlockSize)
     ELSE UNCHANGED <<buffer, size, fed>>
  /\ pc' = "spilled"
  /\ UNCHANGED <<count, rest>>

(* A block of its own for the end of a message that leaves no room for the  *)
(* bit count.                                                               *)
Spill ==
  /\ pc = "marked"
  /\ IF size > Room
     THEN Take([i \in 1 .. BlockSize |-> IF i > size THEN Zero ELSE buffer[i]], BlockSize)
     ELSE UNCHANGED <<buffer, size, fed>>
  /\ pc' = "spilled"
  /\ UNCHANGED <<count, rest>>

\* What is between the message and the bit count is left as it was.
PutLengthStale ==
  /\ pc = "spilled"
  /\ Take([i \in 1 .. BlockSize |-> IF i <= Room THEN buffer[i] ELSE Length(i - Room, count)],
          BlockSize)
  /\ pc' = "done"
  /\ UNCHANGED <<count, rest>>

PutLength ==
  /\ pc = "spilled"
  /\ Take([i \in 1 .. BlockSize |->
             IF i <= size THEN buffer[i] ELSE IF i <= Room THEN Zero ELSE Length(i - Room, count)],
          BlockSize)
  /\ pc' = "done"
  /\ UNCHANGED <<count, rest>>

Finished == pc = "done" /\ UNCHANGED vars

Next ==
  \/ \E n \in 0 .. MaxMessage - count : Update(n)
  \/ Copy \/ PutMark \/ Spill \/ PutLength \/ Finished

Spec == Init /\ [][Next]_vars

(***************************************************************************)
(* Properties.                                                              *)
(***************************************************************************)

Whole(n) == \E k \in 0 .. n : n = k * BlockSize   \* a number of blocks

(* Every byte taken so far is fed to transform() or waits in the buffer,    *)
(* once and in order, in however many pieces it came (sif.cc:130-146).      *)
BytesInOrder ==
  pc = "open" =>
    /\ Whole(Len(fed))
    /\ Len(fed) + size + rest = count /\ size < BlockSize
    /\ \A i \in 1 .. Len(fed) : fed[i] = Byte(i)
    /\ \A i \in 1 .. size : buffer[i] = Byte(Len(fed) + i)

(* What has been fed at the end is the message as the standard pads it: a   *)
(* mark, as few zeros as make whole blocks, and the length                  *)
(* (sif.cc:148-167).                                                        *)
Padded ==
  pc = "done" =>
    LET total == Len(fed)
    IN /\ Whole(total)
       /\ total >= count + 1 + LengthSize /\ total < count + 1 + LengthSize + BlockSize
       /\ \A i \in 1 .. total :
            fed[i] = IF i <= count THEN Byte(i)
                     ELSE IF i = count + 1 THEN Mark
                     ELSE IF i <= total - LengthSize THEN Zero
                     ELSE Length(i - total + LengthSize, count)
=============================================================================
