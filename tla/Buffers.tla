------------------------------ MODULE Buffers -------------------------------
(***************************************************************************)
(* The buffers of a game: the array of them and its handles                *)
(* (bufferstruct.cpp, AssetArray.h) and a buffer's bytes, its type and its *)
(* seek position (buffers_internal.cpp).  The loops that pad up to the     *)
(* buffer's alignment are steps of their own.                              *)
(*                                                                         *)
(* A value of a fixed width is the sequence of its bytes.  buffer_fast     *)
(* is treated as buffer_fixed throughout the code.  Strings, files, fills, *)
(* copies and checksums are left out, and so are buffers without a byte,   *)
(* on which the code computes modulo 0 and 0 - 1.                          *)
(***************************************************************************)
EXTENDS Integers, Sequences, FiniteSets

CONSTANTS MaxBuffers,  \* bound on the handles
          MaxSize,     \* bound on the bytes of a buffer
          Alignments,  \* the alignments in use
          Types,       \* the buffer types in use
          Data         \* the values written, as their bytes

ASSUME BuffersAssumption ==
  /\ MaxBuffers \in Nat /\ MaxSize \in Nat \ {0}
  /\ Alignments \subseteq Nat \ {0}
  /\ Types \subseteq {"fixed", "grow", "wrap"}
  /\ Data \subseteq Seq(Nat) \ {<<>>}

VARIABLES buffers,  \* the array: buffers[h] is a buffer or NoBuffer
          op,       \* the call in progress: its padding is not done
          result,   \* what the last buffer_read gave
          tape      \* history: tape[h]: the values written since position 0, and
                    \* how many of them have been read again

vars == <<buffers, op, result, tape>>

NoBuffer == [data |-> <<>>, position |-> 0, alignment |-> 0, type |-> "none"]
Idle     == [call |-> "none", h |-> 0, bytes |-> <<>>, width |-> 0]
Over     == {"none", "exit"}   \* no call is in progress, or the program has ended
NoResult == [want |-> <<>>, have |-> <<>>]
Garbage  == -1   \* the byte read where there is none
Writing  == -1   \* tape[h].read while values are added
Lost     == [values |-> <<>>, read |-> -2]

Init == buffers = <<>> /\ op = Idle /\ result = NoResult /\ tape = <<>>

Live == {h \in DOMAIN buffers : buffers[h] # NoBuffer}

-----------------------------------------------------------------------------
(* BinaryBuffer.  data[i + 1] is the byte at offset i. *)

GetSize(b) == Len(b.data)

Resize(b, size) ==
  [b EXCEPT !.data = [i \in 1 .. size |-> IF i <= GetSize(b) THEN b.data[i] ELSE 0]]

\* Growing buffers always have a byte at the seek position, wrapping ones wrap
\* it round, fixed ones keep it on the last byte.
Seek(b, offset) ==
  LET c    == IF b.type = "grow" /\ offset >= GetSize(b) THEN Resize(b, offset + 1) ELSE b
      last == GetSize(c) - 1
  IN  [c EXCEPT !.position =
         CASE offset < 0                      -> 0
           [] offset >= 0 /\ b.type = "wrap"  -> offset % GetSize(c)
           [] offset >= 0 /\ b.type # "wrap"  -> IF offset <= last THEN offset ELSE last]

ByteRead(b) == LET c == Seek(b, b.position) IN c.data[c.position + 1]

ReadByte(b) == LET c == Seek(b, b.position) IN Seek(c, c.position + 1)

WriteByte(b, byte) ==
  LET c == Seek(b, b.position)
  IN  Seek([c EXCEPT !.data[c.position + 1] = byte], c.position + 1)

\* std::copy of bytes to the offset, as far as there is room.
Put(data, offset, bytes) ==
  [i \in DOMAIN data |->
     IF i - offset \in DOMAIN bytes THEN bytes[i - offset] ELSE data[i]]

\* (Mutant) The part that goes to the start of the buffer is a byte too long.
Wrapped_OneMore(b, bytes, offset) ==
  LET n     == GetSize(b)
      o     == offset % n
      extra == Len(bytes) + o - n
      cut   == IF extra <= 0 THEN Len(bytes) ELSE Len(bytes) - extra - 1
  IN  Put(Put(b.data, o, SubSeq(bytes, 1, cut)), 0, SubSeq(bytes, cut + 1, Len(bytes)))

\* write_to_buffer for a wrapping buffer: bytes that do not fit go to the start;
\* of more bytes than the buffer has, the last ones, the part before the end first.
Wrapped(b, bytes, offset) ==
  LET n     == GetSize(b)
      o     == offset % n
      extra == Len(bytes) + o - n
      from  == IF Len(bytes) > n THEN Len(bytes) - n ELSE 0
      cut   == IF extra <= 0 THEN Len(bytes) ELSE
               IF Len(bytes) > n THEN Len(bytes) - o ELSE Len(bytes) - extra
  IN  Put(Put(b.data, o, SubSeq(bytes, from + 1, cut)), 0, SubSeq(bytes, cut + 1, Len(bytes)))

write_to_buffer(b, bytes, offset) ==
  IF b.type = "wrap" THEN [b EXCEPT !.data = Wrapped(b, bytes, offset)] ELSE
  IF b.type = "fixed" THEN [b EXCEPT !.data = Put(b.data, offset, bytes)] ELSE
  LET c == IF Len(bytes) + offset > GetSize(b) THEN Resize(b, Len(bytes) + offset) ELSE b
  IN  [c EXCEPT !.data = Put(c.data, offset, bytes)]

\* buffer_peek of a value of a fixed width: nothing is checked.
buffer_peek(b, offset, width) ==
  [i \in 1 .. width |-> IF offset + i \in DOMAIN b.data THEN b.data[offset + i] ELSE Garbage]

\* Bound: a growing buffer is not taken past MaxSize bytes.
Bounded(b, offset) == b.type = "grow" => offset < MaxSize

-----------------------------------------------------------------------------
(* What is to be read back (history). *)

\* Where the values of a tape end when each starts on an aligned offset.
AlignedUp(n, a)       == a * ((n + a - 1) \div a)
TapeEnd(values, a)    ==
  LET end[k \in 0 .. Len(values)] ==
        IF k = 0 THEN 0 ELSE AlignedUp(end[k - 1], a) + Len(values[k])
  IN  end[Len(values)]
RoomFor(b, values, v) == b.type = "grow" \/ TapeEnd(Append(values, v), b.alignment) <= GetSize(b)

\* Values are written one after the other from position 0 and, after a seek to 0,
\* read by their widths; anything else done to the buffer gives up the tape.
Recorded(h, v) ==
  LET t == tape[h]
      values == IF t.read = 0 THEN <<>> ELSE t.values
  IN  IF t.read \in {0, Writing} /\ RoomFor(buffers[h], values, v)
      THEN [values |-> Append(values, v), read |-> Writing] ELSE Lost

Expected(h, width) ==
  LET t == tape[h]
  IN  IF t.read \in 0 .. Len(t.values) - 1 /\ Len(t.values[t.read + 1]) = width
      THEN t.values[t.read + 1] ELSE <<>>

-----------------------------------------------------------------------------
\* make_new_buffer: the first free slot (get_free_buffer), or a new one.
buffer_create(size, type, alignment) ==
  LET free == {h \in DOMAIN buffers : buffers[h] = NoBuffer}
      b    == [data |-> [i \in 1 .. size |-> 0], position |-> 0,
               alignment |-> alignment, type |-> type]
      t    == [values |-> <<>>, read |-> Writing]
  IN  IF free = {}
      THEN /\ Len(buffers) < MaxBuffers
           /\ buffers' = Append(buffers, b)
           /\ tape' = Append(tape, t)
      ELSE LET h == CHOOSE h \in free : \A k \in free : h <= k
           IN  /\ buffers' = [buffers EXCEPT ![h] = b]
               /\ tape' = [tape EXCEPT ![h] = t]

buffer_delete(h) ==
  /\ buffers' = [buffers EXCEPT ![h] = NoBuffer]
  /\ tape' = [tape EXCEPT ![h] = Lost]

\* The seek position stays where it was, perhaps past the end.
buffer_resize(h, size) ==
  /\ buffers' = [buffers EXCEPT ![h] = Resize(@, size)]
  /\ tape' = [tape EXCEPT ![h] = Lost]

SeekBase(b) == {0, GetSize(b) - 1, b.position}

buffer_seek(h, base, offset) ==
  /\ Bounded(buffers[h], base + offset)
  /\ buffers' = [buffers EXCEPT ![h] = Seek(@, base + offset)]
  /\ tape' = [tape EXCEPT ![h] =
                IF base + offset <= 0 THEN [values |-> @.values, read |-> 0] ELSE Lost]

buffer_poke(h, offset, bytes, resize) ==
  LET b == buffers[h]
  IN  /\ Bounded(b, offset + Len(bytes) - 1)
      /\ buffers' = [buffers EXCEPT ![h] =
           IF Len(bytes) + offset > GetSize(b) /\ (b.type = "fixed" \/ (b.type = "grow" /\ ~resize))
           THEN b ELSE write_to_buffer(b, bytes, offset)]
      /\ tape' = [tape EXCEPT ![h] = Lost]

Call ==
  /\ op = Idle
  /\ \/ \E size \in 1 .. MaxSize, type \in Types, a \in Alignments : buffer_create(size, type, a)
     \/ \E h \in Live :
          \/ buffer_delete(h)
          \/ \E size \in 1 .. MaxSize : buffer_resize(h, size)
          \/ \E base \in SeekBase(buffers[h]), offset \in -1 .. 1 : buffer_seek(h, base, offset)
          \/ \E offset \in 0 .. MaxSize, bytes \in Data, resize \in BOOLEAN :
               buffer_poke(h, offset, bytes, resize)
  /\ result' = NoResult
  /\ UNCHANGED op

\* buffer_write and buffer_read begin; padding comes first.
Begin ==
  /\ op = Idle
  /\ \E h \in Live, bytes \in Data :
     /\ Bounded(buffers[h], AlignedUp(buffers[h].position, buffers[h].alignment) + Len(bytes))
     /\ \/ op' = [call |-> "write", h |-> h, bytes |-> bytes, width |-> Len(bytes)]
        \/ op' = [call |-> "read", h |-> h, bytes |-> <<>>, width |-> Len(bytes)]
  /\ result' = NoResult
  /\ UNCHANGED <<buffers, tape>>

Current == buffers[op.h]
Aligned == Current.position % Current.alignment = 0

Padding == op.call \notin Over /\ ~Aligned

\* A round of the loop with which buffer_write pads, ...
PadWrite ==
  /\ Padding /\ op.call = "write"
  /\ buffers' = [buffers EXCEPT ![op.h] = WriteByte(@, 0)]
  /\ UNCHANGED <<op, result, tape>>

\* ... and of the one with which buffer_read skips what was padded: a byte that is
\* not zero is a fatal error, which ends the program.
PadRead ==
  /\ Padding /\ op.call = "read"
  /\ op' = IF ByteRead(Current) = 0 THEN op ELSE [op EXCEPT !.call = "exit"]
  /\ buffers' = [buffers EXCEPT ![op.h] = ReadByte(@)]
  /\ UNCHANGED <<result, tape>>

\* The rest of buffer_write: the bytes, and on to what follows them.
FinishWrite ==
  /\ op.call = "write" /\ Aligned
  /\ buffers' = [buffers EXCEPT ![op.h] =
                   Seek(write_to_buffer(@, op.bytes, @.position), @.position + op.width)]
  /\ tape' = [tape EXCEPT ![op.h] = Recorded(op.h, op.bytes)]
  /\ op' = Idle
  /\ UNCHANGED result

\* (Mutant) The seek position stays.
FinishRead_NoSeek ==
  /\ op.call = "read" /\ Aligned
  /\ result' = [want |-> Expected(op.h, op.width),
                have |-> buffer_peek(Current, Current.position, op.width)]
  /\ tape' = [tape EXCEPT ![op.h] =
                IF Expected(op.h, op.width) # <<>> THEN [values |-> @.values, read |-> @.read + 1] ELSE Lost]
  /\ op' = Idle
  /\ UNCHANGED buffers

\* The rest of buffer_read.
FinishRead ==
  /\ op.call = "read" /\ Aligned
  /\ result' = [want |-> Expected(op.h, op.width),
                have |-> buffer_peek(Current, Current.position, op.width)]
  /\ buffers' = [buffers EXCEPT ![op.h] = Seek(@, @.position + op.width)]
  /\ tape' = [tape EXCEPT ![op.h] =
                IF Expected(op.h, op.width) # <<>> THEN [values |-> @.values, read |-> @.read + 1] ELSE Lost]
  /\ op' = Idle

Step == PadWrite \/ PadRead \/ FinishWrite \/ FinishRead

Next == Call \/ Begin \/ Step

\* A call that has begun goes on.
Spec == Init /\ [][Next]_vars /\ WF_vars(Step)

-----------------------------------------------------------------------------
\* Values written one after the other are what is read after a seek to the start,
\* in their order, and reading them does not end the program: buffer_read skips
\* what buffer_write padded, growing keeps the bytes, and no value is laid over
\* another (buffer_write, buffer_read, Seek).
ReadsBack ==
  /\ result.want # <<>> => result.have = result.want
  /\ op.call = "exit" => Expected(op.h, op.width) = <<>>

\* The buffer after WriteByte of every byte, from an offset on.
Bytewise(b, bytes, offset) ==
  LET after[k \in 0 .. Len(bytes)] ==
        IF k = 0 THEN Seek(b, offset) ELSE WriteByte(after[k - 1], bytes[k])
  IN  after[Len(bytes)]

\* write_to_buffer's block copies into a wrapping buffer leave what WriteByte of each
\* byte would, for values that are no longer than the buffer, wherever they start
\* and wherever it ends.
WrapsAround ==
  \A h \in Live : buffers[h].type = "wrap" =>
    \A bytes \in Data, offset \in 0 .. 2 * MaxSize :
      Len(bytes) <= GetSize(buffers[h]) =>
        write_to_buffer(buffers[h], bytes, offset).data
          = Bytewise(buffers[h], bytes, offset).data

\* (Violated) "we can just find out the subset of the bytes that we will be writing"
\* (write_to_buffer, bufferstruct.cpp:285-286): of a value longer than the buffer,
\* too, the bytes left are those that byte after byte would leave.
WrapsLonger ==
  \A h \in Live : buffers[h].type = "wrap" =>
    \A bytes \in Data, offset \in 0 .. 2 * MaxSize :
      write_to_buffer(buffers[h], bytes, offset).data
        = Bytewise(buffers[h], bytes, offset).data

\* (Violated) "If the bytes being written go beyond the end of the buffer for any of
\* the four possible types, the write is aborted" (buffers.h:541-542): buffer_poke
\* then leaves the buffer as it was.
PokeAborted ==
  [][\A h \in Live, offset \in 0 .. MaxSize, bytes \in Data :
       /\ op = Idle /\ buffer_poke(h, offset, bytes, FALSE)
       /\ offset + Len(bytes) > GetSize(buffers[h])
       => buffers'[h] = buffers[h]]_vars

=============================================================================
