---------------------------- MODULE BuffersProofs ----------------------------
(***************************************************************************)
(* Proofs about Buffers, for all sizes, alignments and values: what is     *)
(* written is read back, and the block copies of write_to_buffer do what   *)
(* as many calls of WriteByte do.                                          *)
(***************************************************************************)
EXTENDS Buffers, SequenceTheorems, WellFoundedInduction, TLAPS

-----------------------------------------------------------------------------
(* Division and alignment. *)

\* What the quotient and the remainder are.
LEMMA DivMod ==
  ASSUME NEW x \in Int, NEW a \in Nat \ {0}
  PROVE  /\ x \div a \in Int /\ x % a \in 0 .. a - 1
         /\ x = a * (x \div a) + (x % a)
BY SMT

\* A factor of a product is as large as the product is.
LEMMA TimesLess ==
  ASSUME NEW a \in Nat \ {0}, NEW p \in Int, NEW q \in Int, p <= q - 1
  PROVE  a * p <= a * q - a
<1>1. a * (q - 1 - p) >= 0
  BY SMT
<1>2. a * (q - 1 - p) = a * q - a - a * p
  BY SMT
<1> QED
  BY <1>1, <1>2, SMT

\* The remainder is known by what it leaves to a multiple.
LEMMA ModIs ==
  ASSUME NEW a \in Nat \ {0}, NEW q \in Int, NEW r \in 0 .. a - 1
  PROVE  (a * q + r) % a = r
<1> DEFINE x == a * q + r
           d == x \div a
           m == x % a
<1>1. x \in Int /\ d \in Int /\ m \in 0 .. a - 1 /\ x = a * d + m
  BY DivMod
<1>2. a * q + r = a * d + m
  BY <1>1
<1> HIDE DEF x, d, m
<1>3. ~(q <= d - 1)
  BY <1>1, <1>2, TimesLess, SMT
<1>4. ~(d <= q - 1)
  BY <1>1, <1>2, TimesLess, SMT
<1>5. q = d
  BY <1>1, <1>3, <1>4
<1>6. m = r
  BY <1>1, <1>2, <1>5
<1> QED
  BY <1>6 DEF m, x

LEMMA ModOfSmall ==
  ASSUME NEW n \in Nat \ {0}, NEW x \in 0 .. n - 1
  PROVE  x % n = x
<1>1. n * 0 + x = x
  OBVIOUS
<1>2. (n * 0 + x) % n = x
  BY ModIs
<1> QED
  BY <1>1, <1>2

LEMMA ModPastEnd ==
  ASSUME NEW n \in Nat \ {0}, NEW x \in n .. 2 * n - 1
  PROVE  x % n = x - n
<1>1. x - n \in 0 .. n - 1 /\ n * 1 + (x - n) = x
  OBVIOUS
<1>2. (n * 1 + (x - n)) % n = x - n
  BY <1>1, ModIs
<1> QED
  BY <1>1, <1>2

\* AlignedUp gives the first aligned offset from n on.
LEMMA AlignedUpIs ==
  ASSUME NEW n \in Nat, NEW a \in Nat \ {0}
  PROVE  /\ AlignedUp(n, a) \in Nat
         /\ n <= AlignedUp(n, a)
         /\ AlignedUp(n, a) % a = 0
         /\ \A m \in n .. AlignedUp(n, a) : m % a = 0 => m = AlignedUp(n, a)
<1> DEFINE q == (n + a - 1) \div a
           r == (n + a - 1) % a
           s == AlignedUp(n, a)
<1>1. q \in Int /\ r \in 0 .. a - 1 /\ n + a - 1 = a * q + r
  <2>1. n + a - 1 \in Int
    OBVIOUS
  <2> QED
    BY <2>1, DivMod
<1>2. s = a * q
  BY DEF AlignedUp
<1> HIDE DEF q, r, s
<1>3. a * q \in Int
  BY <1>1
<1>4. s \in Nat /\ n <= s
  BY <1>1, <1>2, <1>3
<1>5. s % a = 0
  <2>1. a * q + 0 = s /\ 0 \in 0 .. a - 1
    BY <1>2, <1>3
  <2>2. (a * q + 0) % a = 0
    BY <1>1, <2>1, ModIs
  <2> QED
    BY <2>1, <2>2
<1>6. ASSUME NEW m \in n .. s, m % a = 0
      PROVE  m = s
  <2> DEFINE p == m \div a
  <2>1. p \in Int /\ m = a * p
    <3>1. p \in Int /\ m = a * p + (m % a)
      BY <1>4, DivMod
    <3>2. a * p \in Int
      BY <3>1
    <3> QED
      BY <1>6, <3>1, <3>2
  <2> HIDE DEF p
  <2>2. ~(p <= q - 1)
    <3>1. SUFFICES ASSUME p <= q - 1 PROVE FALSE
      OBVIOUS
    <3>2. a * p <= a * q - a
      BY <1>1, <2>1, <3>1, TimesLess
    <3> QED
      BY <1>1, <1>3, <1>4, <2>1, <3>2
  <2>3. ~(q <= p - 1)
    <3>1. SUFFICES ASSUME q <= p - 1 PROVE FALSE
      OBVIOUS
    <3>2. a * q <= a * p - a
      BY <1>1, <2>1, <3>1, TimesLess
    <3> QED
      BY <1>2, <1>3, <1>4, <2>1, <3>2
  <2> QED
    BY <1>1, <1>2, <2>1, <2>2, <2>3
<1> QED
  BY <1>4, <1>5, <1>6 DEF s

-----------------------------------------------------------------------------
(* What the operations of BinaryBuffer return. *)

\* A buffer of the array: its bytes, of which it has one at least, and the rest.
Buffer == {b \in [data : Seq(Nat), position : Nat, alignment : Alignments, type : Types] :
             b.data # <<>>}

LEMMA BufferTyped ==
  ASSUME NEW b \in Buffer
  PROVE  /\ b = [data |-> b.data, position |-> b.position,
                 alignment |-> b.alignment, type |-> b.type]
         /\ b.data \in Seq(Nat) /\ GetSize(b) \in Nat \ {0} /\ DOMAIN b.data = 1 .. GetSize(b)
         /\ \A i \in 1 .. GetSize(b) : b.data[i] \in Nat
         /\ b.position \in Nat /\ b.alignment \in Nat \ {0} /\ b.alignment \in Alignments
         /\ b.type \in Types /\ b.type \in {"fixed", "grow", "wrap"}
<1>1. b.data \in Seq(Nat) /\ b.data # <<>>
  BY DEF Buffer
<1>2. Len(b.data) \in Nat \ {0}
  BY <1>1, EmptySeq
<1>3. DOMAIN b.data = 1 .. Len(b.data) /\ \A i \in 1 .. Len(b.data) : b.data[i] \in Nat
  BY <1>1, LenProperties
<1> QED
  BY <1>1, <1>2, <1>3, BuffersAssumption DEF Buffer, GetSize

\* A buffer is made of its parts.
LEMMA BufferOf ==
  ASSUME NEW d \in Seq(Nat), Len(d) \in Nat \ {0}, NEW p \in Nat,
         NEW a \in Alignments, NEW t \in Types
  PROVE  [data |-> d, position |-> p, alignment |-> a, type |-> t] \in Buffer
<1>1. d # <<>>
  <2>1. Len(<<>>) = 0
    BY EmptySeq
  <2> QED
    BY <2>1
<1> QED
  BY <1>1 DEF Buffer

\* A function over the numbers from 1 to n is a sequence of n members.
LEMMA SeqOfFunction ==
  ASSUME NEW S, NEW n \in Nat, NEW f \in [1 .. n -> S]
  PROVE  f \in Seq(S) /\ Len(f) = n
<1>1. f \in Seq(S)
  BY SeqDef
<1>2. Len(f) \in Nat /\ 1 .. Len(f) = 1 .. n
  BY <1>1, LenProperties
<1>3. Len(f) = n
  <2> DEFINE l == Len(f)
  <2> HIDE DEF l
  <2>1. SUFFICES ASSUME l \in Nat, 1 .. l = 1 .. n PROVE l = n
    BY <1>2 DEF l
  <2>2. ~(l < n)
    <3>1. SUFFICES ASSUME l < n PROVE FALSE
      OBVIOUS
    <3>2. n \in 1 .. n /\ n \notin 1 .. l
      BY <2>1, <3>1
    <3> QED
      BY <2>1, <3>2
  <2>3. ~(n < l)
    <3>1. SUFFICES ASSUME n < l PROVE FALSE
      OBVIOUS
    <3>2. l \in 1 .. l /\ l \notin 1 .. n
      BY <2>1, <3>1
    <3> QED
      BY <2>1, <3>2
  <2> QED
    BY <2>1, <2>2, <2>3
<1> QED
  BY <1>1, <1>3

\* A buffer with other bytes or another position.
LEMMA WithData ==
  ASSUME NEW b \in Buffer, NEW d
  PROVE  [b EXCEPT !.data = d] = [data |-> d, position |-> b.position,
                                  alignment |-> b.alignment, type |-> b.type]
<1>1. b \in [data : Seq(Nat), position : Nat, alignment : Alignments, type : Types]
  BY DEF Buffer
<1> QED
  BY <1>1

LEMMA WithPosition ==
  ASSUME NEW b \in Buffer, NEW p
  PROVE  [b EXCEPT !.position = p] = [data |-> b.data, position |-> p,
                                      alignment |-> b.alignment, type |-> b.type]
<1>1. b \in [data : Seq(Nat), position : Nat, alignment : Alignments, type : Types]
  BY DEF Buffer
<1> QED
  BY <1>1

\* Resize keeps the bytes there is room for and adds zeros.
LEMMA Resizes ==
  ASSUME NEW b \in Buffer, NEW size \in Nat \ {0}
  PROVE  LET c == Resize(b, size)
         IN  /\ c \in Buffer /\ GetSize(c) = size
             /\ c.position = b.position /\ c.alignment = b.alignment /\ c.type = b.type
             /\ \A i \in 1 .. size : c.data[i] = IF i <= GetSize(b) THEN b.data[i] ELSE 0
<1> DEFINE d == [i \in 1 .. size |-> IF i <= GetSize(b) THEN b.data[i] ELSE 0]
           c == Resize(b, size)
<1>1. c = [data |-> d, position |-> b.position, alignment |-> b.alignment, type |-> b.type]
  BY WithData DEF Resize
<1>2. \A i \in 1 .. size : d[i] = (IF i <= GetSize(b) THEN b.data[i] ELSE 0) /\ d[i] \in Nat
  BY BufferTyped
<1>3. d = [i \in 1 .. size |-> d[i]]
  OBVIOUS
<1> HIDE DEF d, c
<1>4. d \in [1 .. size -> Nat]
  BY <1>2, <1>3
<1>5. d \in Seq(Nat) /\ Len(d) = size
  BY <1>4, SeqOfFunction
<1>6. c \in Buffer
  BY <1>1, <1>5, BufferOf, BufferTyped
<1>7. c.data = d /\ c.position = b.position /\ c.alignment = b.alignment /\ c.type = b.type
  BY <1>1
<1>8. GetSize(c) = size
  BY <1>5, <1>7 DEF GetSize
<1>9. \A i \in 1 .. size : c.data[i] = IF i <= GetSize(b) THEN b.data[i] ELSE 0
  BY <1>2, <1>7
<1> QED
  BY <1>6, <1>7, <1>8, <1>9 DEF c

\* Seek ends on a byte of the buffer, keeps the bytes there are, and goes where it is
\* asked to if there is such a byte or the buffer grows.
LEMMA Seeks ==
  ASSUME NEW b \in Buffer, NEW offset \in Int
  PROVE  LET c == Seek(b, offset)
         IN  /\ c \in Buffer /\ c.alignment = b.alignment /\ c.type = b.type
             /\ c.position < GetSize(c) /\ GetSize(b) <= GetSize(c)
             /\ \A i \in 1 .. GetSize(b) : c.data[i] = b.data[i]
             /\ b.type # "grow" \/ offset < GetSize(b) => c.data = b.data
             /\ offset <= 0 => c.position = 0
             /\ offset \in 0 .. GetSize(b) - 1 => c.position = offset
             /\ offset \in Nat /\ b.type = "grow" => c.position = offset
             /\ offset \in Nat /\ b.type = "wrap" => c.position = offset % GetSize(b)
<1> DEFINE grows == b.type = "grow" /\ offset >= GetSize(b)
           r == IF grows THEN Resize(b, offset + 1) ELSE b
           last == GetSize(r) - 1
           p == CASE offset < 0                      -> 0
                  [] offset >= 0 /\ b.type = "wrap"  -> offset % GetSize(r)
                  [] offset >= 0 /\ b.type # "wrap"  -> IF offset <= last THEN offset ELSE last
           c == Seek(b, offset)
<1>1. GetSize(b) \in Nat \ {0} /\ b.type \in {"fixed", "grow", "wrap"}
  BY BufferTyped
<1>2. /\ r \in Buffer /\ r.alignment = b.alignment /\ r.type = b.type
      /\ GetSize(b) <= GetSize(r) /\ \A i \in 1 .. GetSize(b) : r.data[i] = b.data[i]
      /\ grows => GetSize(r) = offset + 1
      /\ ~grows => r = b
  <2>1. CASE grows
    <3>1. offset + 1 \in Nat \ {0} /\ GetSize(b) <= offset + 1
      BY <1>1, <2>1
    <3>2. r = Resize(b, offset + 1)
      BY <2>1
    <3> HIDE DEF r, grows
    <3>3. /\ r \in Buffer /\ r.alignment = b.alignment /\ r.type = b.type
          /\ GetSize(r) = offset + 1
          /\ \A i \in 1 .. offset + 1 : r.data[i] = IF i <= GetSize(b) THEN b.data[i] ELSE 0
      BY <3>1, <3>2, Resizes
    <3>4. \A i \in 1 .. GetSize(b) : i \in 1 .. offset + 1 /\ i <= GetSize(b)
      BY <1>1, <3>1
    <3>5. \A i \in 1 .. GetSize(b) : r.data[i] = b.data[i]
      BY <3>3, <3>4
    <3> QED
      BY <2>1, <3>1, <3>3, <3>5
  <2>2. CASE ~grows
    <3>1. r = b
      BY <2>2
    <3> HIDE DEF r, grows
    <3> QED
      BY <1>1, <2>2, <3>1
  <2> QED
    BY <2>1, <2>2
<1>3. c = [r EXCEPT !.position = p]
  BY <1>2 DEF Seek
<1> DEFINE n == GetSize(r)
           m == offset % n
<1>4. n \in Nat \ {0}
  BY <1>2, BufferTyped
<1>5. m \in 0 .. n - 1 /\ (offset \in 0 .. n - 1 => m = offset)
  BY <1>4, DivMod, ModOfSmall
<1>6. p = IF offset < 0 THEN 0 ELSE IF b.type = "wrap" THEN m
          ELSE IF offset <= n - 1 THEN offset ELSE n - 1
  <2>1. CASE offset < 0
    BY <2>1
  <2>2. CASE offset >= 0 /\ b.type = "wrap"
    <3>1. ~(offset < 0)
      BY <2>2
    <3> QED
      BY <2>2, <3>1
  <2>3. CASE offset >= 0 /\ b.type # "wrap"
    <3>1. ~(offset < 0)
      BY <2>3
    <3> QED
      BY <2>3, <3>1
  <2> QED
    BY <2>1, <2>2, <2>3
<1>7. /\ grows <=> b.type = "grow" /\ offset >= GetSize(b)
      /\ n = GetSize(r)
      /\ m = offset % n
  OBVIOUS
<1> HIDE DEF r, p, n, m, c, grows
<1>8. p \in 0 .. n - 1
  BY <1>4, <1>5, <1>6
<1>9. c = [data |-> r.data, position |-> p, alignment |-> r.alignment, type |-> r.type]
  BY <1>2, <1>3, WithPosition
<1>10. r.data \in Seq(Nat) /\ Len(r.data) = n
  BY <1>2, <1>7, BufferTyped DEF GetSize
<1>11. c \in Buffer /\ c.data = r.data /\ c.position = p /\ c.alignment = b.alignment
       /\ c.type = b.type /\ GetSize(c) = n
  <2>1. r.alignment \in Alignments /\ r.type \in Types
    BY <1>2, BufferTyped
  <2>2. c \in Buffer
    BY <1>4, <1>8, <1>9, <1>10, <2>1, BufferOf
  <2>3. c.data = r.data /\ c.position = p /\ c.alignment = b.alignment /\ c.type = b.type
    BY <1>2, <1>9
  <2> QED
    BY <1>10, <2>2, <2>3 DEF GetSize
<1>12. b.type # "grow" \/ offset < GetSize(b) => r = b
  BY <1>1, <1>2, <1>7
<1>13. /\ offset <= 0 => p = 0
       /\ offset \in 0 .. GetSize(b) - 1 => p = offset
       /\ offset \in Nat /\ b.type = "grow" => p = offset
  <2>1. n >= GetSize(b)
    BY <1>2, <1>7
  <2>2. offset = 0 => p = 0
    BY <1>4, <1>5, <1>6
  <2>3. offset < 0 => p = 0
    BY <1>6
  <2>4. offset \in 0 .. GetSize(b) - 1 => p = offset
    BY <1>1, <1>4, <1>5, <1>6, <2>1
  <2>5. offset \in Nat /\ b.type = "grow" => p = offset
    <3>1. SUFFICES ASSUME offset \in Nat, b.type = "grow" PROVE p = offset
      OBVIOUS
    <3>2. offset <= n - 1
      BY <1>1, <1>2, <1>4, <1>7, <2>1, <3>1
    <3> QED
      BY <1>4, <1>6, <3>1, <3>2
  <2> QED
    BY <2>2, <2>3, <2>4, <2>5
<1>14. offset \in Nat /\ b.type = "wrap" => p = offset % GetSize(b)
  BY <1>6, <1>7, <1>12
<1>15. /\ c.position < GetSize(c) /\ GetSize(b) <= GetSize(c)
       /\ \A i \in 1 .. GetSize(b) : c.data[i] = b.data[i]
       /\ b.type # "grow" \/ offset < GetSize(b) => c.data = b.data
  <2>1. p < n
    BY <1>4, <1>8
  <2> QED
    BY <1>2, <1>7, <1>11, <1>12, <2>1
<1> QED
  BY <1>11, <1>13, <1>14, <1>15 DEF c

\* A seek to where the buffer is changes nothing.
LEMMA SeekStays ==
  ASSUME NEW b \in Buffer, b.position < GetSize(b)
  PROVE  Seek(b, b.position) = b
<1> DEFINE c == Seek(b, b.position)
<1>1. b.position \in 0 .. GetSize(b) - 1 /\ b.position \in Int
  BY BufferTyped
<1>2. c \in Buffer /\ c.alignment = b.alignment /\ c.type = b.type /\ c.data = b.data
      /\ c.position = b.position
  BY <1>1, Seeks
<1> HIDE DEF c
<1>3. c = [data |-> c.data, position |-> c.position, alignment |-> c.alignment, type |-> c.type]
  BY <1>2, BufferTyped
<1>4. b = [data |-> b.data, position |-> b.position, alignment |-> b.alignment, type |-> b.type]
  BY BufferTyped
<1>5. c = b
  BY <1>2, <1>3, <1>4
<1> QED
  BY <1>5 DEF c

\* ReadByte keeps the bytes, and goes on by one.
LEMMA ReadsByte ==
  ASSUME NEW b \in Buffer
  PROVE  LET c == ReadByte(b)
         IN  /\ c \in Buffer /\ c.alignment = b.alignment /\ c.type = b.type
             /\ c.position < GetSize(c) /\ GetSize(b) <= GetSize(c)
             /\ \A i \in 1 .. GetSize(b) : c.data[i] = b.data[i]
             /\ b.position < GetSize(b) => ByteRead(b) = b.data[b.position + 1]
             /\ b.position < GetSize(b) /\ (b.position + 1 < GetSize(b) \/ b.type = "grow") =>
                  c.position = b.position + 1
<1> DEFINE s == Seek(b, b.position)
           c == Seek(s, s.position + 1)
<1>1. b.position \in Nat /\ b.position \in Int /\ GetSize(b) \in Nat
  BY BufferTyped
<1>2. /\ s \in Buffer /\ s.alignment = b.alignment /\ s.type = b.type
      /\ GetSize(b) <= GetSize(s)
      /\ \A i \in 1 .. GetSize(b) : s.data[i] = b.data[i]
  BY <1>1, Seeks
<1>3. b.position < GetSize(b) => s = b
  BY SeekStays
<1>4. c = ReadByte(b) /\ ByteRead(b) = s.data[s.position + 1]
  BY DEF ReadByte, ByteRead
<1>5. c = Seek(s, s.position + 1)
  OBVIOUS
<1> HIDE DEF s, c
<1>6. s.position + 1 \in Int /\ s.position \in Nat /\ GetSize(s) \in Nat
  BY <1>2, BufferTyped
<1>7. /\ c \in Buffer /\ c.alignment = s.alignment /\ c.type = s.type
      /\ c.position < GetSize(c) /\ GetSize(s) <= GetSize(c)
      /\ \A i \in 1 .. GetSize(s) : c.data[i] = s.data[i]
      /\ s.position + 1 \in 0 .. GetSize(s) - 1 => c.position = s.position + 1
      /\ s.position + 1 \in Nat /\ s.type = "grow" => c.position = s.position + 1
  BY <1>2, <1>5, <1>6, Seeks
<1>8. GetSize(c) \in Nat
  BY <1>7, BufferTyped
<1>9. \A i \in 1 .. GetSize(b) : c.data[i] = b.data[i]
  <2>1. \A i \in 1 .. GetSize(b) : i \in 1 .. GetSize(s)
    BY <1>1, <1>2, <1>6
  <2> QED
    BY <1>2, <1>7, <2>1
<1>10. b.position < GetSize(b) /\ (b.position + 1 < GetSize(b) \/ b.type = "grow") =>
          c.position = b.position + 1
  BY <1>1, <1>3, <1>6, <1>7
<1> QED
  BY <1>1, <1>2, <1>3, <1>4, <1>6, <1>7, <1>8, <1>9, <1>10

\* WriteByte writes one byte where the buffer is, and goes on by one.
LEMMA WritesByte ==
  ASSUME NEW b \in Buffer, NEW byte \in Nat
  PROVE  LET c == WriteByte(b, byte)
         IN  /\ c \in Buffer /\ c.alignment = b.alignment /\ c.type = b.type
             /\ c.position < GetSize(c) /\ GetSize(b) <= GetSize(c)
             /\ b.type # "grow" => GetSize(c) = GetSize(b)
             /\ b.position < GetSize(b) =>
                  /\ \A i \in 1 .. GetSize(b) :
                       c.data[i] = IF i = b.position + 1 THEN byte ELSE b.data[i]
                  /\ b.position + 1 < GetSize(b) \/ b.type = "grow" =>
                       c.position = b.position + 1
                  /\ b.type = "wrap" => /\ c.position = (b.position + 1) % GetSize(b)
                                        /\ GetSize(c) = GetSize(b)
<1> DEFINE s == Seek(b, b.position)
           d == [s.data EXCEPT ![s.position + 1] = byte]
           w == [s EXCEPT !.data[s.position + 1] = byte]
           c == Seek(w, s.position + 1)
<1>1. b.position \in Nat /\ b.position \in Int /\ GetSize(b) \in Nat
  BY BufferTyped
<1>2. /\ s \in Buffer /\ s.alignment = b.alignment /\ s.type = b.type
      /\ GetSize(b) <= GetSize(s) /\ s.position < GetSize(s)
  BY <1>1, Seeks
<1>3. b.position < GetSize(b) => s = b
  BY SeekStays
<1>4. c = WriteByte(b, byte)
  BY DEF WriteByte
<1>17. s = Seek(b, b.position)
  OBVIOUS
<1>5. d = [s.data EXCEPT ![s.position + 1] = byte] /\ c = Seek(w, s.position + 1)
  OBVIOUS
<1>6. w = [s EXCEPT !.data = d]
  OBVIOUS
<1> HIDE DEF s, d, w, c
<1>7. s.position + 1 \in 1 .. GetSize(s) /\ s.position + 1 \in Nat /\ s.position \in Nat
      /\ GetSize(s) \in Nat \ {0} /\ s.data \in Seq(Nat) /\ Len(s.data) = GetSize(s)
  <2>1. s.position \in Nat /\ GetSize(s) \in Nat \ {0} /\ s.data \in Seq(Nat)
    BY <1>2, BufferTyped
  <2>2. s.position + 1 \in 1 .. GetSize(s)
    BY <1>2, <2>1
  <2> QED
    BY <2>1, <2>2 DEF GetSize
<1>8. /\ d \in Seq(Nat) /\ Len(d) = GetSize(s)
      /\ \A i \in 1 .. GetSize(s) : d[i] = IF i = s.position + 1 THEN byte ELSE s.data[i]
  BY <1>5, <1>7, ExceptSeq
<1>9. w = [data |-> d, position |-> s.position, alignment |-> s.alignment, type |-> s.type]
  BY <1>2, <1>6, WithData
<1>10. /\ w \in Buffer /\ w.data = d /\ w.alignment = b.alignment /\ w.type = b.type
       /\ GetSize(w) = GetSize(s)
  <2>1. s.alignment \in Alignments /\ s.type \in Types
    BY <1>2, BufferTyped
  <2>2. w \in Buffer
    BY <1>7, <1>8, <1>9, <2>1, BufferOf
  <2>3. w.data = d /\ w.alignment = b.alignment /\ w.type = b.type
    BY <1>2, <1>9
  <2> QED
    BY <1>8, <2>2, <2>3 DEF GetSize
<1>11. s.position + 1 \in Int
  BY <1>7
<1>12. /\ c \in Buffer /\ c.alignment = w.alignment /\ c.type = w.type
       /\ c.position < GetSize(c) /\ GetSize(w) <= GetSize(c)
       /\ \A i \in 1 .. GetSize(w) : c.data[i] = w.data[i]
       /\ w.type # "grow" => c.data = w.data
       /\ s.position + 1 \in 0 .. GetSize(w) - 1 => c.position = s.position + 1
       /\ s.position + 1 \in Nat /\ w.type = "grow" => c.position = s.position + 1
       /\ s.position + 1 \in Nat /\ w.type = "wrap" => c.position = (s.position + 1) % GetSize(w)
  BY <1>5, <1>10, <1>11, Seeks
<1>13. GetSize(c) \in Nat
  BY <1>12, BufferTyped
<1>14. GetSize(b) <= GetSize(c)
  BY <1>1, <1>2, <1>7, <1>10, <1>12, <1>13
<1>15. ASSUME b.position < GetSize(b)
       PROVE  /\ \A i \in 1 .. GetSize(b) :
                   c.data[i] = IF i = b.position + 1 THEN byte ELSE b.data[i]
              /\ b.position + 1 < GetSize(b) \/ b.type = "grow" => c.position = b.position + 1
              /\ b.type = "wrap" => /\ c.position = (b.position + 1) % GetSize(b)
                                    /\ GetSize(c) = GetSize(b)
  <2>1. s = b
    BY <1>3, <1>15
  <2>2. \A i \in 1 .. GetSize(b) : c.data[i] = IF i = b.position + 1 THEN byte ELSE b.data[i]
    BY <1>8, <1>10, <1>12, <2>1
  <2>3. b.position + 1 < GetSize(b) \/ b.type = "grow" => c.position = b.position + 1
    BY <1>1, <1>7, <1>10, <1>12, <2>1
  <2>4. b.type = "wrap" => c.position = (b.position + 1) % GetSize(b)
    BY <1>7, <1>10, <1>12, <2>1
  <2>5. b.type = "wrap" => GetSize(c) = GetSize(b)
    BY <1>10, <1>12, <2>1 DEF GetSize
  <2> QED
    BY <2>2, <2>3, <2>4, <2>5
<1>16. b.type # "grow" => GetSize(c) = GetSize(b)
  <2>1. b.type # "grow" => s.data = b.data
    BY <1>1, <1>17, Seeks
  <2> QED
    BY <1>10, <1>12, <2>1 DEF GetSize
<1> QED
  BY <1>4, <1>10, <1>12, <1>14, <1>15, <1>16

\* Put keeps the number of the bytes, and those it does not write over.
LEMMA Puts ==
  ASSUME NEW data \in Seq(Nat), NEW offset \in Nat, NEW bytes \in Seq(Nat)
  PROVE  LET d == Put(data, offset, bytes)
         IN  d \in Seq(Nat) /\ Len(d) = Len(data)
<1> DEFINE n == Len(data)
           d == Put(data, offset, bytes)
<1>1. n \in Nat /\ n = Len(data) /\ DOMAIN data = 1 .. n /\ \A i \in 1 .. n : data[i] \in Nat
  BY LenProperties
<1>2. DOMAIN bytes = 1 .. Len(bytes) /\ \A i \in 1 .. Len(bytes) : bytes[i] \in Nat
  BY LenProperties
<1>3. d = [i \in 1 .. n |->
             IF i - offset \in 1 .. Len(bytes) THEN bytes[i - offset] ELSE data[i]]
  BY <1>1, <1>2 DEF Put
<1> HIDE DEF n, d
<1>4. \A i \in 1 .. n :
        /\ d[i] = IF i - offset \in 1 .. Len(bytes) THEN bytes[i - offset] ELSE data[i]
        /\ d[i] \in Nat
  <2>1. ASSUME NEW i \in 1 .. n
        PROVE  d[i] = IF i - offset \in 1 .. Len(bytes) THEN bytes[i - offset] ELSE data[i]
    BY <1>3
  <2>2. ASSUME NEW i \in 1 .. n
        PROVE  d[i] \in Nat
    BY <1>1, <1>2, <2>1
  <2> QED
    BY <2>1, <2>2
<1>5. d \in [1 .. n -> Nat]
  <2>1. d = [i \in 1 .. n |-> d[i]]
    BY <1>3
  <2> QED
    BY <1>4, <2>1
<1>6. d \in Seq(Nat) /\ Len(d) = n
  BY <1>1, <1>5, SeqOfFunction
<1> QED
  BY <1>1, <1>6 DEF d

LEMMA PutWithRoom ==
  ASSUME NEW data \in Seq(Nat), NEW offset \in Nat, NEW bytes \in Seq(Nat),
         offset + Len(bytes) <= Len(data)
  PROVE  LET d == Put(data, offset, bytes)
         IN  /\ \A i \in 1 .. Len(bytes) : d[offset + i] = bytes[i]
             /\ \A i \in 1 .. Len(data) : i <= offset => d[i] = data[i]
<1> DEFINE l == Len(bytes)
           n == Len(data)
           d == Put(data, offset, bytes)
<1>1. /\ DOMAIN data = 1 .. n /\ DOMAIN bytes = 1 .. l /\ l \in Nat /\ n \in Nat
      /\ offset + l <= n
  BY LenProperties
<1> HIDE DEF l, n
<1>2. ASSUME NEW i \in 1 .. l
      PROVE  d[offset + i] = bytes[i]
  <2> DEFINE k == offset + i
  <2>1. k \in 1 .. n /\ k - offset = i
    BY <1>1
  <2> HIDE DEF k
  <2>2. d[k] = bytes[i]
    BY <1>1, <2>1 DEF Put
  <2> QED
    BY <2>2 DEF k
<1>3. ASSUME NEW i \in 1 .. n, i <= offset
      PROVE  d[i] = data[i]
  <2>1. i - offset \notin 1 .. l
    BY <1>1, <1>3
  <2> QED
    BY <1>1, <2>1 DEF Put
<1> QED
  BY <1>2, <1>3 DEF l, n

\* The bytes from one to another of a sequence.
LEMMA Cut ==
  ASSUME NEW bytes \in Seq(Nat), NEW l \in Nat, l = Len(bytes),
         NEW m \in Nat \ {0}, NEW c \in Int, c <= l
  PROVE  LET s == SubSeq(bytes, m, c)
         IN  /\ s \in Seq(Nat) /\ Len(s) \in Nat /\ Len(s) = (IF m <= c THEN c - m + 1 ELSE 0)
             /\ \A i \in 1 .. Len(s) : s[i] = bytes[m + i - 1]
<1> DEFINE s == SubSeq(bytes, m, c)
<1>1. m \in Int
  OBVIOUS
<1>2. \A i \in m .. c : bytes[i] \in Nat
  <2>1. \A i \in m .. c : i \in 1 .. Len(bytes)
    OBVIOUS
  <2> QED
    BY <2>1, LenProperties
<1>3. /\ s \in Seq(Nat) /\ Len(s) = (IF m <= c THEN c - m + 1 ELSE 0)
      /\ \A i \in 1 .. c - m + 1 : s[i] = bytes[m + i - 1]
  BY <1>1, <1>2, SubSeqProperties
<1> DEFINE k == Len(s)
<1>4. k = Len(s)
  OBVIOUS
<1> HIDE DEF s, k
<1>5. k \in Nat /\ \A i \in 1 .. k : i \in 1 .. c - m + 1
  BY <1>3, <1>4
<1>6. \A i \in 1 .. k : s[i] = bytes[m + i - 1]
  BY <1>3, <1>5
<1> QED
  BY <1>3, <1>4, <1>5, <1>6 DEF s

\* What a wrapping buffer holds after write_to_buffer: for bytes that it has room for,
\* the part that fits from the offset on and the rest at the start.
LEMMA Wraps ==
  ASSUME NEW b \in Buffer, NEW bytes \in Seq(Nat), NEW offset \in Nat
  PROVE  LET d == Wrapped(b, bytes, offset)
             n == GetSize(b)
             o == offset % n
         IN  /\ d \in Seq(Nat) /\ Len(d) = n
             /\ Len(bytes) <= n => \A i \in 1 .. n :
                  d[i] = IF i + n - o \in 1 .. Len(bytes) THEN bytes[i + n - o]
                         ELSE IF i - o \in 1 .. Len(bytes) THEN bytes[i - o]
                         ELSE b.data[i]
<1> DEFINE n     == GetSize(b)
           o     == offset % n
           l     == Len(bytes)
           extra == l + o - n
           from  == IF l > n THEN l - n ELSE 0
           cut   == IF extra <= 0 THEN l ELSE IF l > n THEN l - o ELSE l - extra
           s     == SubSeq(bytes, from + 1, cut)
           t     == SubSeq(bytes, cut + 1, l)
           p     == Put(b.data, o, s)
           d     == Put(p, 0, t)
<1>1. d = Wrapped(b, bytes, offset)
  BY DEF Wrapped
<1>2. n \in Nat \ {0} /\ b.data \in Seq(Nat) /\ Len(b.data) = n
  BY BufferTyped DEF GetSize
<1>3. o \in 0 .. n - 1
  <2>1. offset \in Int /\ n \in Nat \ {0}
    BY <1>2
  <2> HIDE DEF n
  <2> QED
    BY <2>1, DivMod
<1>4. l \in Nat /\ l = Len(bytes)
  BY LenProperties
<1>5. /\ extra = l + o - n /\ from = (IF l > n THEN l - n ELSE 0)
      /\ cut = (IF extra <= 0 THEN l ELSE IF l > n THEN l - o ELSE l - extra)
  OBVIOUS
<1>6. s = SubSeq(bytes, from + 1, cut) /\ t = SubSeq(bytes, cut + 1, l)
  OBVIOUS
<1>7. p = Put(b.data, o, s) /\ d = Put(p, 0, t)
  OBVIOUS
<1>8. n = GetSize(b) /\ o = offset % n
  OBVIOUS
<1> HIDE DEF n, o, l, extra, from, cut, s, t, p, d
<1>9. from \in Nat /\ from + 1 \in Nat \ {0} /\ cut \in Nat /\ cut <= l
      /\ cut + 1 \in Nat \ {0} /\ l \in Int /\ cut \in Int /\ o \in Nat
  BY <1>2, <1>3, <1>4, <1>5
<1>10. /\ s \in Seq(Nat) /\ Len(s) \in Nat
       /\ Len(s) = (IF from + 1 <= cut THEN cut - (from + 1) + 1 ELSE 0)
       /\ \A i \in 1 .. Len(s) : s[i] = bytes[from + 1 + i - 1]
  <2> DEFINE m == from + 1
  <2>1. s = SubSeq(bytes, m, cut) /\ m = from + 1 /\ m \in Nat \ {0}
    BY <1>6, <1>9
  <2> HIDE DEF m
  <2>2. /\ s \in Seq(Nat) /\ Len(s) \in Nat
        /\ Len(s) = (IF m <= cut THEN cut - m + 1 ELSE 0)
        /\ \A i \in 1 .. Len(s) : s[i] = bytes[m + i - 1]
    BY <1>4, <1>9, <2>1, Cut
  <2> QED
    BY <2>1, <2>2
<1>11. /\ t \in Seq(Nat) /\ Len(t) \in Nat
       /\ Len(t) = (IF cut + 1 <= l THEN l - (cut + 1) + 1 ELSE 0)
       /\ \A i \in 1 .. Len(t) : t[i] = bytes[cut + 1 + i - 1]
  <2> DEFINE m == cut + 1
  <2>1. t = SubSeq(bytes, m, l) /\ m = cut + 1 /\ m \in Nat \ {0} /\ l <= l
    BY <1>6, <1>9
  <2> HIDE DEF m
  <2>2. /\ t \in Seq(Nat) /\ Len(t) \in Nat
        /\ Len(t) = (IF m <= l THEN l - m + 1 ELSE 0)
        /\ \A i \in 1 .. Len(t) : t[i] = bytes[m + i - 1]
    BY <1>4, <1>9, <2>1, Cut
  <2> QED
    BY <2>1, <2>2
<1>12. /\ p \in Seq(Nat) /\ Len(p) = n
       /\ \A i \in 1 .. n : i - o \in 1 .. Len(s) => p[i] = s[i - o]
       /\ \A i \in 1 .. n : i - o \notin 1 .. Len(s) => p[i] = b.data[i]
  <2> DEFINE a == b.data
  <2>1. s \in Seq(Nat) /\ o \in Nat /\ a \in Seq(Nat) /\ Len(a) = n /\ n \in Nat
    BY <1>2, <1>9, <1>10
  <2>2. p = Put(a, o, s) /\ a = b.data
    BY <1>7
  <2> HIDE DEF a
  <2>3. /\ p \in Seq(Nat) /\ Len(p) = n
        /\ \A i \in 1 .. n : i - o \in 1 .. Len(s) => p[i] = s[i - o]
        /\ \A i \in 1 .. n : i - o \notin 1 .. Len(s) => p[i] = a[i]
    <3>1. DOMAIN a = 1 .. n /\ DOMAIN s = 1 .. Len(s)
      BY <2>1, LenProperties
    <3>2. p \in Seq(Nat) /\ Len(p) = n
      BY <2>1, <2>2, Puts
    <3>3. ASSUME NEW i \in 1 .. n, i - o \in 1 .. Len(s)
          PROVE  p[i] = s[i - o]
      BY <2>2, <3>1, <3>3 DEF Put
    <3>4. ASSUME NEW i \in 1 .. n, i - o \notin 1 .. Len(s)
          PROVE  p[i] = a[i]
      BY <2>2, <3>1, <3>4 DEF Put
    <3> QED
      BY <3>2, <3>3, <3>4
  <2> QED
    BY <2>2, <2>3
<1>13. /\ d \in Seq(Nat) /\ Len(d) = n
       /\ \A i \in 1 .. n : i - 0 \in 1 .. Len(t) => d[i] = t[i - 0]
       /\ \A i \in 1 .. n : i - 0 \notin 1 .. Len(t) => d[i] = p[i]
  <2> DEFINE z == 0
  <2>1. t \in Seq(Nat) /\ p \in Seq(Nat) /\ Len(p) = n /\ z \in Nat /\ n \in Nat
    BY <1>2, <1>11, <1>12
  <2>2. d = Put(p, z, t) /\ z = 0
    BY <1>7
  <2> HIDE DEF z
  <2>3. /\ d \in Seq(Nat) /\ Len(d) = n
        /\ \A i \in 1 .. n : i - z \in 1 .. Len(t) => d[i] = t[i - z]
        /\ \A i \in 1 .. n : i - z \notin 1 .. Len(t) => d[i] = p[i]
    <3>1. DOMAIN p = 1 .. n /\ DOMAIN t = 1 .. Len(t)
      BY <2>1, LenProperties
    <3>2. d \in Seq(Nat) /\ Len(d) = n
      BY <2>1, <2>2, Puts
    <3>3. ASSUME NEW i \in 1 .. n, i - z \in 1 .. Len(t)
          PROVE  d[i] = t[i - z]
      BY <2>2, <3>1, <3>3 DEF Put
    <3>4. ASSUME NEW i \in 1 .. n, i - z \notin 1 .. Len(t)
          PROVE  d[i] = p[i]
      BY <2>2, <3>1, <3>4 DEF Put
    <3> QED
      BY <3>2, <3>3, <3>4
  <2> QED
    BY <2>2, <2>3
<1>14. ASSUME l <= n, NEW i \in 1 .. n
       PROVE  d[i] = IF i + n - o \in 1 .. l THEN bytes[i + n - o]
                     ELSE IF i - o \in 1 .. l THEN bytes[i - o]
                     ELSE b.data[i]
  <2> DEFINE ls == Len(s)
             lt == Len(t)
  <2>1. ls \in Nat /\ lt \in Nat /\ ls = Len(s) /\ lt = Len(t)
    BY <1>10, <1>11
  <2> HIDE DEF ls, lt
  <2>2. from = 0 /\ ls = cut /\ lt = l - cut
    <3>1. from = 0
      BY <1>2, <1>4, <1>5, <1>14
    <3>2. ls = cut /\ lt = l - cut
      <4>1. ls = (IF from + 1 <= cut THEN cut - (from + 1) + 1 ELSE 0)
        BY <1>10, <2>1
      <4>2. lt = (IF cut + 1 <= l THEN l - (cut + 1) + 1 ELSE 0)
        BY <1>11, <2>1
      <4> QED
        BY <1>4, <1>9, <3>1, <4>1, <4>2
    <3> QED
      BY <3>1, <3>2
  <2>3. i - o \in 1 .. ls => s[i - o] = bytes[i - o]
    <3>1. SUFFICES ASSUME i - o \in 1 .. ls PROVE s[i - o] = bytes[i - o]
      OBVIOUS
    <3>2. s[i - o] = bytes[from + 1 + (i - o) - 1]
      BY <1>10, <2>1, <3>1
    <3>3. from + 1 + (i - o) - 1 = i - o
      BY <1>9, <2>2
    <3> QED
      BY <3>2, <3>3
  <2>4. i - 0 \in 1 .. lt => t[i - 0] = bytes[cut + i]
    <3>1. SUFFICES ASSUME i - 0 \in 1 .. lt PROVE t[i - 0] = bytes[cut + i]
      OBVIOUS
    <3>2. t[i - 0] = bytes[cut + 1 + (i - 0) - 1]
      BY <1>11, <2>1, <3>1
    <3>3. cut + 1 + (i - 0) - 1 = cut + i
      BY <1>9
    <3> QED
      BY <3>2, <3>3
  <2>5. d[i] = IF i - 0 \in 1 .. lt THEN t[i - 0] ELSE p[i]
    BY <1>13, <2>1
  <2>6. p[i] = IF i - o \in 1 .. ls THEN s[i - o] ELSE b.data[i]
    BY <1>12, <2>1
  <2>7. CASE extra <= 0
    <3>1. cut = l /\ lt = 0 /\ ls = l
      BY <1>4, <1>5, <2>2, <2>7
    <3>2. ~(i - 0 \in 1 .. lt) /\ ~(i + n - o \in 1 .. l)
      BY <1>2, <1>3, <1>4, <1>5, <2>7, <3>1
    <3> QED
      BY <2>3, <2>5, <2>6, <3>1, <3>2
  <2>8. CASE ~(extra <= 0)
    <3>1. cut = n - o /\ lt = l - (n - o) /\ ls = n - o
      <4>1. ~(l > n)
        BY <1>2, <1>4, <1>14
      <4>2. cut = l - extra
        BY <1>5, <2>8, <4>1
      <4>3. extra = l + o - n
        BY <1>5
      <4>4. n \in Int /\ o \in Int /\ l \in Int
        BY <1>2, <1>3, <1>4
      <4>5. cut = n - o
        BY <4>2, <4>3, <4>4
      <4> QED
        BY <2>2, <4>5
    <3>2. CASE i - 0 \in 1 .. lt
      <4>1. i + n - o \in 1 .. l /\ cut + i = i + n - o
        BY <1>2, <1>3, <1>4, <3>1, <3>2
      <4> QED
        BY <2>4, <2>5, <3>2, <4>1
    <3>3. CASE ~(i - 0 \in 1 .. lt)
      <4>1. ~(i + n - o \in 1 .. l)
        BY <1>2, <1>3, <1>4, <2>1, <3>1, <3>3
      <4>2. i - o \in 1 .. l <=> i - o \in 1 .. ls
        BY <1>2, <1>3, <1>4, <1>5, <2>8, <3>1
      <4> QED
        BY <2>3, <2>5, <2>6, <3>3, <4>1, <4>2
    <3> QED
      BY <3>2, <3>3
  <2> QED
    BY <2>7, <2>8
<1> QED
  BY <1>1, <1>4, <1>13, <1>14, <1>8

\* write_to_buffer leaves a buffer; where there is room for the bytes it holds them
\* from the offset on, and before it what it held.
LEMMA Writes ==
  ASSUME NEW b \in Buffer, NEW bytes \in Seq(Nat), bytes # <<>>, NEW offset \in Nat
  PROVE  LET c == write_to_buffer(b, bytes, offset)
         IN  /\ c \in Buffer /\ c.alignment = b.alignment /\ c.type = b.type
             /\ GetSize(b) <= GetSize(c)
             /\ b.type = "grow" \/ offset + Len(bytes) <= GetSize(b) =>
                  /\ offset + Len(bytes) <= GetSize(c)
                  /\ \A i \in 1 .. Len(bytes) : c.data[offset + i] = bytes[i]
                  /\ \A i \in 1 .. GetSize(b) : i <= offset => c.data[i] = b.data[i]
<1> SUFFICES ASSUME NEW l \in Nat \ {0}, l = Len(bytes)
             PROVE  LET c == write_to_buffer(b, bytes, offset)
                    IN  /\ c \in Buffer /\ c.alignment = b.alignment /\ c.type = b.type
                        /\ GetSize(b) <= GetSize(c)
                        /\ b.type = "grow" \/ offset + l <= GetSize(b) =>
                             /\ offset + l <= GetSize(c)
                             /\ \A i \in 1 .. l : c.data[offset + i] = bytes[i]
                             /\ \A i \in 1 .. GetSize(b) : i <= offset => c.data[i] = b.data[i]
  BY EmptySeq
<1> DEFINE n == GetSize(b)
           c == write_to_buffer(b, bytes, offset)
<1>1. n \in Nat \ {0} /\ b.data \in Seq(Nat) /\ Len(b.data) = n
      /\ b.type \in {"fixed", "grow", "wrap"} /\ b.alignment \in Alignments
      /\ b.type \in Types /\ b.position \in Nat
  BY BufferTyped DEF GetSize
<1>2. n = GetSize(b) /\ c = write_to_buffer(b, bytes, offset)
  OBVIOUS
<1> HIDE DEF n, c
\* A buffer with the bytes d, of which there are as many.
<1>3. ASSUME NEW e \in Buffer, e.alignment = b.alignment, e.type = b.type,
             e.position = b.position,
             NEW d \in Seq(Nat), Len(d) = GetSize(e), c = [e EXCEPT !.data = d]
      PROVE  /\ c \in Buffer /\ c.alignment = b.alignment /\ c.type = b.type
             /\ c.position = b.position /\ GetSize(c) = GetSize(e) /\ c.data = d
  <2>1. c = [data |-> d, position |-> b.position, alignment |-> b.alignment, type |-> b.type]
    BY <1>3, WithData
  <2>2. Len(d) \in Nat \ {0}
    <3>1. GetSize(e) \in Nat \ {0}
      BY BufferTyped
    <3> QED
      BY <1>3, <3>1
  <2>3. c \in Buffer
    BY <1>1, <2>1, <2>2, BufferOf
  <2>4. c.data = d /\ c.alignment = b.alignment /\ c.type = b.type /\ c.position = b.position
    BY <2>1
  <2>5. GetSize(c) = GetSize(e)
    BY <1>3, <2>4 DEF GetSize
  <2> QED
    BY <2>3, <2>4, <2>5
<1>4. CASE b.type = "wrap"
  <2> DEFINE d == Wrapped(b, bytes, offset)
             o == offset % n
  <2>1. d \in Seq(Nat) /\ Len(d) = n
    BY <1>2, Wraps
  <2>2. c = [b EXCEPT !.data = d]
    BY <1>2, <1>4 DEF write_to_buffer
  <2> HIDE DEF d, o
  <2>3. c \in Buffer /\ c.alignment = b.alignment /\ c.type = b.type
        /\ c.position = b.position /\ GetSize(c) = n /\ c.data = d
    BY <1>2, <1>3, <2>1, <2>2
  <2>4. ASSUME offset + l <= n
        PROVE  /\ \A i \in 1 .. l : d[offset + i] = bytes[i]
               /\ \A i \in 1 .. n : i <= offset => d[i] = b.data[i]
    <3>1. offset \in 0 .. n - 1
      BY <1>1, <2>4
    <3>2. o = offset
      BY <1>1, <3>1, ModOfSmall DEF o
    <3>3. l <= n
      BY <1>1, <2>4
    <3>4. \A i \in 1 .. n :
            d[i] = IF i + n - offset \in 1 .. l THEN bytes[i + n - offset]
                   ELSE IF i - offset \in 1 .. l THEN bytes[i - offset]
                   ELSE b.data[i]
      <4>1. Len(bytes) <= GetSize(b)
        BY <1>2, <3>3
      <4>2. \A i \in 1 .. GetSize(b) :
              d[i] = IF i + GetSize(b) - (offset % GetSize(b)) \in 1 .. Len(bytes)
                     THEN bytes[i + GetSize(b) - (offset % GetSize(b))]
                     ELSE IF i - (offset % GetSize(b)) \in 1 .. Len(bytes)
                     THEN bytes[i - (offset % GetSize(b))]
                     ELSE b.data[i]
        BY <4>1, Wraps DEF d
      <4>3. offset % GetSize(b) = offset
        BY <1>2, <3>2 DEF o
      <4> QED
        BY <1>2, <4>2, <4>3
    <3>5. \A i \in 1 .. n : ~(i + n - offset \in 1 .. l)
      BY <1>1, <2>4
    <3>6. ASSUME NEW i \in 1 .. l
          PROVE  d[offset + i] = bytes[i]
      <4> DEFINE k == offset + i
      <4>1. k \in 1 .. n /\ k - offset = i
        BY <1>1, <2>4
      <4> HIDE DEF k
      <4>2. d[k] = bytes[i]
        BY <3>4, <3>5, <4>1
      <4> QED
        BY <4>2 DEF k
    <3>7. ASSUME NEW i \in 1 .. n, i <= offset
          PROVE  d[i] = b.data[i]
      <4>1. ~(i - offset \in 1 .. l)
        BY <3>7
      <4> QED
        BY <3>4, <3>5, <4>1
    <3> QED
      BY <3>6, <3>7
  <2>5. n <= n
    BY <1>1
  <2> QED
    BY <1>2, <1>4, <2>3, <2>4, <2>5 DEF d
<1>5. CASE b.type = "fixed"
  <2> DEFINE d == Put(b.data, offset, bytes)
  <2>1. d \in Seq(Nat) /\ Len(d) = n
    BY <1>1, Puts
  <2>2. c = [b EXCEPT !.data = d]
    BY <1>2, <1>5 DEF write_to_buffer
  <2>3. offset + l <= n =>
          /\ \A i \in 1 .. l : d[offset + i] = bytes[i]
          /\ \A i \in 1 .. n : i <= offset => d[i] = b.data[i]
    BY <1>1, PutWithRoom
  <2> HIDE DEF d
  <2>4. c \in Buffer /\ c.alignment = b.alignment /\ c.type = b.type
        /\ c.position = b.position /\ GetSize(c) = n /\ c.data = d
    BY <1>2, <1>3, <2>1, <2>2
  <2>5. n <= n
    BY <1>1
  <2> QED
    BY <1>2, <1>5, <2>3, <2>4, <2>5
<1>6. CASE b.type = "grow"
  <2> DEFINE m == l + offset
             e == IF m > n THEN Resize(b, m) ELSE b
             d == Put(e.data, offset, bytes)
  <2>1. m \in Nat \ {0} /\ m = l + offset
    OBVIOUS
  <2>2. c = [e EXCEPT !.data = d]
    BY <1>2, <1>6 DEF write_to_buffer
  <2>3. d = Put(e.data, offset, bytes)
    OBVIOUS
  <2> HIDE DEF d, m
  <2>4. /\ e \in Buffer /\ e.alignment = b.alignment /\ e.type = b.type
        /\ e.position = b.position /\ n <= GetSize(e) /\ m <= GetSize(e)
        /\ \A i \in 1 .. n : e.data[i] = b.data[i]
    <3>1. CASE m > n
      <4>1. e = Resize(b, m)
        BY <3>1
      <4> HIDE DEF e
      <4>2. /\ e \in Buffer /\ GetSize(e) = m /\ e.position = b.position
            /\ e.alignment = b.alignment /\ e.type = b.type
            /\ \A i \in 1 .. m : e.data[i] = IF i <= GetSize(b) THEN b.data[i] ELSE 0
        BY <2>1, <4>1, Resizes
      <4>3. \A i \in 1 .. n : i \in 1 .. m /\ i <= n
        BY <1>1, <2>1, <3>1
      <4>4. \A i \in 1 .. n : e.data[i] = b.data[i]
        BY <1>2, <4>2, <4>3
      <4> QED
        BY <1>1, <2>1, <3>1, <4>2, <4>4
    <3>2. CASE ~(m > n)
      <4>1. e = b
        BY <3>2
      <4> HIDE DEF e
      <4> QED
        BY <1>1, <1>2, <2>1, <3>2, <4>1
    <3> QED
      BY <3>1, <3>2
  <2> HIDE DEF e
  <2> DEFINE k == GetSize(e)
             a == e.data
  <2>5. k \in Nat /\ a \in Seq(Nat) /\ Len(a) = k /\ n <= k /\ offset + l <= k
    <3>1. k \in Nat /\ a \in Seq(Nat) /\ Len(a) = k
      BY <2>4, BufferTyped DEF GetSize
    <3>2. offset + l <= k
      BY <2>1, <2>4
    <3> QED
      BY <2>4, <3>1, <3>2
  <2>6. d = Put(a, offset, bytes) /\ k = GetSize(e) /\ a = e.data
    BY <2>3
  <2> HIDE DEF k, a
  <2>7. d \in Seq(Nat) /\ Len(d) = k
    BY <2>5, <2>6, Puts
  <2>8. /\ \A i \in 1 .. l : d[offset + i] = bytes[i]
        /\ \A i \in 1 .. k : i <= offset => d[i] = a[i]
    <3>1. a \in Seq(Nat) /\ offset + Len(bytes) <= Len(a)
      BY <2>5
    <3>2. /\ \A i \in 1 .. Len(bytes) : Put(a, offset, bytes)[offset + i] = bytes[i]
          /\ \A i \in 1 .. Len(a) : i <= offset => Put(a, offset, bytes)[i] = a[i]
      BY <3>1, PutWithRoom
    <3> QED
      BY <2>5, <2>6, <3>2
  <2>9. c \in Buffer /\ c.alignment = b.alignment /\ c.type = b.type
        /\ c.position = b.position /\ GetSize(c) = k /\ c.data = d
    BY <1>3, <2>2, <2>4, <2>6, <2>7
  <2>10. \A i \in 1 .. n : i <= offset => d[i] = b.data[i]
    <3>1. \A i \in 1 .. n : i \in 1 .. k
      BY <1>1, <2>5
    <3> QED
      BY <2>4, <2>6, <2>8, <3>1
  <2> QED
    BY <1>2, <1>6, <2>5, <2>8, <2>9, <2>10
<1> QED
  BY <1>1, <1>4, <1>5, <1>6

-----------------------------------------------------------------------------
(* Counting up. *)

\* A set of natural numbers that is not empty has a least member.
LEMMA LeastNatural ==
  ASSUME NEW T \in SUBSET Nat, T # {}
  PROVE  \E m \in T : \A k \in T : m <= k
<1> DEFINE Less == {x \in Nat \X Nat : x[1] < x[2]}
<1>1. IsWellFoundedOn(Less, Nat)
  BY NatLessThanWellFounded DEF OpToRel
<1>2. PICK m \in T : \A k \in T : <<k, m>> \notin Less
  BY <1>1, WFMin
<1>3. ASSUME NEW k \in T
      PROVE  m <= k
  <2>1. m \in Nat /\ k \in Nat
    OBVIOUS
  <2>2. <<k, m>> \in Nat \X Nat /\ <<k, m>>[1] = k /\ <<k, m>>[2] = m
    BY <2>1
  <2>3. ~(k < m)
    BY <2>2, <1>2
  <2> QED
    BY <2>1, <2>3
<1> QED
  BY <1>3

\* What holds of 0, and of k + 1 when it holds of k, holds up to m.
LEMMA CountUp ==
  ASSUME NEW m \in Nat, NEW S, 0 \in S, \A k \in 0 .. m - 1 : k \in S => k + 1 \in S
  PROVE  \A k \in 0 .. m : k \in S
<1> DEFINE T == {k \in 0 .. m : k \notin S}
<1>1. SUFFICES ASSUME T # {} PROVE FALSE
  OBVIOUS
<1>2. T \in SUBSET Nat
  OBVIOUS
<1>3. PICK j \in T : \A k \in T : j <= k
  <2> HIDE DEF T
  <2> QED
    BY <1>1, <1>2, LeastNatural
<1>4. j # 0 /\ j \in 0 .. m /\ j - 1 \in 0 .. m - 1 /\ (j - 1) + 1 = j /\ ~(j <= j - 1)
  OBVIOUS
<1>5. j - 1 \in S
  <2>1. SUFFICES ASSUME j - 1 \notin S PROVE FALSE
    OBVIOUS
  <2>2. j - 1 \in T
    BY <1>4, <2>1
  <2> QED
    BY <1>3, <1>4, <2>2
<1> QED
  BY <1>3, <1>4, <1>5

-----------------------------------------------------------------------------
(* write_to_buffer, and WriteByte of one byte after the other. *)

\* The buffer after the first m bytes, for each number up to m.
Stepwise(b, bytes, offset, m, g) ==
  /\ g \in [0 .. m -> Buffer]
  /\ g[0] = Seek(b, offset)
  /\ \A k \in 1 .. m : g[k] = WriteByte(g[k - 1], bytes[k])

\* The recursive function in the definition of Bytewise.
AfterOf(b, bytes, offset) ==
  CHOOSE after : after = [k \in 0 .. Len(bytes) |->
     IF k = 0 THEN Seek(b, offset) ELSE WriteByte(after[k - 1], bytes[k])]

LEMMA StepwiseExists ==
  ASSUME NEW b \in Buffer, NEW bytes \in Seq(Nat), NEW offset \in Int
  PROVE  \E g : Stepwise(b, bytes, offset, Len(bytes), g)
<1> DEFINE l == Len(bytes)
           S == {m \in 0 .. l : \E g : Stepwise(b, bytes, offset, m, g)}
<1>1. l \in Nat /\ \A i \in 1 .. l : bytes[i] \in Nat
  BY LenProperties
<1> HIDE DEF l
<1>2. 0 \in S
  <2> DEFINE g == [k \in 0 .. 0 |-> Seek(b, offset)]
  <2>1. Seek(b, offset) \in Buffer
    BY Seeks
  <2>2. Stepwise(b, bytes, offset, 0, g)
    BY <2>1 DEF Stepwise
  <2>3. 0 \in 0 .. l
    BY <1>1
  <2> HIDE DEF g
  <2> QED
    BY <2>2, <2>3
<1>3. ASSUME NEW j \in 0 .. l - 1, j \in S
      PROVE  j + 1 \in S
  <2>1. PICK g : Stepwise(b, bytes, offset, j, g)
    BY <1>3
  <2> DEFINE m == j + 1
             w == WriteByte(g[j], bytes[m])
             h == [k \in 0 .. m |-> IF k = m THEN w ELSE g[k]]
  <2>2. /\ m \in 1 .. l /\ m \in Nat /\ j \in Nat /\ m - 1 = j /\ j \in 0 .. j
        /\ \A k \in 0 .. m : k = m \/ k \in 0 .. j
        /\ \A k \in 0 .. j : k \in 0 .. m /\ k # m
    BY <1>1
  <2> HIDE DEF m
  <2>3. w \in Buffer
    <3>1. g[j] \in Buffer /\ bytes[m] \in Nat
      BY <1>1, <2>1, <2>2 DEF Stepwise
    <3> HIDE DEF w
    <3> QED
      BY <3>1, WritesByte DEF w
  <2>4. h[m] = WriteByte(g[j], bytes[m]) /\ \A k \in 0 .. j : h[k] = g[k]
    BY <2>2
  <2>5. h \in [0 .. m -> Buffer]
    <3>1. \A k \in 0 .. j : g[k] \in Buffer
      BY <2>1 DEF Stepwise
    <3> HIDE DEF w
    <3> QED
      BY <2>2, <2>3, <3>1
  <2> HIDE DEF h, w
  <2>6. h[0] = Seek(b, offset)
    BY <2>1, <2>2, <2>4 DEF Stepwise
  <2>7. ASSUME NEW k \in 1 .. m
        PROVE  h[k] = WriteByte(h[k - 1], bytes[k])
    <3>1. CASE k = m
      BY <2>2, <2>4, <3>1
    <3>2. CASE k # m
      <4>1. k \in 1 .. j /\ k \in 0 .. j /\ k - 1 \in 0 .. j
        BY <2>2, <3>2
      <4>2. g[k] = WriteByte(g[k - 1], bytes[k])
        BY <2>1, <4>1 DEF Stepwise
      <4> QED
        BY <2>4, <4>1, <4>2
    <3> QED
      BY <3>1, <3>2
  <2>8. Stepwise(b, bytes, offset, m, h)
    BY <2>5, <2>6, <2>7 DEF Stepwise
  <2>9. m \in 0 .. l
    BY <1>1, <2>2
  <2> QED
    BY <2>8, <2>9 DEF m
<1>4. \A k \in 0 .. l : k \in S
  <2> HIDE DEF S
  <2> QED
    BY <1>1, <1>2, <1>3, CountUp
<1>5. l \in 0 .. l
  BY <1>1
<1> QED
  BY <1>4, <1>5 DEF l

\* It is what its definition says it is.
LEMMA BytewiseSteps ==
  ASSUME NEW b \in Buffer, NEW bytes \in Seq(Nat), NEW offset \in Int
  PROVE  LET f == AfterOf(b, bytes, offset)
         IN  /\ Bytewise(b, bytes, offset) = f[Len(bytes)]
             /\ f[0] = Seek(b, offset)
             /\ \A k \in 1 .. Len(bytes) : f[k] = WriteByte(f[k - 1], bytes[k])
<1> DEFINE l == Len(bytes)
           f == AfterOf(b, bytes, offset)
<1>1. l \in Nat
  BY LenProperties
<1>2. PICK g : Stepwise(b, bytes, offset, l, g)
  BY StepwiseExists
<1>3. g = [k \in 0 .. l |->
             IF k = 0 THEN Seek(b, offset) ELSE WriteByte(g[k - 1], bytes[k])]
  <2>1. g = [k \in 0 .. l |-> g[k]]
    BY <1>2 DEF Stepwise
  <2>2. \A k \in 0 .. l :
          g[k] = IF k = 0 THEN Seek(b, offset) ELSE WriteByte(g[k - 1], bytes[k])
    <3>1. \A k \in 0 .. l : k # 0 => k \in 1 .. l
      BY <1>1
    <3> QED
      BY <1>2, <3>1 DEF Stepwise
  <2> HIDE DEF l
  <2> QED
    BY <2>1, <2>2
<1>4. f = [k \in 0 .. l |->
             IF k = 0 THEN Seek(b, offset) ELSE WriteByte(f[k - 1], bytes[k])]
  BY <1>3 DEF AfterOf
<1>5. Bytewise(b, bytes, offset) = f[l]
  BY DEF Bytewise, AfterOf
<1> HIDE DEF l, f
<1>6. f[0] = Seek(b, offset)
  <2>1. 0 \in 0 .. l
    BY <1>1
  <2> QED
    BY <1>4, <2>1
<1>7. \A k \in 1 .. l : f[k] = WriteByte(f[k - 1], bytes[k])
  <2>1. \A k \in 1 .. l : k \in 0 .. l /\ k # 0
    BY <1>1
  <2> QED
    BY <1>4, <2>1
<1> QED
  BY <1>5, <1>6, <1>7 DEF l, f

\* Byte k goes to the offset plus k, or that much past the start.
LEMMA BlockIsBytewise ==
  ASSUME NEW b \in Buffer, b.type = "wrap", NEW bytes \in Seq(Nat), bytes # <<>>,
         NEW offset \in Nat, Len(bytes) <= GetSize(b)
  PROVE  write_to_buffer(b, bytes, offset).data = Bytewise(b, bytes, offset).data
<1> DEFINE n == GetSize(b)
           l == Len(bytes)
           o == offset % n
           f == AfterOf(b, bytes, offset)
           Place(k) == IF o + k < n THEN o + k ELSE o + k - n
           Now(k, i) == IF i + n - o \in 1 .. k THEN bytes[i + n - o]
                        ELSE IF i - o \in 1 .. k THEN bytes[i - o]
                        ELSE b.data[i]
           S == {k \in 0 .. l : /\ f[k] \in Buffer /\ f[k].type = "wrap" /\ GetSize(f[k]) = n
                                /\ f[k].position = Place(k)
                                /\ \A i \in 1 .. n : f[k].data[i] = Now(k, i)}
<1>1. n \in Nat \ {0} /\ b.data \in Seq(Nat) /\ Len(b.data) = n
  BY BufferTyped DEF GetSize
<1>2. l \in Nat \ {0} /\ \A i \in 1 .. l : bytes[i] \in Nat
  BY EmptySeq, LenProperties
<1>3. l <= n /\ n = GetSize(b) /\ o = offset % n /\ l = Len(bytes)
  OBVIOUS
<1>4. o \in 0 .. n - 1
  <2>1. offset \in Int
    OBVIOUS
  <2> HIDE DEF n
  <2> QED
    BY <1>1, <2>1, DivMod
<1>5. /\ Bytewise(b, bytes, offset) = f[l]
      /\ f[0] = Seek(b, offset)
      /\ \A k \in 1 .. l : f[k] = WriteByte(f[k - 1], bytes[k])
  <2>1. offset \in Int
    OBVIOUS
  <2> QED
    BY <2>1, BytewiseSteps
<1> HIDE DEF n, l, o, f
<1>6. 0 \in S
  <2>1. 0 \in 0 .. l
    BY <1>2
  <2>2. offset \in Int /\ offset \in Nat
    OBVIOUS
  <2>3. /\ f[0] \in Buffer /\ f[0].type = "wrap" /\ f[0].data = b.data
        /\ f[0].position = offset % GetSize(b)
    <3> DEFINE c == Seek(b, offset)
    <3>1. c \in Buffer /\ c.type = b.type
      BY <2>2, Seeks
    <3>2. c.data = b.data
      BY <2>2, Seeks
    <3>3. c.position = offset % GetSize(b)
      BY <2>2, Seeks
    <3> QED
      BY <1>5, <3>1, <3>2, <3>3
  <2>4. GetSize(f[0]) = n
    BY <1>1, <2>3 DEF GetSize
  <2>5. f[0].position = Place(0)
    BY <1>1, <1>3, <1>4, <2>3
  <2>6. \A i \in 1 .. n : f[0].data[i] = Now(0, i)
    <3>1. \A i \in 1 .. n : i + n - o \notin 1 .. 0 /\ i - o \notin 1 .. 0
      BY <1>1, <1>4
    <3> QED
      BY <2>3, <3>1
  <2> QED
    BY <2>1, <2>3, <2>4, <2>5, <2>6
<1>7. ASSUME NEW j \in 0 .. l - 1, j \in S
      PROVE  j + 1 \in S
  <2> DEFINE m == j + 1
             c == f[j]
             d == f[m]
             p == Place(j)
             v == bytes[m]
  <2>1. /\ m \in 1 .. l /\ m \in 0 .. l /\ m - 1 = j /\ j \in Nat /\ m = j + 1 /\ m <= n
        /\ v \in Nat
    BY <1>1, <1>2, <1>3
  <2>2. /\ c \in Buffer /\ c.type = "wrap" /\ GetSize(c) = n /\ c.position = p
        /\ \A i \in 1 .. n : c.data[i] = Now(j, i)
    BY <1>7
  <2>3. d = WriteByte(c, v) /\ v = bytes[m]
    BY <1>5, <2>1
  <2>4. p \in 0 .. n - 1 /\ p = (IF o + j < n THEN o + j ELSE o + j - n)
    BY <1>1, <1>4, <2>1
  <2> HIDE DEF m, c, d, p, v
  <2>5. c.position < GetSize(c)
    BY <1>1, <2>2, <2>4
  <2>6. /\ d \in Buffer /\ d.type = "wrap" /\ GetSize(d) = n
        /\ d.position = (c.position + 1) % GetSize(c)
        /\ \A i \in 1 .. n : d.data[i] = IF i = c.position + 1 THEN v ELSE c.data[i]
    <3> DEFINE w == WriteByte(c, v)
    <3>1. w \in Buffer /\ w.type = c.type
      BY <2>1, <2>2, WritesByte
    <3>2. w.position = (c.position + 1) % GetSize(c) /\ GetSize(w) = GetSize(c)
      BY <2>1, <2>2, <2>5, WritesByte
    <3>3. \A i \in 1 .. GetSize(c) : w.data[i] = IF i = c.position + 1 THEN v ELSE c.data[i]
      BY <2>1, <2>2, <2>5, WritesByte
    <3>4. w = d
      BY <2>3
    <3> HIDE DEF w
    <3> QED
      BY <2>2, <3>1, <3>2, <3>3, <3>4
  <2>7. d.position = Place(m)
    <3>1. (p + 1) % n = IF p + 1 < n THEN p + 1 ELSE 0
      <4>1. CASE p + 1 < n
        <5>1. p + 1 \in 0 .. n - 1
          BY <1>1, <2>4, <4>1
        <5> QED
          BY <1>1, <4>1, <5>1, ModOfSmall
      <4>2. CASE ~(p + 1 < n)
        <5> DEFINE x == p + 1
        <5>1. x \in n .. 2 * n - 1 /\ x - n = 0
          BY <1>1, <2>4, <4>2
        <5> HIDE DEF x
        <5>2. x % n = x - n
          BY <1>1, <5>1, ModPastEnd
        <5> QED
          BY <4>2, <5>1, <5>2 DEF x
      <4> QED
        BY <4>1, <4>2
    <3>2. Place(m) = IF p + 1 < n THEN p + 1 ELSE 0
      BY <1>1, <1>4, <2>1, <2>4
    <3> QED
      BY <2>2, <2>6, <3>1, <3>2
  <2>8. ASSUME NEW i \in 1 .. n
        PROVE  d.data[i] = Now(m, i)
    <3>1. d.data[i] = IF i = p + 1 THEN v ELSE Now(j, i)
      BY <2>2, <2>6
    <3>2. CASE i = p + 1
      <4>1. CASE o + j < n
        <5>1. i - o = m /\ i + n - o \notin 1 .. m
          BY <1>1, <1>4, <2>1, <2>4, <3>2, <4>1
        <5>2. i - o \in 1 .. m
          BY <2>1, <5>1
        <5> QED
          BY <2>3, <3>1, <3>2, <5>1, <5>2
      <4>2. CASE ~(o + j < n)
        <5>1. i + n - o = m
          BY <1>1, <1>4, <2>1, <2>4, <3>2, <4>2
        <5>2. i + n - o \in 1 .. m
          BY <2>1, <5>1
        <5> QED
          BY <2>3, <3>1, <3>2, <5>1, <5>2
      <4> QED
        BY <4>1, <4>2
    <3>3. CASE i # p + 1
      <4>1. i - o # m
        BY <1>1, <1>4, <2>1, <2>4, <3>3
      <4>2. i + n - o # m
        BY <1>1, <1>4, <2>1, <2>4, <3>3
      <4>3. (i - o \in 1 .. m <=> i - o \in 1 .. j) /\ (i + n - o \in 1 .. m <=> i + n - o \in 1 .. j)
        BY <1>1, <1>4, <2>1, <4>1, <4>2
      <4>4. Now(m, i) = Now(j, i)
        BY <4>3
      <4> QED
        BY <3>1, <3>3, <4>4
    <3> QED
      BY <3>2, <3>3
  <2>9. m \in S
    BY <2>1, <2>6, <2>7, <2>8 DEF d
  <2> QED
    BY <2>1, <2>9
<1>8. \A k \in 0 .. l : k \in S
  <2>1. l \in Nat
    BY <1>2
  <2> HIDE DEF S
  <2> QED
    BY <1>6, <1>7, <2>1, CountUp
<1>9. f[l] \in Buffer /\ GetSize(f[l]) = n /\ \A i \in 1 .. n : f[l].data[i] = Now(l, i)
  <2>1. l \in S
    BY <1>2, <1>8
  <2> QED
    BY <2>1
<1> DEFINE e == write_to_buffer(b, bytes, offset).data
           g == f[l].data
<1>10. /\ e \in Seq(Nat) /\ Len(e) = n
       /\ \A i \in 1 .. n : e[i] = Now(l, i)
  <2>1. e = Wrapped(b, bytes, offset)
    <3>1. write_to_buffer(b, bytes, offset) = [b EXCEPT !.data = Wrapped(b, bytes, offset)]
      BY DEF write_to_buffer
    <3>2. [b EXCEPT !.data = Wrapped(b, bytes, offset)].data = Wrapped(b, bytes, offset)
      BY WithData
    <3> QED
      BY <3>1, <3>2
  <2> HIDE DEF e
  <2>2. e \in Seq(Nat) /\ Len(e) = GetSize(b)
    BY <2>1, Wraps
  <2>3. \A i \in 1 .. GetSize(b) :
          e[i] = IF i + GetSize(b) - (offset % GetSize(b)) \in 1 .. Len(bytes)
                 THEN bytes[i + GetSize(b) - (offset % GetSize(b))]
                 ELSE IF i - (offset % GetSize(b)) \in 1 .. Len(bytes)
                 THEN bytes[i - (offset % GetSize(b))]
                 ELSE b.data[i]
    BY <2>1, Wraps
  <2> QED
    BY <1>3, <2>2, <2>3
<1>11. g \in Seq(Nat) /\ Len(g) = n
  BY <1>9, BufferTyped DEF GetSize
<1>12. e = g
  <2>1. \A i \in 1 .. n : e[i] = g[i]
    BY <1>9, <1>10
  <2> HIDE DEF e, g
  <2> QED
    BY <1>10, <1>11, <2>1, SeqEqual
<1> QED
  BY <1>5, <1>12

-----------------------------------------------------------------------------
(* Where the values of a tape are. *)

\* The ends of the first m values.
EndsUpTo(values, a, m, g) ==
  /\ g \in [0 .. m -> Nat]
  /\ g[0] = 0
  /\ \A k \in 1 .. m : g[k] = AlignedUp(g[k - 1], a) + Len(values[k])

\* The recursive function in the definition of TapeEnd.
EndsOf(values, a) ==
  CHOOSE end : end = [k \in 0 .. Len(values) |->
     IF k = 0 THEN 0 ELSE AlignedUp(end[k - 1], a) + Len(values[k])]

LEMMA EndsExist ==
  ASSUME NEW values \in Seq(Data), NEW a \in Nat \ {0}
  PROVE  \E g : EndsUpTo(values, a, Len(values), g)
<1> DEFINE l == Len(values)
           S == {m \in 0 .. l : \E g : EndsUpTo(values, a, m, g)}
<1>1. l \in Nat /\ \A i \in 1 .. l : values[i] \in Data
  BY LenProperties
<1> HIDE DEF l
<1>2. 0 \in S
  <2> DEFINE g == [k \in 0 .. 0 |-> 0]
  <2>1. EndsUpTo(values, a, 0, g)
    BY DEF EndsUpTo
  <2>2. 0 \in 0 .. l
    BY <1>1
  <2> HIDE DEF g
  <2> QED
    BY <2>1, <2>2
<1>3. ASSUME NEW j \in 0 .. l - 1, j \in S
      PROVE  j + 1 \in S
  <2>1. PICK g : EndsUpTo(values, a, j, g)
    BY <1>3
  <2> DEFINE m == j + 1
             w == AlignedUp(g[j], a) + Len(values[m])
             h == [k \in 0 .. m |-> IF k = m THEN w ELSE g[k]]
  <2>2. /\ m \in 1 .. l /\ m \in Nat /\ j \in Nat /\ m - 1 = j /\ j \in 0 .. j
        /\ \A k \in 0 .. m : k = m \/ k \in 0 .. j
        /\ \A k \in 0 .. j : k \in 0 .. m /\ k # m
    BY <1>1
  <2> HIDE DEF m
  <2>3. w \in Nat
    <3>1. g[j] \in Nat
      BY <2>1, <2>2 DEF EndsUpTo
    <3>2. AlignedUp(g[j], a) \in Nat
      BY <3>1, AlignedUpIs
    <3>3. values[m] \in Seq(Nat)
      BY <1>1, <2>2, BuffersAssumption
    <3>4. Len(values[m]) \in Nat
      BY <3>3, LenProperties
    <3> QED
      BY <3>2, <3>4
  <2>4. h[m] = AlignedUp(g[j], a) + Len(values[m]) /\ \A k \in 0 .. j : h[k] = g[k]
    BY <2>2
  <2>5. h \in [0 .. m -> Nat]
    <3>1. \A k \in 0 .. j : g[k] \in Nat
      BY <2>1 DEF EndsUpTo
    <3> HIDE DEF w
    <3> QED
      BY <2>2, <2>3, <3>1
  <2> HIDE DEF h, w
  <2>6. h[0] = 0
    BY <2>1, <2>2, <2>4 DEF EndsUpTo
  <2>7. ASSUME NEW k \in 1 .. m
        PROVE  h[k] = AlignedUp(h[k - 1], a) + Len(values[k])
    <3>1. CASE k = m
      BY <2>2, <2>4, <3>1
    <3>2. CASE k # m
      <4>1. k \in 1 .. j /\ k \in 0 .. j /\ k - 1 \in 0 .. j
        BY <2>2, <3>2
      <4>2. g[k] = AlignedUp(g[k - 1], a) + Len(values[k])
        BY <2>1, <4>1 DEF EndsUpTo
      <4> QED
        BY <2>4, <4>1, <4>2
    <3> QED
      BY <3>1, <3>2
  <2>8. EndsUpTo(values, a, m, h)
    BY <2>5, <2>6, <2>7 DEF EndsUpTo
  <2>9. m \in 0 .. l
    BY <1>1, <2>2
  <2> QED
    BY <2>8, <2>9 DEF m
<1>4. \A k \in 0 .. l : k \in S
  <2> HIDE DEF S
  <2> QED
    BY <1>1, <1>2, <1>3, CountUp
<1>5. l \in 0 .. l
  BY <1>1
<1> QED
  BY <1>4, <1>5 DEF l

\* It is what its definition says it is, and TapeEnd is its last number.
LEMMA Ends ==
  ASSUME NEW values \in Seq(Data), NEW a \in Nat \ {0}
  PROVE  /\ EndsUpTo(values, a, Len(values), EndsOf(values, a))
         /\ TapeEnd(values, a) = EndsOf(values, a)[Len(values)]
         /\ TapeEnd(values, a) \in Nat
<1> DEFINE l == Len(values)
           f == EndsOf(values, a)
<1>1. l \in Nat
  BY LenProperties
<1>2. PICK g : EndsUpTo(values, a, l, g)
  BY EndsExist
<1>3. g = [k \in 0 .. l |-> IF k = 0 THEN 0 ELSE AlignedUp(g[k - 1], a) + Len(values[k])]
  <2>1. g = [k \in 0 .. l |-> g[k]]
    BY <1>2 DEF EndsUpTo
  <2>2. \A k \in 0 .. l :
          g[k] = IF k = 0 THEN 0 ELSE AlignedUp(g[k - 1], a) + Len(values[k])
    <3>1. \A k \in 0 .. l : k # 0 => k \in 1 .. l
      BY <1>1
    <3> QED
      BY <1>2, <3>1 DEF EndsUpTo
  <2> HIDE DEF l
  <2> QED
    BY <2>1, <2>2
<1>4. f = [k \in 0 .. l |-> IF k = 0 THEN 0 ELSE AlignedUp(f[k - 1], a) + Len(values[k])]
  BY <1>3 DEF EndsOf
<1>5. TapeEnd(values, a) = f[l]
  BY DEF TapeEnd, EndsOf
<1> HIDE DEF l, f
<1>6. f[0] = 0
  <2>1. 0 \in 0 .. l
    BY <1>1
  <2> QED
    BY <1>4, <2>1
<1>7. \A k \in 1 .. l : f[k] = AlignedUp(f[k - 1], a) + Len(values[k])
  <2>1. \A k \in 1 .. l : k \in 0 .. l /\ k # 0
    BY <1>1
  <2> QED
    BY <1>4, <2>1
<1> DEFINE S == {k \in 0 .. l : f[k] = g[k]}
<1>8. 0 \in S
  BY <1>1, <1>2, <1>6 DEF EndsUpTo
<1>9. ASSUME NEW j \in 0 .. l - 1, j \in S
      PROVE  j + 1 \in S
  <2> DEFINE m == j + 1
  <2>1. m \in 1 .. l /\ m \in 0 .. l /\ m - 1 = j
    BY <1>1
  <2> HIDE DEF m
  <2>2. f[m] = AlignedUp(f[j], a) + Len(values[m])
    BY <1>7, <2>1
  <2>3. g[m] = AlignedUp(g[j], a) + Len(values[m])
    BY <1>2, <2>1 DEF EndsUpTo
  <2>4. f[j] = g[j]
    BY <1>9
  <2>5. f[m] = g[m]
    BY <2>2, <2>3, <2>4
  <2> QED
    BY <2>1, <2>5 DEF m
<1>10. \A k \in 0 .. l : k \in S
  <2> HIDE DEF S
  <2> QED
    BY <1>1, <1>8, <1>9, CountUp
<1>11. f = g
  <2>1. f = [k \in 0 .. l |-> f[k]]
    BY <1>4
  <2>2. g = [k \in 0 .. l |-> g[k]]
    BY <1>2 DEF EndsUpTo
  <2> QED
    BY <1>10, <2>1, <2>2
<1>12. f[l] \in Nat
  <2>1. l \in 0 .. l
    BY <1>1
  <2> QED
    BY <1>2, <1>11, <2>1 DEF EndsUpTo
<1> QED
  BY <1>2, <1>5, <1>11, <1>12 DEF l, f

\* Where the k-th of the values starts and ends.
End(values, a, k)   == EndsOf(values, a)[k]
Start(values, a, k) == AlignedUp(End(values, a, k - 1), a)

LEMMA Places ==
  ASSUME NEW values \in Seq(Data), NEW a \in Nat \ {0}
  PROVE  /\ Len(values) \in Nat
         /\ End(values, a, 0) = 0
         /\ End(values, a, Len(values)) = TapeEnd(values, a)
         /\ \A k \in 0 .. Len(values) :
              End(values, a, k) \in Nat /\ End(values, a, k) <= TapeEnd(values, a)
         /\ \A k \in 1 .. Len(values) :
              /\ values[k] \in Data /\ Len(values[k]) \in Nat \ {0}
              /\ Start(values, a, k) \in Nat
              /\ End(values, a, k - 1) <= Start(values, a, k)
              /\ End(values, a, k) = Start(values, a, k) + Len(values[k])
<1> DEFINE l == Len(values)
           E == EndsOf(values, a)
           e == TapeEnd(values, a)
<1>1. l \in Nat /\ \A k \in 1 .. l : values[k] \in Data
  BY LenProperties
<1>2. EndsUpTo(values, a, l, E) /\ e = E[l]
  BY Ends
<1>3. \A k \in 0 .. l : End(values, a, k) = E[k]
  BY DEF End
<1> HIDE DEF l, E, e
<1>4. \A k \in 0 .. l : E[k] \in Nat
  BY <1>2 DEF EndsUpTo
<1>5. \A k \in 1 .. l : Len(values[k]) \in Nat \ {0}
  <2>1. \A k \in 1 .. l : values[k] \in Seq(Nat) /\ values[k] # <<>>
    BY <1>1, BuffersAssumption
  <2> QED
    BY <2>1, EmptySeq
<1>6. ASSUME NEW k \in 1 .. l
      PROVE  /\ k - 1 \in 0 .. l /\ k \in 0 .. l
             /\ Start(values, a, k) \in Nat
             /\ E[k - 1] <= Start(values, a, k)
             /\ E[k] = Start(values, a, k) + Len(values[k])
  <2>1. k - 1 \in 0 .. l /\ k \in 0 .. l
    BY <1>1
  <2> DEFINE x == E[k - 1]
  <2>2. x \in Nat
    BY <1>4, <2>1
  <2>3. Start(values, a, k) = AlignedUp(x, a)
    BY <1>3, <2>1 DEF Start
  <2>4. E[k] = AlignedUp(x, a) + Len(values[k])
    BY <1>2 DEF EndsUpTo
  <2>5. x = E[k - 1]
    OBVIOUS
  <2> HIDE DEF x
  <2>6. AlignedUp(x, a) \in Nat /\ x <= AlignedUp(x, a)
    BY <2>2, AlignedUpIs
  <2> QED
    BY <2>1, <2>3, <2>4, <2>5, <2>6
<1> DEFINE S == {k \in 0 .. l : E[l - k] <= E[l]}
<1>7. 0 \in S
  <2>1. 0 \in 0 .. l /\ l \in 0 .. l /\ l - 0 = l
    BY <1>1
  <2>2. E[l] <= E[l]
    BY <1>4, <2>1
  <2> QED
    BY <2>1, <2>2
<1>8. ASSUME NEW j \in 0 .. l - 1, j \in S
      PROVE  j + 1 \in S
  <2> DEFINE k == l - j
  <2>1. k \in 1 .. l /\ l - (j + 1) = k - 1 /\ k - 1 \in 0 .. l /\ k \in 0 .. l
        /\ j + 1 \in 0 .. l /\ l \in 0 .. l
    BY <1>1
  <2>2. E[k] <= E[l]
    BY <1>8
  <2> HIDE DEF k
  <2> DEFINE x == E[k - 1]
             y == E[k]
             z == E[l]
             st == Start(values, a, k)
             w == Len(values[k])
  <2>3. x \in Nat /\ y \in Nat /\ z \in Nat /\ y <= z /\ st \in Nat /\ w \in Nat
        /\ x <= st /\ y = st + w
    BY <1>4, <1>5, <1>6, <2>1, <2>2
  <2> HIDE DEF x, y, z, st, w
  <2>4. x <= z
    BY <2>3
  <2> QED
    BY <2>1, <2>4 DEF x, z
<1>9. \A k \in 0 .. l : k \in S
  <2> HIDE DEF S
  <2> QED
    BY <1>1, <1>7, <1>8, CountUp
<1>10. \A k \in 0 .. l : E[k] <= e
  <2>1. ASSUME NEW k \in 0 .. l
        PROVE  E[k] <= e
    <3> DEFINE j == l - k
    <3>1. j \in 0 .. l /\ l - j = k
      BY <1>1
    <3>2. E[l - j] <= E[l]
      BY <1>9, <3>1
    <3> HIDE DEF j
    <3> QED
      BY <1>2, <3>1, <3>2
  <2> QED
    BY <2>1
<1>11. l \in 0 .. l /\ 0 \in 0 .. l /\ E[0] = 0
  BY <1>1, <1>2 DEF EndsUpTo
<1>12. \A k \in 1 .. l : k \in 0 .. l /\ k - 1 \in 0 .. l
  BY <1>6
<1>13. \A k \in 1 .. l : /\ Start(values, a, k) \in Nat
                         /\ End(values, a, k - 1) <= Start(values, a, k)
                         /\ End(values, a, k) = Start(values, a, k) + Len(values[k])
  BY <1>3, <1>6, <1>12
<1> QED
  BY <1>1, <1>2, <1>3, <1>4, <1>5, <1>10, <1>11, <1>13 DEF l, e

\* Another value leaves the ones before it where they are.
LEMMA PlacesAppend ==
  ASSUME NEW values \in Seq(Data), NEW a \in Nat \ {0}, NEW v \in Data
  PROVE  LET more == Append(values, v)
         IN  /\ more \in Seq(Data) /\ Len(more) = Len(values) + 1
             /\ more[Len(values) + 1] = v
             /\ \A k \in 1 .. Len(values) : more[k] = values[k]
             /\ \A k \in 0 .. Len(values) : End(more, a, k) = End(values, a, k)
             /\ TapeEnd(more, a) = AlignedUp(TapeEnd(values, a), a) + Len(v)
<1> DEFINE more == Append(values, v)
           l == Len(values)
<1>1. /\ more \in Seq(Data) /\ Len(more) = l + 1 /\ more[l + 1] = v
      /\ \A k \in 1 .. l : more[k] = values[k]
      /\ l \in Nat
  <2>1. l \in Nat
    BY LenProperties
  <2> QED
    BY <2>1, AppendProperties
<1> DEFINE f == EndsOf(values, a)
           g == EndsOf(more, a)
           S == {k \in 0 .. l : g[k] = f[k]}
<1>2. EndsUpTo(values, a, l, f)
  BY Ends
<1>3. EndsUpTo(more, a, l + 1, g)
  <2> HIDE DEF more, g, l
  <2>1. EndsUpTo(more, a, Len(more), EndsOf(more, a))
    BY <1>1, Ends
  <2> QED
    BY <1>1, <2>1 DEF g
<1>4. TapeEnd(values, a) = f[l]
  BY Ends
<1>5. TapeEnd(more, a) = g[l + 1]
  <2> HIDE DEF more, g, l
  <2>1. TapeEnd(more, a) = EndsOf(more, a)[Len(more)]
    BY <1>1, Ends
  <2> QED
    BY <1>1, <2>1 DEF g
<1>6. /\ \A k \in 0 .. l : End(values, a, k) = f[k]
      /\ \A k \in 0 .. l : End(more, a, k) = g[k]
  BY DEF End
<1> HIDE DEF f, g, more, l
<1>7. 0 \in S
  BY <1>1, <1>2, <1>3 DEF EndsUpTo
<1>8. ASSUME NEW j \in 0 .. l - 1, j \in S
      PROVE  j + 1 \in S
  <2> DEFINE m == j + 1
  <2>1. m \in 1 .. l /\ m \in 1 .. l + 1 /\ m \in 0 .. l /\ m - 1 = j
    BY <1>1
  <2> HIDE DEF m
  <2>2. f[m] = AlignedUp(f[j], a) + Len(values[m])
    BY <1>2, <2>1 DEF EndsUpTo
  <2>3. g[m] = AlignedUp(g[j], a) + Len(more[m])
    BY <1>3, <2>1 DEF EndsUpTo
  <2>4. f[j] = g[j] /\ more[m] = values[m]
    BY <1>1, <1>8, <2>1
  <2>5. g[m] = f[m]
    BY <2>2, <2>3, <2>4
  <2> QED
    BY <2>1, <2>5 DEF m
<1>9. \A k \in 0 .. l : k \in S
  <2> HIDE DEF S
  <2> QED
    BY <1>1, <1>7, <1>8, CountUp
<1>10. g[l + 1] = AlignedUp(f[l], a) + Len(v)
  <2>1. l + 1 \in 1 .. l + 1 /\ (l + 1) - 1 = l /\ l \in 0 .. l
    BY <1>1
  <2>2. g[l + 1] = AlignedUp(g[(l + 1) - 1], a) + Len(more[l + 1])
    BY <1>3, <2>1 DEF EndsUpTo
  <2> QED
    BY <1>1, <1>9, <2>1, <2>2
<1>11. TapeEnd(more, a) = AlignedUp(TapeEnd(values, a), a) + Len(v)
  BY <1>4, <1>5, <1>10
<1>12. \A k \in 0 .. l : End(more, a, k) = End(values, a, k)
  BY <1>6, <1>9
<1> QED
  BY <1>1, <1>11, <1>12 DEF l, more

LEMMA PlacesOfNone ==
  ASSUME NEW a \in Nat \ {0}
  PROVE  TapeEnd(<<>>, a) = 0 /\ <<>> \in Seq(Data) /\ Len(<<>>) = 0
<1>1. <<>> \in Seq(Data) /\ Len(<<>>) = 0
  BY EmptySeq
<1> DEFINE none == <<>>
<1>2. none \in Seq(Data) /\ Len(none) = 0 /\ none = <<>>
  BY <1>1
<1> HIDE DEF none
<1>3. End(none, a, 0) = 0 /\ End(none, a, Len(none)) = TapeEnd(none, a)
  BY <1>2, Places
<1> QED
  BY <1>1, <1>2, <1>3

-----------------------------------------------------------------------------
(* What the inductive invariant says. *)

\* The values are in the buffer, each at its place, and zeros are between them.
Laid(b, values) ==
  LET a == b.alignment
  IN  /\ TapeEnd(values, a) <= GetSize(b)
      /\ \A k \in 1 .. Len(values) :
           /\ \A i \in 1 .. Len(values[k]) : b.data[Start(values, a, k) + i] = values[k][i]
           /\ \A i \in End(values, a, k - 1) + 1 .. Start(values, a, k) : b.data[i] = 0

\* They stay so when the bytes up to their end do.
LEMMA LaidKept ==
  ASSUME NEW b \in Buffer, NEW c \in Buffer, c.alignment = b.alignment,
         GetSize(b) <= GetSize(c), NEW values \in Seq(Data), Laid(b, values),
         \A i \in 1 .. TapeEnd(values, b.alignment) : c.data[i] = b.data[i]
  PROVE  Laid(c, values)
<1> DEFINE a == b.alignment
           e == TapeEnd(values, a)
           n == GetSize(b)
           m == GetSize(c)
<1>1. a \in Nat \ {0} /\ n \in Nat /\ m \in Nat /\ n <= m
  BY BufferTyped
<1>2. e \in Nat /\ e <= n
  BY <1>1, Ends DEF Laid
<1>3. \A k \in 1 .. Len(values) :
        /\ \A i \in 1 .. Len(values[k]) : b.data[Start(values, a, k) + i] = values[k][i]
        /\ \A i \in End(values, a, k - 1) + 1 .. Start(values, a, k) : b.data[i] = 0
  BY DEF Laid
<1>4. \A i \in 1 .. e : c.data[i] = b.data[i]
  OBVIOUS
<1> HIDE DEF a
<1>5. ASSUME NEW k \in 1 .. Len(values)
      PROVE  /\ \A i \in 1 .. Len(values[k]) : c.data[Start(values, a, k) + i] = values[k][i]
             /\ \A i \in End(values, a, k - 1) + 1 .. Start(values, a, k) : c.data[i] = 0
  <2> DEFINE s == Start(values, a, k)
             x == End(values, a, k - 1)
             y == End(values, a, k)
             l == Len(values[k])
  <2>1. s \in Nat /\ x \in Nat /\ x <= s /\ y = s + l /\ l \in Nat /\ y <= e
    <3>1. Len(values) \in Nat
      BY <1>1, Places
    <3>2. k \in 0 .. Len(values) /\ k - 1 \in 0 .. Len(values)
      BY <3>1
    <3> QED
      BY <1>1, <3>2, Places
  <2>2. /\ \A i \in 1 .. l : b.data[s + i] = values[k][i]
        /\ \A i \in x + 1 .. s : b.data[i] = 0
    BY <1>3
  <2> HIDE DEF e, s, x, y, l
  <2>3. \A i \in 1 .. l : s + i \in 1 .. e
    BY <1>2, <2>1
  <2>4. \A i \in x + 1 .. s : i \in 1 .. e
    BY <1>2, <2>1
  <2>5. \A i \in 1 .. l : c.data[s + i] = values[k][i]
    BY <1>4, <2>2, <2>3
  <2>6. \A i \in x + 1 .. s : c.data[i] = 0
    BY <1>4, <2>2, <2>4
  <2> QED
    BY <2>5, <2>6 DEF s, x, l
<1>6. e <= m
  <2> HIDE DEF e, n, m
  <2> QED
    BY <1>1, <1>2
<1> QED
  BY <1>5, <1>6 DEF Laid, a

\* One more value, behind the padding.
LEMMA LaidAppend ==
  ASSUME NEW b \in Buffer, NEW c \in Buffer, c.alignment = b.alignment,
         GetSize(b) <= GetSize(c), NEW values \in Seq(Data), Laid(b, values), NEW v \in Data,
         NEW e, e = TapeEnd(values, b.alignment), NEW s, s = AlignedUp(e, b.alignment),
         s + Len(v) <= GetSize(c),
         \A i \in 1 .. e : c.data[i] = b.data[i],
         \A i \in e + 1 .. s : c.data[i] = 0,
         \A i \in 1 .. Len(v) : c.data[s + i] = v[i]
  PROVE  Laid(c, Append(values, v))
<1> DEFINE a == b.alignment
           more == Append(values, v)
           l == Len(values)
<1>1. a \in Nat \ {0} /\ c.alignment = a
  BY BufferTyped
<1>2. Laid(c, values)
  BY LaidKept
<1>3. /\ Len(more) = l + 1 /\ more[l + 1] = v /\ l \in Nat
      /\ \A k \in 1 .. l : more[k] = values[k]
      /\ \A k \in 0 .. l : End(more, a, k) = End(values, a, k)
      /\ TapeEnd(more, a) = AlignedUp(TapeEnd(values, a), a) + Len(v)
  <2> HIDE DEF a
  <2> QED
    BY <1>1, PlacesAppend, Places
<1>4. End(values, a, l) = e
  <2> HIDE DEF a
  <2>1. End(values, a, l) = TapeEnd(values, a)
    BY <1>1, Places
  <2> QED
    BY <2>1 DEF a
<1>5. e = TapeEnd(values, a) /\ s = AlignedUp(e, a)
  OBVIOUS
<1> HIDE DEF a, more, l
<1>6. TapeEnd(more, a) <= GetSize(c)
  BY <1>3, <1>5
<1>7. ASSUME NEW k \in 1 .. l + 1
      PROVE  /\ \A i \in 1 .. Len(more[k]) : c.data[Start(more, a, k) + i] = more[k][i]
             /\ \A i \in End(more, a, k - 1) + 1 .. Start(more, a, k) : c.data[i] = 0
  <2>1. k - 1 \in 0 .. l
    BY <1>3
  <2>2. End(more, a, k - 1) = End(values, a, k - 1)
    BY <1>3, <2>1
  <2>3. Start(more, a, k) = Start(values, a, k)
    BY <2>2 DEF Start
  <2>4. CASE k = l + 1
    <3>1. End(more, a, k - 1) = e
      <4>1. k - 1 = l
        BY <1>3, <2>4
      <4> QED
        BY <1>4, <2>2, <4>1
    <3>2. Start(more, a, k) = s
      BY <1>5, <3>1 DEF Start
    <3> QED
      BY <1>3, <2>4, <3>1, <3>2
  <2>5. CASE k # l + 1
    <3>1. k \in 1 .. l
      BY <1>3, <2>5
    <3>2. more[k] = values[k]
      BY <1>3, <3>1
    <3>3. /\ \A i \in 1 .. Len(values[k]) : c.data[Start(values, a, k) + i] = values[k][i]
          /\ \A i \in End(values, a, k - 1) + 1 .. Start(values, a, k) : c.data[i] = 0
      BY <1>1, <1>2, <3>1 DEF Laid, l
    <3> QED
      BY <2>2, <2>3, <3>2, <3>3
  <2> QED
    BY <2>4, <2>5
<1> QED
  BY <1>1, <1>3, <1>6, <1>7 DEF Laid, more

LEMMA LaidNone ==
  ASSUME NEW b \in Buffer
  PROVE  Laid(b, <<>>)
<1>1. b.alignment \in Nat \ {0} /\ GetSize(b) \in Nat
  BY BufferTyped
<1>2. TapeEnd(<<>>, b.alignment) = 0 /\ Len(<<>>) = 0
  BY <1>1, PlacesOfNone
<1>3. 0 <= GetSize(b) /\ 1 .. 0 = {}
  BY <1>1
<1> QED
  BY <1>2, <1>3 DEF Laid

\* A call could start on offset n: there is such a byte, or there will be.
Fits(b, n) == b.type = "grow" \/ n < GetSize(b)

\* A buffer b holds what is on its tape t, while a call on it is in progress or none
\* is.  Behind the last value it is padded as far as the seek position; the seek
\* position of a buffer that is read is between the value read last and the next.
Kept(b, t, call) ==
  LET a == b.alignment
      v == t.values
      r == t.read
      e == TapeEnd(v, a)
  IN  /\ r \in -2 .. Len(v)
      /\ r = -2 => v = <<>>
      /\ r # -2 => b.position < GetSize(b)
      /\ r = Writing =>
           /\ call # "write" \/ Fits(b, AlignedUp(e, a)) => Laid(b, v)
           /\ call \in {"none", "write"} /\ Fits(b, AlignedUp(e, a)) =>
                /\ b.position \in e .. AlignedUp(e, a)
                /\ \A i \in e + 1 .. b.position : b.data[i] = 0
      /\ r >= 0 /\ (call # "write" \/ r = 0) =>
           /\ Laid(b, v)
           /\ r = 0 => b.position = 0
           /\ r < Len(v) => b.position \in End(v, a, r) .. Start(v, a, r + 1)

Tape == [values : Seq(Data), read : Int]

LEMMA KeptLost ==
  ASSUME NEW b, NEW call
  PROVE  Kept(b, Lost, call) /\ Lost \in Tape
<1>1. Len(<<>>) = 0 /\ <<>> \in Seq(Data)
  BY EmptySeq
<1>2. -2 \in -2 .. 0 /\ ~(-2 >= 0) /\ -2 # -1 /\ -2 \in Int
  OBVIOUS
<1> QED
  BY <1>1, <1>2 DEF Kept, Lost, Writing, Tape

\* buffer_create.
LEMMA KeptNew ==
  ASSUME NEW size \in Nat \ {0}, NEW type \in Types, NEW al \in Alignments
  PROVE  LET b == [data |-> [i \in 1 .. size |-> 0], position |-> 0,
                   alignment |-> al, type |-> type]
             t == [values |-> <<>>, read |-> Writing]
         IN  b \in Buffer /\ t \in Tape /\ Kept(b, t, "none")
<1> DEFINE d == [i \in 1 .. size |-> 0]
           b == [data |-> d, position |-> 0, alignment |-> al, type |-> type]
           t == [values |-> <<>>, read |-> Writing]
<1>1. d \in Seq(Nat) /\ Len(d) = size
  <2>1. d \in [1 .. size -> Nat]
    OBVIOUS
  <2> HIDE DEF d
  <2> QED
    BY <2>1, SeqOfFunction
<1> HIDE DEF d
<1>2. b \in Buffer
  BY <1>1, BufferOf
<1>3. b.data = d /\ b.position = 0 /\ b.alignment = al
  OBVIOUS
<1>4. t.values = <<>> /\ t.read = -1
  BY DEF Writing
<1>5. GetSize(b) = size
  BY <1>1, <1>3 DEF GetSize
<1> HIDE DEF b
<1>6. t \in Tape
  BY PlacesOfNone, BuffersAssumption DEF Tape, Writing
<1> HIDE DEF t
<1>7. al \in Nat \ {0}
  BY BuffersAssumption
<1>8. TapeEnd(<<>>, al) = 0 /\ Len(<<>>) = 0
  BY <1>7, PlacesOfNone
<1>9. AlignedUp(0, al) \in Nat
  <2> DEFINE z == 0
  <2>1. z \in Nat /\ z = 0
    OBVIOUS
  <2> HIDE DEF z
  <2>2. AlignedUp(z, al) \in Nat
    BY <1>7, <2>1, AlignedUpIs
  <2> QED
    BY <2>1, <2>2
<1>10. Laid(b, <<>>)
  BY <1>2, LaidNone
<1>11. /\ 0 < size /\ 0 \in 0 .. AlignedUp(0, al) /\ 0 + 1 .. 0 = {}
       /\ -1 \in -2 .. 0 /\ ~(-1 >= 0) /\ -1 # -2
  BY <1>9
<1>12. Kept(b, t, "none")
  BY <1>3, <1>4, <1>5, <1>8, <1>10, <1>11 DEF Kept
<1> QED
  BY <1>2, <1>6, <1>12 DEF b, t, d

\* buffer_seek to the start.
LEMMA KeptSeek ==
  ASSUME NEW b \in Buffer, NEW t \in Tape, Kept(b, t, "none"), NEW x \in Int, x <= 0
  PROVE  Kept(Seek(b, x), [values |-> t.values, read |-> 0], "none")
<1> DEFINE c == Seek(b, x)
           v == t.values
           u == [values |-> v, read |-> 0]
           a == b.alignment
<1>1. /\ c \in Buffer /\ c.alignment = a /\ GetSize(b) <= GetSize(c)
      /\ c.position < GetSize(c) /\ c.position = 0
      /\ \A i \in 1 .. GetSize(b) : c.data[i] = b.data[i]
  BY Seeks
<1>2. v \in Seq(Data) /\ t.read \in Int
  BY DEF Tape
<1>3. a \in Nat \ {0} /\ GetSize(b) \in Nat
  BY BufferTyped
<1>4. u.values = v /\ u.read = 0
  OBVIOUS
<1> HIDE DEF c, u
<1>5. Laid(b, v)
  <2>1. CASE t.read = -2
    <3>1. v = <<>>
      BY <2>1 DEF Kept
    <3> QED
      BY <3>1, LaidNone
  <2>2. CASE t.read = -1
    BY <2>2 DEF Kept, Writing
  <2>3. CASE t.read # -1 /\ t.read # -2
    <3>1. t.read >= 0
      BY <1>2, <2>3 DEF Kept
    <3> QED
      BY <3>1 DEF Kept
  <2> QED
    BY <2>1, <2>2, <2>3
<1> HIDE DEF v
<1>6. Laid(c, v)
  <2>1. TapeEnd(v, a) <= GetSize(b)
    BY <1>5 DEF Laid
  <2>2. TapeEnd(v, a) \in Nat
    BY <1>2, <1>3, Ends
  <2>3. \A i \in 1 .. TapeEnd(v, a) : i \in 1 .. GetSize(b)
    BY <1>3, <2>1, <2>2
  <2>4. \A i \in 1 .. TapeEnd(v, a) : c.data[i] = b.data[i]
    BY <1>1, <2>3
  <2> QED
    BY <1>1, <1>2, <1>5, <2>4, LaidKept
<1>7. 0 < Len(v) => 0 \in End(v, a, 0) .. Start(v, a, 0 + 1)
  <2>1. SUFFICES ASSUME 0 < Len(v) PROVE 0 \in End(v, a, 0) .. Start(v, a, 0 + 1)
    OBVIOUS
  <2>2. Len(v) \in Nat /\ End(v, a, 0) = 0
    BY <1>2, <1>3, Places
  <2>3. 1 \in 1 .. Len(v)
    BY <2>1, <2>2
  <2>4. Start(v, a, 1) \in Nat
    BY <1>2, <1>3, <2>3, Places
  <2> QED
    BY <2>2, <2>4
<1>8. Len(v) \in Nat /\ 0 \in -2 .. Len(v) /\ 0 # -2 /\ 0 # -1
  BY <1>2, LenProperties
<1>9. Kept(c, u, "none")
  BY <1>1, <1>4, <1>6, <1>7, <1>8 DEF Kept, Writing
<1> QED
  BY <1>9 DEF c, u, v

\* buffer_write or buffer_read begins.
LEMMA KeptBegin ==
  ASSUME NEW b, NEW t \in Tape, Kept(b, t, "none"), NEW call \in {"write", "read"}
  PROVE  Kept(b, t, call)
BY DEF Kept

\* Where a buffer is read from is aligned only where the next value starts.
LEMMA AtStart ==
  ASSUME NEW v \in Seq(Data), NEW a \in Nat \ {0}, NEW r \in 0 .. Len(v) - 1,
         NEW p \in End(v, a, r) .. Start(v, a, r + 1)
  PROVE  /\ Start(v, a, r + 1) \in Nat /\ End(v, a, r) \in Nat /\ p \in Nat
         /\ r + 1 \in 1 .. Len(v) /\ Len(v[r + 1]) \in Nat \ {0}
         /\ Start(v, a, r + 1) + Len(v[r + 1]) <= TapeEnd(v, a)
         /\ p % a = 0 => p = Start(v, a, r + 1)
<1> DEFINE k == r + 1
           x == End(v, a, r)
           s == Start(v, a, k)
           e == TapeEnd(v, a)
           l == Len(v[k])
<1>1. Len(v) \in Nat
  BY Places
<1>2. k \in 1 .. Len(v) /\ k \in 0 .. Len(v) /\ r \in 0 .. Len(v) /\ k - 1 = r
  BY <1>1
<1> HIDE DEF k
<1>3. x \in Nat /\ s \in Nat /\ l \in Nat \ {0} /\ End(v, a, k) = s + l
      /\ End(v, a, k) <= e
  BY <1>2, Places
<1>4. s = AlignedUp(x, a)
  BY <1>2 DEF Start
<1>5. p \in x .. s
  BY DEF k
<1> HIDE DEF x, s, e, l
<1>6. p \in Nat
  BY <1>3, <1>5
<1>7. p % a = 0 => p = s
  BY <1>3, <1>4, <1>5, AlignedUpIs
<1> QED
  BY <1>2, <1>3, <1>6, <1>7 DEF k, x, s, e, l

\* A round of the padding of buffer_write.
LEMMA KeptPadWrite ==
  ASSUME NEW b \in Buffer, NEW t \in Tape, Kept(b, t, "write"),
         b.position % b.alignment # 0
  PROVE  Kept(WriteByte(b, 0), t, "write")
<1> DEFINE c == WriteByte(b, 0)
           v == t.values
           r == t.read
           a == b.alignment
           p == b.position
           e == TapeEnd(v, a)
           s == AlignedUp(e, a)
<1>1. /\ c \in Buffer /\ c.alignment = a /\ c.type = b.type
      /\ c.position < GetSize(c) /\ GetSize(b) <= GetSize(c)
      /\ b.type # "grow" => GetSize(c) = GetSize(b)
  <2>1. 0 \in Nat
    OBVIOUS
  <2> QED
    BY <2>1, WritesByte
<1>2. p < GetSize(b) => \A i \in 1 .. GetSize(b) : c.data[i] = IF i = p + 1 THEN 0 ELSE b.data[i]
  <2>1. 0 \in Nat
    OBVIOUS
  <2> QED
    BY <2>1, WritesByte
<1>3. p < GetSize(b) /\ (p + 1 < GetSize(b) \/ b.type = "grow") => c.position = p + 1
  <2>1. 0 \in Nat
    OBVIOUS
  <2> QED
    BY <2>1, WritesByte
<1>4. v \in Seq(Data) /\ r \in Int
  BY DEF Tape
<1>5. a \in Nat \ {0} /\ GetSize(b) \in Nat /\ p \in Nat
  BY BufferTyped
<1>6. e \in Nat
  BY <1>4, <1>5, Ends
<1>7. s \in Nat /\ s % a = 0
  <2> HIDE DEF e
  <2> QED
    BY <1>5, <1>6, AlignedUpIs
<1>8. p % a # 0
  OBVIOUS
<1>9. r \in -2 .. Len(v) /\ (r = -2 => v = <<>>) /\ (r # -2 => p < GetSize(b))
  BY DEF Kept
<1>10. r = -1 /\ Fits(b, s) => /\ Laid(b, v) /\ p \in e .. s
                              /\ \A i \in e + 1 .. p : b.data[i] = 0
  BY DEF Kept, Writing
<1>11. r = 0 => p = 0
  BY DEF Kept
<1> HIDE DEF c, v, r, a, p, e, s
<1>12. r # 0
  <2>1. SUFFICES ASSUME r = 0 PROVE FALSE
    OBVIOUS
  <2>2. p = 0 /\ 0 \in 0 .. a - 1
    BY <1>5, <1>11, <2>1
  <2>3. p % a = 0
    BY <1>5, <2>2, ModOfSmall
  <2> QED
    BY <1>8, <2>3
<1>13. ASSUME r = -1, Fits(c, s)
       PROVE  /\ Laid(c, v) /\ c.position \in e .. s
              /\ \A i \in e + 1 .. c.position : c.data[i] = 0
  <2>1. Fits(b, s)
    BY <1>1, <1>13 DEF Fits
  <2>2. /\ Laid(b, v) /\ p \in e .. s /\ p < GetSize(b)
        /\ \A i \in e + 1 .. p : b.data[i] = 0
    BY <1>9, <1>10, <1>13, <2>1
  <2>3. p # s
    BY <1>7, <1>8
  <2>4. p + 1 \in e .. s /\ p < s
    BY <1>5, <1>6, <1>7, <2>2, <2>3
  <2>5. c.position = p + 1
    <3>1. p + 1 < GetSize(b) \/ b.type = "grow"
      BY <1>5, <1>7, <2>1, <2>4 DEF Fits
    <3> QED
      BY <1>3, <2>2, <3>1
  <2>6. e <= GetSize(b)
    BY <1>5, <1>6, <2>2
  <2>7. \A i \in 1 .. GetSize(b) : c.data[i] = IF i = p + 1 THEN 0 ELSE b.data[i]
    BY <1>2, <2>2
  <2>8. \A i \in 1 .. e : c.data[i] = b.data[i]
    <3>1. \A i \in 1 .. e : i \in 1 .. GetSize(b) /\ i # p + 1
      BY <1>5, <1>6, <2>2, <2>6
    <3> QED
      BY <2>7, <3>1
  <2>9. Laid(c, v)
    <3>1. \A i \in 1 .. TapeEnd(v, b.alignment) : c.data[i] = b.data[i]
      BY <2>8 DEF e, a
    <3>2. c.alignment = b.alignment
      BY <1>1 DEF a
    <3> QED
      BY <1>1, <1>4, <2>2, <3>1, <3>2, LaidKept
  <2>10. ASSUME NEW i \in e + 1 .. p + 1
         PROVE  c.data[i] = 0
    <3>1. i \in 1 .. GetSize(b)
      BY <1>5, <1>6, <2>2
    <3>2. CASE i = p + 1
      BY <2>7, <3>1, <3>2
    <3>3. CASE i # p + 1
      <4>1. i \in e + 1 .. p
        BY <1>5, <1>6, <3>3
      <4> QED
        BY <2>2, <2>7, <3>1, <3>3, <4>1
    <3> QED
      BY <3>2, <3>3
  <2> QED
    BY <2>4, <2>5, <2>9, <2>10
<1>14. r >= 0 => ~("write" # "write" \/ r = 0)
  BY <1>12
<1>15. /\ v = t.values /\ r = t.read /\ c.alignment = a
       /\ e = TapeEnd(v, a) /\ s = AlignedUp(e, a)
  BY <1>1 DEF v, r, e, s
<1>16. Kept(c, t, "write")
  BY <1>1, <1>9, <1>13, <1>14, <1>15 DEF Kept, Writing
<1> QED
  BY <1>16 DEF c

\* A buffer that keeps the bytes it has keeps the values that are laid in it.
LEMMA LaidGrown ==
  ASSUME NEW b \in Buffer, NEW c \in Buffer, c.alignment = b.alignment,
         GetSize(b) <= GetSize(c), \A i \in 1 .. GetSize(b) : c.data[i] = b.data[i],
         NEW v \in Seq(Data), Laid(b, v)
  PROVE  Laid(c, v)
<1> DEFINE a == b.alignment
           e == TapeEnd(v, a)
<1>1. a \in Nat \ {0} /\ GetSize(b) \in Nat
  BY BufferTyped
<1>2. e \in Nat
  BY <1>1, Ends
<1>3. e <= GetSize(b)
  BY DEF Laid
<1>4. \A i \in 1 .. e : c.data[i] = b.data[i]
  <2> HIDE DEF e
  <2>1. \A i \in 1 .. e : i \in 1 .. GetSize(b)
    BY <1>1, <1>2, <1>3
  <2> QED
    BY <2>1
<1> QED
  BY <1>4, LaidKept

\* A round of the padding of buffer_read: where a value is to be read, the byte is
\* a zero.
LEMMA KeptPadRead ==
  ASSUME NEW b \in Buffer, NEW t \in Tape, Kept(b, t, "read"),
         b.position % b.alignment # 0
  PROVE  /\ Kept(ReadByte(b), t, "read")
         /\ ByteRead(b) # 0 => /\ Kept(ReadByte(b), t, "exit")
                               /\ t.read \notin 0 .. Len(t.values) - 1
<1> DEFINE c == ReadByte(b)
           v == t.values
           r == t.read
           a == b.alignment
           p == b.position
           z == ByteRead(b)
<1>1. /\ c \in Buffer /\ c.alignment = a /\ c.type = b.type
      /\ c.position < GetSize(c) /\ GetSize(b) <= GetSize(c)
      /\ \A i \in 1 .. GetSize(b) : c.data[i] = b.data[i]
      /\ p < GetSize(b) => z = b.data[p + 1]
      /\ p < GetSize(b) /\ (p + 1 < GetSize(b) \/ b.type = "grow") => c.position = p + 1
  BY ReadsByte
<1>2. v \in Seq(Data) /\ r \in Int /\ Len(v) \in Nat
  BY LenProperties DEF Tape
<1>3. a \in Nat \ {0} /\ GetSize(b) \in Nat /\ p \in Nat /\ p % a # 0
  BY BufferTyped
<1>4. r \in -2 .. Len(v) /\ (r = -2 => v = <<>>) /\ (r # -2 => p < GetSize(b))
  BY DEF Kept
<1>5. r = -1 \/ r >= 0 => Laid(b, v)
  BY DEF Kept, Writing
<1>6. r >= 0 => (r = 0 => p = 0) /\ (r < Len(v) => p \in End(v, a, r) .. Start(v, a, r + 1))
  BY DEF Kept
<1> HIDE DEF c, v, r, a, p, z
<1>7. r # 0
  <2>1. SUFFICES ASSUME r = 0 PROVE FALSE
    OBVIOUS
  <2>2. p = 0 /\ 0 \in 0 .. a - 1
    BY <1>3, <1>6, <2>1
  <2>3. p % a = 0
    BY <1>3, <2>2, ModOfSmall
  <2> QED
    BY <1>3, <2>3
<1>8. r = -1 \/ r >= 0 => Laid(c, v)
  BY <1>1, <1>2, <1>5, LaidGrown DEF a
<1>9. ASSUME r >= 0, r < Len(v)
      PROVE  z = 0 /\ c.position \in End(v, a, r) .. Start(v, a, r + 1)
  <2> DEFINE x == End(v, a, r)
             s == Start(v, a, r + 1)
             l == Len(v[r + 1])
             e == TapeEnd(v, a)
  <2>1. r \in 0 .. Len(v) - 1 /\ p \in x .. s
    BY <1>2, <1>6, <1>9
  <2>2. s \in Nat /\ x \in Nat /\ r + 1 \in 1 .. Len(v) /\ l \in Nat \ {0}
        /\ s + l <= e /\ (p % a = 0 => p = s)
    BY <1>2, <1>3, <2>1, AtStart
  <2>3. s % a = 0
    <3>1. s = AlignedUp(x, a)
      <4>1. (r + 1) - 1 = r
        BY <1>2
      <4> QED
        BY <4>1 DEF Start
    <3> HIDE DEF x, s
    <3> QED
      BY <1>3, <2>2, <3>1, AlignedUpIs
  <2>4. e \in Nat /\ e <= GetSize(b)
    <3>1. Laid(b, v)
      BY <1>5, <1>9
    <3> QED
      BY <1>2, <1>3, <3>1, Ends DEF Laid, a
  <2>5. \A i \in x + 1 .. s : b.data[i] = 0
    <3>1. Laid(b, v)
      BY <1>5, <1>9
    <3>2. (r + 1) - 1 = r
      BY <1>2
    <3> QED
      BY <2>2, <3>1, <3>2 DEF Laid, a
  <2> HIDE DEF x, s, l, e
  <2>6. p # s
    BY <1>3, <2>3
  <2>7. p + 1 \in x + 1 .. s /\ p + 1 \in x .. s /\ p + 1 < GetSize(b) /\ p < GetSize(b)
    BY <1>3, <2>1, <2>2, <2>4, <2>6
  <2>8. z = 0
    BY <1>1, <2>5, <2>7
  <2>9. c.position = p + 1
    BY <1>1, <2>7
  <2> QED
    BY <2>7, <2>8, <2>9 DEF x, s
<1>10. v = t.values /\ r = t.read /\ c.alignment = a
  BY <1>1 DEF v, r
<1>11. Kept(c, t, "read")
  BY <1>1, <1>4, <1>7, <1>8, <1>9, <1>10 DEF Kept, Writing
<1>12. Kept(c, t, "exit")
  BY <1>1, <1>4, <1>7, <1>8, <1>9, <1>10 DEF Kept, Writing
<1>13. z # 0 => r \notin 0 .. Len(v) - 1
  <2>1. SUFFICES ASSUME z # 0, r \in 0 .. Len(v) - 1 PROVE FALSE
    OBVIOUS
  <2>2. r >= 0 /\ r < Len(v)
    BY <1>2, <2>1
  <2> QED
    BY <1>9, <2>1, <2>2
<1> QED
  BY <1>11, <1>12, <1>13 DEF c, v, r, z

\* The rest of buffer_read: the next value of the tape is what is peeked.
LEMMA KeptFinishRead ==
  ASSUME NEW b \in Buffer, NEW t \in Tape, Kept(b, t, "read"),
         b.position % b.alignment = 0,
         t.read \in 0 .. Len(t.values) - 1, NEW w \in Nat, w = Len(t.values[t.read + 1])
  PROVE  /\ buffer_peek(b, b.position, w) = t.values[t.read + 1]
         /\ Kept(Seek(b, b.position + w), [t EXCEPT !.read = @ + 1], "none")
         /\ [t EXCEPT !.read = @ + 1] \in Tape
<1> DEFINE v == t.values
           r == t.read
           a == b.alignment
           p == b.position
           n == GetSize(b)
           k == r + 1
           x == End(v, a, r)
           s == Start(v, a, k)
           e == TapeEnd(v, a)
           y == v[k]
           c == Seek(b, p + w)
           u == [t EXCEPT !.read = @ + 1]
<1>1. v \in Seq(Data) /\ r \in Int /\ Len(v) \in Nat /\ r \in 0 .. Len(v) - 1
  BY LenProperties DEF Tape
<1>2. a \in Nat \ {0} /\ n \in Nat \ {0} /\ p \in Nat /\ p % a = 0 /\ DOMAIN b.data = 1 .. n
  BY BufferTyped
<1>3. w = Len(y) /\ k = r + 1 /\ n = GetSize(b)
  OBVIOUS
<1>4. Laid(b, v) /\ p \in x .. s
  <2>1. r >= 0 /\ r < Len(v)
    BY <1>1
  <2> QED
    BY <2>1 DEF Kept
<1>5. u = [values |-> v, read |-> k] /\ u \in Tape
  <2>1. t = [values |-> v, read |-> r]
    BY DEF Tape
  <2>2. k \in Int
    BY <1>1
  <2> QED
    BY <1>1, <2>1, <2>2 DEF Tape
<1>6. c = Seek(b, p + w) /\ u.values = v /\ u.read = k
  BY <1>5
<1>7. s \in Nat /\ x \in Nat /\ k \in 1 .. Len(v) /\ w \in Nat \ {0}
      /\ s + w <= e /\ p = s
  <2> HIDE DEF v, r, a, p
  <2> QED
    BY <1>1, <1>2, <1>3, <1>4, AtStart
<1>8. e \in Nat /\ e <= n
  BY <1>1, <1>2, <1>4, Ends DEF Laid
<1>9. \A i \in 1 .. w : b.data[s + i] = y[i]
  <2>1. k \in 1 .. Len(v)
    BY <1>7
  <2> QED
    BY <1>3, <1>4, <2>1 DEF Laid
<1>10. y \in Seq(Nat)
  <2>1. v[k] \in Data
    BY <1>1, <1>7, ElementOfSeq
  <2> QED
    BY <2>1, BuffersAssumption
<1>11. End(v, a, k) = s + w
  <2>1. k \in 1 .. Len(v)
    BY <1>7
  <2> HIDE DEF v, a, k
  <2> QED
    BY <1>1, <1>2, <1>3, <2>1, Places
<1> DEFINE m == k + 1
           st == Start(v, a, m)
<1>12. k < Len(v) => st \in Nat /\ s + w <= st /\ st < e
  <2>1. SUFFICES ASSUME k < Len(v) PROVE st \in Nat /\ s + w <= st /\ st < e
    OBVIOUS
  <2>2. m \in 1 .. Len(v) /\ m \in 0 .. Len(v) /\ m - 1 = k
    BY <1>1, <1>7, <2>1
  <2> DEFINE lm == Len(v[m])
             em == End(v, a, m)
  <2> HIDE DEF v, a, m, k
  <2>3. st \in Nat /\ End(v, a, m - 1) <= st /\ lm \in Nat \ {0} /\ em = st + lm
    BY <1>1, <1>2, <2>2, Places
  <2>4. em <= e
    BY <1>1, <1>2, <2>2, Places
  <2> HIDE DEF st, lm, em, e
  <2>5. s + w <= st
    BY <1>11, <2>2, <2>3
  <2>6. st < e
    BY <1>8, <2>3, <2>4
  <2> QED
    BY <2>3, <2>5, <2>6
<1> HIDE DEF v, r, a, p, n, k, x, s, e, y, c, u, m, st
<1>13. buffer_peek(b, p, w) = y
  <2> DEFINE q == [i \in 1 .. w |-> IF p + i \in 1 .. n THEN b.data[p + i] ELSE Garbage]
  <2>1. buffer_peek(b, p, w) = q
    BY <1>2 DEF buffer_peek
  <2>2. \A i \in 1 .. w : q[i] = y[i]
    <3>1. \A i \in 1 .. w : p + i \in 1 .. n
      BY <1>2, <1>7, <1>8
    <3> QED
      BY <1>7, <1>9, <3>1
  <2>3. DOMAIN y = 1 .. w /\ y = [i \in DOMAIN y |-> y[i]]
    BY <1>3, <1>10, LenProperties
  <2>4. q = [i \in 1 .. w |-> q[i]]
    OBVIOUS
  <2> HIDE DEF q
  <2> QED
    BY <2>1, <2>2, <2>3, <2>4
<1> DEFINE o == p + w
<1>14. o \in Int /\ o = s + w /\ c = Seek(b, o) /\ o \in Nat
  BY <1>2, <1>6, <1>7
<1> HIDE DEF o
<1>15. /\ c \in Buffer /\ c.alignment = a /\ GetSize(b) <= GetSize(c)
       /\ c.position < GetSize(c)
       /\ \A i \in 1 .. GetSize(b) : c.data[i] = b.data[i]
       /\ o \in 0 .. GetSize(b) - 1 => c.position = o
  <2> DEFINE d == Seek(b, o)
  <2>1. o \in Int
    BY <1>14
  <2>2. d \in Buffer /\ d.alignment = b.alignment /\ GetSize(b) <= GetSize(d)
    BY <2>1, Seeks
  <2>3. d.position < GetSize(d) /\ (o \in 0 .. GetSize(b) - 1 => d.position = o)
    BY <2>1, Seeks
  <2>4. \A i \in 1 .. GetSize(b) : d.data[i] = b.data[i]
    BY <2>1, Seeks
  <2>5. c = d
    BY <1>14
  <2> HIDE DEF d
  <2> QED
    BY <2>2, <2>3, <2>4, <2>5 DEF a
<1>16. Laid(c, v)
  BY <1>1, <1>4, <1>15, LaidGrown DEF a
<1>17. k < Len(v) => c.position \in End(v, a, k) .. Start(v, a, k + 1)
  <2>1. SUFFICES ASSUME k < Len(v) PROVE c.position \in End(v, a, k) .. st
    BY DEF st, m
  <2>2. o \in 0 .. GetSize(b) - 1 /\ o \in s + w .. st
    BY <1>2, <1>3, <1>7, <1>8, <1>12, <1>14, <2>1
  <2> QED
    BY <1>11, <1>15, <2>2
<1>18. k \in -2 .. Len(v) /\ k # -2 /\ k # -1 /\ k # 0
  BY <1>1, <1>7
<1>19. Kept(c, u, "none")
  BY <1>6, <1>15, <1>16, <1>17, <1>18 DEF Kept, Writing
<1> QED
  BY <1>5, <1>13, <1>19 DEF c, u, p, y, k, r, v

\* The rest of buffer_write: the value is behind the padding, and is the last.
LEMMA KeptFinishWrite ==
  ASSUME NEW b \in Buffer, NEW t \in Tape, Kept(b, t, "write"),
         b.position % b.alignment = 0, NEW v \in Data, NEW w, w = Len(v),
         NEW values, values = IF t.read = 0 THEN <<>> ELSE t.values,
         NEW u, u = IF t.read \in {0, Writing} /\ RoomFor(b, values, v)
                    THEN [values |-> Append(values, v), read |-> Writing] ELSE Lost
  PROVE  /\ Kept(Seek(write_to_buffer(b, v, b.position), b.position + w), u, "none")
         /\ u \in Tape
         /\ Seek(write_to_buffer(b, v, b.position), b.position + w) \in Buffer
<1> DEFINE a == b.alignment
           r == t.read
           p == b.position
           n == GetSize(b)
           e == TapeEnd(values, a)
           s == AlignedUp(e, a)
           more == Append(values, v)
           d == write_to_buffer(b, v, p)
           m == GetSize(d)
           o == p + w
           c == Seek(d, o)
<1>1. a \in Nat \ {0} /\ n \in Nat \ {0} /\ p \in Nat /\ p % a = 0
  BY BufferTyped
<1>2. v \in Seq(Nat) /\ v # <<>>
  BY BuffersAssumption
<1>3. w \in Nat \ {0}
  BY <1>2, EmptySeq
<1>4. o \in Nat /\ o \in Int /\ o = p + w
  BY <1>1, <1>3
<1>5. /\ d \in Buffer /\ d.alignment = a /\ d.type = b.type /\ n <= m
      /\ b.type = "grow" \/ o <= n =>
           /\ o <= m
           /\ \A i \in 1 .. w : d.data[p + i] = v[i]
           /\ \A i \in 1 .. n : i <= p => d.data[i] = b.data[i]
  <2> DEFINE x == b.position
             f == write_to_buffer(b, v, x)
  <2>1. x \in Nat
    BY <1>1
  <2> HIDE DEF x
  <2>2. f \in Buffer /\ f.alignment = b.alignment /\ f.type = b.type /\ GetSize(b) <= GetSize(f)
    BY <1>2, <2>1, Writes
  <2>3. b.type = "grow" \/ x + Len(v) <= GetSize(b) => x + Len(v) <= GetSize(f)
    BY <1>2, <2>1, Writes
  <2>4. b.type = "grow" \/ x + Len(v) <= GetSize(b) =>
          \A i \in 1 .. Len(v) : f.data[x + i] = v[i]
    BY <1>2, <2>1, Writes
  <2>5. b.type = "grow" \/ x + Len(v) <= GetSize(b) =>
          \A i \in 1 .. GetSize(b) : i <= x => f.data[i] = b.data[i]
    BY <1>2, <2>1, Writes
  <2>6. f = d /\ x = p /\ w = Len(v)
    BY DEF x
  <2> HIDE DEF f
  <2> QED
    BY <2>2, <2>3, <2>4, <2>5, <2>6
<1>6. m \in Nat \ {0}
  BY <1>5, BufferTyped
<1>7. /\ c \in Buffer /\ c.alignment = a /\ c.type = b.type /\ m <= GetSize(c)
      /\ c.position < GetSize(c)
      /\ \A i \in 1 .. m : c.data[i] = d.data[i]
      /\ b.type # "grow" => GetSize(c) = m
      /\ o \in 0 .. m - 1 => c.position = o
      /\ b.type = "grow" => c.position = o
  <2> HIDE DEF d, o
  <2> DEFINE f == Seek(d, o)
  <2>1. f \in Buffer /\ f.alignment = d.alignment /\ f.type = d.type /\ GetSize(d) <= GetSize(f)
    BY <1>4, <1>5, Seeks
  <2>2. f.position < GetSize(f) /\ (o \in 0 .. GetSize(d) - 1 => f.position = o)
    BY <1>4, <1>5, Seeks
  <2>3. d.type = "grow" => f.position = o
    BY <1>4, <1>5, Seeks
  <2>4. \A i \in 1 .. GetSize(d) : f.data[i] = d.data[i]
    BY <1>4, <1>5, Seeks
  <2>5. d.type # "grow" => f.data = d.data
    BY <1>4, <1>5, Seeks
  <2>6. d.type # "grow" => GetSize(f) = GetSize(d)
    BY <2>5 DEF GetSize
  <2> HIDE DEF f
  <2> QED
    BY <1>5, <2>1, <2>2, <2>3, <2>4, <2>6 DEF f
<1>8. t.values \in Seq(Data) /\ r \in Int
  BY DEF Tape
<1>9. ASSUME u = Lost
      PROVE  Kept(c, u, "none") /\ u \in Tape
  <2> HIDE DEF c
  <2> QED
    BY <1>9, KeptLost
<1>10. ASSUME r \in {0, -1}, RoomFor(b, values, v)
       PROVE  Kept(c, u, "none") /\ u \in Tape
  <2>1. u = [values |-> more, read |-> -1]
    BY <1>10 DEF Writing
  <2>2. values \in Seq(Data)
    BY <1>8, PlacesOfNone
  <2>3. e \in Nat
    BY <1>1, <2>2, Ends
  <2>4. s \in Nat /\ e <= s /\ \A x \in e .. s : x % a = 0 => x = s
    <3> HIDE DEF e, a
    <3> QED
      BY <1>1, <2>3, AlignedUpIs
  <2>5. /\ more \in Seq(Data) /\ TapeEnd(more, a) = s + w
    <3>1. a \in Nat \ {0}
      BY <1>1
    <3> HIDE DEF a
    <3> QED
      BY <2>2, <3>1, PlacesAppend
  <2>6. b.type = "grow" \/ s + w <= n
    BY <1>10, <2>5 DEF RoomFor
  <2>7. Fits(b, s)
    <3> HIDE DEF s, n
    <3>1. s + w <= n => s < n
      BY <1>1, <1>3, <2>4
    <3> QED
      BY <2>6, <3>1 DEF Fits, n
  <2>8. /\ Laid(b, values) /\ p = s /\ p < n
        /\ \A i \in e + 1 .. s : b.data[i] = 0
    <3>1. CASE r = 0
      <4>1. values = <<>> /\ p = 0 /\ p < n
        BY <3>1 DEF Kept
      <4>2. e = 0
        BY <1>1, <4>1, PlacesOfNone
      <4>3. Laid(b, values)
        BY <4>1, LaidNone
      <4> HIDE DEF e, s, a
      <4>4. p \in e .. s
        BY <2>3, <2>4, <4>1, <4>2
      <4>5. p = s
        BY <1>1, <2>4, <4>4
      <4>6. e + 1 .. s = {}
        BY <4>1, <4>2, <4>5
      <4> QED
        BY <4>1, <4>3, <4>5, <4>6
    <3>2. CASE r = -1
      <4>1. values = t.values
        BY <3>2
      <4>2. /\ Laid(b, values) /\ p \in e .. s /\ p < n
            /\ \A i \in e + 1 .. p : b.data[i] = 0
        BY <2>7, <3>2, <4>1 DEF Kept, Writing
      <4> HIDE DEF e, s, a, p
      <4>3. p = s
        BY <1>1, <2>4, <4>2
      <4> QED
        BY <4>2, <4>3
    <3> QED
      BY <1>10, <3>1, <3>2
  <2> HIDE DEF e, s, a, p, n, m, d, o, c, more
  <2>9. /\ s + w <= m /\ o = s + w
        /\ \A i \in 1 .. w : d.data[s + i] = v[i]
        /\ \A i \in 1 .. n : i <= s => d.data[i] = b.data[i]
    BY <1>4, <1>5, <2>6, <2>8
  <2>10. /\ \A i \in 1 .. e : d.data[i] = b.data[i]
         /\ \A i \in e + 1 .. s : d.data[i] = 0
    <3>1. \A i \in 1 .. e : i \in 1 .. n /\ i <= s
      BY <1>1, <2>3, <2>4, <2>8
    <3>2. \A i \in e + 1 .. s : i \in 1 .. n /\ i <= s
      BY <1>1, <2>3, <2>4, <2>8
    <3> QED
      BY <2>8, <2>9, <3>1, <3>2
  <2>11. Laid(d, more)
    <3>1. e = TapeEnd(values, b.alignment) /\ s = AlignedUp(e, b.alignment)
          /\ d.alignment = b.alignment /\ GetSize(b) <= GetSize(d)
          /\ s + Len(v) <= GetSize(d) /\ w = Len(v)
      BY <1>5, <2>9 DEF e, s, a, n, m
    <3>2. /\ Laid(b, values)
          /\ \A i \in 1 .. e : d.data[i] = b.data[i]
          /\ \A i \in e + 1 .. s : d.data[i] = 0
          /\ \A i \in 1 .. Len(v) : d.data[s + i] = v[i]
      BY <2>8, <2>9, <2>10, <3>1
    <3>3. d \in Buffer
      BY <1>5
    <3>4. Laid(d, Append(values, v))
      BY <2>2, <3>1, <3>2, <3>3, LaidAppend
    <3> QED
      BY <3>4 DEF more
  <2>12. Laid(c, more)
    <3>1. c.alignment = d.alignment /\ GetSize(d) <= GetSize(c)
          /\ \A i \in 1 .. GetSize(d) : c.data[i] = d.data[i]
      BY <1>5, <1>7 DEF m
    <3> QED
      BY <1>5, <1>7, <2>5, <2>11, <3>1, LaidGrown
  <2> DEFINE g == s + w
             q == AlignedUp(g, a)
  <2>13. g \in Nat /\ g = s + w
    BY <1>3, <2>4
  <2> HIDE DEF g
  <2>14. q \in Nat /\ g <= q
    BY <1>1, <2>13, AlignedUpIs
  <2>15. ASSUME Fits(c, q)
         PROVE  c.position \in g .. q /\ \A i \in g + 1 .. c.position : c.data[i] = 0
    <3>1. c.position = g
      <4>1. CASE b.type = "grow"
        BY <1>7, <2>9, <2>13, <4>1
      <4>2. CASE b.type # "grow"
        <5>1. q < m
          BY <1>7, <2>15, <4>2 DEF Fits
        <5> HIDE DEF q
        <5>2. o \in 0 .. m - 1
          BY <1>6, <2>9, <2>13, <2>14, <5>1
        <5> QED
          BY <1>7, <2>9, <2>13, <5>2
      <4> QED
        BY <4>1, <4>2
    <3> HIDE DEF q
    <3>2. g \in g .. q /\ g + 1 .. g = {}
      BY <2>13, <2>14
    <3> QED
      BY <3>1, <3>2
  <2>16. Len(more) \in Nat /\ -1 \in -2 .. Len(more) /\ -1 # -2 /\ ~(-1 >= 0)
    BY <2>5, LenProperties
  <2>17. u.values = more /\ u.read = -1 /\ u \in Tape
    BY <2>1, <2>5 DEF Tape
  <2>18. TapeEnd(more, c.alignment) = g /\ AlignedUp(g, c.alignment) = q
    BY <1>7, <2>5, <2>13
  <2> HIDE DEF q
  <2>19. Kept(c, u, "none")
    BY <1>7, <2>12, <2>15, <2>16, <2>17, <2>18 DEF Kept, Writing
  <2> QED
    BY <2>17, <2>19
<1>11. u = Lost \/ (r \in {0, -1} /\ RoomFor(b, values, v))
  BY DEF Writing
<1> QED
  BY <1>7, <1>9, <1>10, <1>11

-----------------------------------------------------------------------------
(* The inductive invariant. *)

OpTyped(o) ==
  /\ o \in [call : {"none", "exit", "read", "write"}, h : Nat, bytes : Seq(Nat), width : Nat]
  /\ o.call = "none" => o = Idle
  /\ o.call = "write" => o.bytes \in Data /\ o.width = Len(o.bytes)

Typed ==
  /\ buffers \in Seq(Buffer \cup {NoBuffer})
  /\ tape \in Seq(Tape) /\ Len(tape) = Len(buffers)
  /\ OpTyped(op)
  /\ op.call # "none" => op.h \in Live

\* The call that is in progress on h, or has ended the program.
CallAt(h) == IF op.h = h THEN op.call ELSE "none"

AllKept == \A h \in Live : Kept(buffers[h], tape[h], CallAt(h))

IInv == Typed /\ AllKept /\ ReadsBack

LEMMA NoBufferIsNone ==
  ASSUME NEW b \in Buffer
  PROVE  b # NoBuffer
<1>1. b.type \in {"fixed", "grow", "wrap"}
  BY BufferTyped
<1>2. NoBuffer.type = "none"
  BY DEF NoBuffer
<1> QED
  BY <1>1, <1>2

LEMMA Slots ==
  ASSUME Typed
  PROVE  /\ Len(buffers) \in Nat
         /\ DOMAIN buffers = 1 .. Len(buffers) /\ DOMAIN tape = 1 .. Len(buffers)
         /\ \A h \in DOMAIN buffers : buffers[h] \in Buffer \cup {NoBuffer} /\ tape[h] \in Tape
         /\ \A h \in Live : /\ h \in DOMAIN buffers /\ h \in Nat \ {0}
                           /\ buffers[h] \in Buffer /\ tape[h] \in Tape
<1>1. /\ Len(buffers) \in Nat /\ DOMAIN buffers = 1 .. Len(buffers)
      /\ \A h \in 1 .. Len(buffers) : buffers[h] \in Buffer \cup {NoBuffer}
  BY LenProperties, ElementOfSeq DEF Typed
<1>2. /\ DOMAIN tape = 1 .. Len(buffers)
      /\ \A h \in 1 .. Len(buffers) : tape[h] \in Tape
  <2>1. DOMAIN tape = 1 .. Len(tape) /\ \A h \in 1 .. Len(tape) : tape[h] \in Tape
    BY LenProperties, ElementOfSeq DEF Typed
  <2> QED
    BY <2>1 DEF Typed
<1>3. \A h \in 1 .. Len(buffers) : h \in Nat \ {0}
  BY <1>1
<1> QED
  BY <1>1, <1>2, <1>3 DEF Live

LEMMA IdleTyped == OpTyped(Idle) /\ Idle.call = "none" /\ Idle.h = 0
<1>1. <<>> \in Seq(Nat)
  BY EmptySeq
<1> QED
  BY <1>1 DEF OpTyped, Idle

\* A step that touches one handle, while no call is in progress on another.
LEMMA OneHandle ==
  ASSUME Typed, AllKept, NEW h \in DOMAIN buffers,
         NEW c \in Buffer \cup {NoBuffer}, buffers' = [buffers EXCEPT ![h] = c],
         NEW u \in Tape, tape' = [tape EXCEPT ![h] = u],
         op.h \in {0, h}, op'.h \in {0, h}, OpTyped(op'),
         op'.call # "none" => op'.h = h /\ c \in Buffer,
         c \in Buffer => Kept(c, u, CallAt(h)')
  PROVE  Typed' /\ AllKept'
<1>1. /\ Len(buffers) \in Nat
      /\ DOMAIN buffers = 1 .. Len(buffers) /\ DOMAIN tape = 1 .. Len(buffers)
      /\ h \in 1 .. Len(buffers) /\ h # 0
  BY Slots
<1>2. /\ buffers' \in Seq(Buffer \cup {NoBuffer}) /\ Len(buffers') = Len(buffers)
      /\ \A k \in 1 .. Len(buffers) : buffers'[k] = IF k = h THEN c ELSE buffers[k]
  BY <1>1, ExceptSeq DEF Typed
<1>3. /\ tape' \in Seq(Tape) /\ Len(tape') = Len(tape)
      /\ \A k \in 1 .. Len(tape) : tape'[k] = IF k = h THEN u ELSE tape[k]
  <2>1. Len(tape) = Len(buffers) /\ tape \in Seq(Tape)
    BY DEF Typed
  <2>2. h \in 1 .. Len(tape)
    BY <1>1, <2>1
  <2> QED
    BY <2>1, <2>2, ExceptSeq
<1>4. Len(tape) = Len(buffers)
  BY DEF Typed
<1>5. DOMAIN buffers' = 1 .. Len(buffers)
  BY <1>1, <1>2, LenProperties
<1>6. c \in Buffer <=> h \in Live'
  <2>1. h \in Live' <=> buffers'[h] # NoBuffer
    BY <1>1, <1>5 DEF Live
  <2>2. buffers'[h] = c
    BY <1>1, <1>2
  <2> QED
    BY <2>1, <2>2, NoBufferIsNone
<1>7. Typed'
  BY <1>2, <1>3, <1>4, <1>6 DEF Typed
<1>8. ASSUME NEW k \in Live'
      PROVE  Kept(buffers'[k], tape'[k], CallAt(k)')
  <2>1. k \in 1 .. Len(buffers) /\ buffers'[k] # NoBuffer
    BY <1>5 DEF Live
  <2>2. CASE k = h
    BY <1>1, <1>2, <1>3, <1>4, <1>6, <2>2
  <2>3. CASE k # h
    <3>1. buffers'[k] = buffers[k] /\ tape'[k] = tape[k]
      BY <1>2, <1>3, <1>4, <2>1, <2>3
    <3>2. k \in Live
      BY <1>1, <2>1, <3>1 DEF Live
    <3>3. k # 0
      BY <1>1, <2>1
    <3>4. CallAt(k) = "none" /\ CallAt(k)' = "none"
      BY <2>3, <3>3 DEF CallAt
    <3> QED
      BY <3>1, <3>2, <3>4 DEF AllKept
  <2> QED
    BY <2>2, <2>3
<1> QED
  BY <1>7, <1>8 DEF AllKept

LEMMA InitIInv == Init => IInv
<1> SUFFICES ASSUME Init PROVE IInv
  OBVIOUS
<1>1. buffers = <<>> /\ tape = <<>> /\ op = Idle /\ result = NoResult
  BY DEF Init
<1>2. /\ <<>> \in Seq(Buffer \cup {NoBuffer}) /\ <<>> \in Seq(Tape)
  BY EmptySeq
<1>3. Live = {}
  <2>1. DOMAIN buffers = {}
    BY <1>1
  <2> QED
    BY <2>1 DEF Live
<1>4. Typed
  BY <1>1, <1>2, IdleTyped DEF Typed
<1>5. ReadsBack
  BY <1>1, IdleTyped DEF ReadsBack, NoResult
<1> QED
  BY <1>3, <1>4, <1>5 DEF IInv, AllKept

-----------------------------------------------------------------------------
(* The calls that are one step. *)

\* A call on one handle that is over with the step.
LEMMA AtOnce ==
  ASSUME Typed, AllKept, op = Idle, UNCHANGED op, NEW h \in DOMAIN buffers,
         NEW c \in Buffer \cup {NoBuffer}, buffers' = [buffers EXCEPT ![h] = c],
         NEW u \in Tape, tape' = [tape EXCEPT ![h] = u],
         c \in Buffer => Kept(c, u, "none")
  PROVE  Typed' /\ AllKept'
<1>1. OpTyped(op) /\ op.call = "none" /\ op.h = 0 /\ op' = op
  BY IdleTyped
<1>2. h # 0
  BY Slots
<1>3. CallAt(h)' = "none"
  BY <1>1, <1>2 DEF CallAt
<1> QED
  BY <1>1, <1>2, <1>3, OneHandle

LEMMA CreateStep ==
  ASSUME Typed, AllKept, op = Idle, UNCHANGED op,
         NEW size \in 1 .. MaxSize, NEW type \in Types, NEW al \in Alignments,
         buffer_create(size, type, al)
  PROVE  Typed' /\ AllKept'
<1> DEFINE free == {h \in DOMAIN buffers : buffers[h] = NoBuffer}
           b == [data |-> [i \in 1 .. size |-> 0], position |-> 0,
                 alignment |-> al, type |-> type]
           t == [values |-> <<>>, read |-> Writing]
           l == Len(buffers)
<1>1. b \in Buffer /\ t \in Tape /\ Kept(b, t, "none")
  <2>1. size \in Nat \ {0}
    BY BuffersAssumption
  <2> QED
    BY <2>1, KeptNew
<1>2. /\ l \in Nat /\ DOMAIN buffers = 1 .. l /\ DOMAIN tape = 1 .. l
      /\ buffers \in Seq(Buffer \cup {NoBuffer}) /\ tape \in Seq(Tape) /\ Len(tape) = l
  BY Slots DEF Typed
<1>3. OpTyped(op) /\ op.call = "none" /\ op.h = 0 /\ op' = op
  BY IdleTyped
<1>4. CASE free = {}
  <2>1. buffers' = Append(buffers, b) /\ tape' = Append(tape, t)
    BY <1>4 DEF buffer_create
  <2> HIDE DEF b, t, l, free
  <2>2. /\ buffers' \in Seq(Buffer \cup {NoBuffer}) /\ Len(buffers') = l + 1
        /\ \A k \in 1 .. l : buffers'[k] = buffers[k]
        /\ buffers'[l + 1] = b
    <3>1. b \in Buffer \cup {NoBuffer}
      BY <1>1
    <3> QED
      BY <1>2, <2>1, <3>1, AppendProperties DEF l
  <2>3. /\ tape' \in Seq(Tape) /\ Len(tape') = l + 1
        /\ \A k \in 1 .. l : tape'[k] = tape[k]
        /\ tape'[l + 1] = t
    BY <1>1, <1>2, <2>1, AppendProperties
  <2>4. Typed'
    BY <1>3, <2>2, <2>3 DEF Typed
  <2>5. ASSUME NEW k \in Live'
        PROVE  Kept(buffers'[k], tape'[k], CallAt(k)')
    <3>1. k \in 1 .. l + 1 /\ buffers'[k] # NoBuffer
      <4>1. DOMAIN buffers' = 1 .. l + 1
        BY <2>2, LenProperties
      <4> QED
        BY <4>1 DEF Live
    <3>2. CallAt(k)' = "none" /\ CallAt(k) = "none"
      BY <1>3 DEF CallAt
    <3>3. CASE k = l + 1
      BY <1>1, <2>2, <2>3, <3>2, <3>3
    <3>4. CASE k # l + 1
      <4>1. k \in 1 .. l
        BY <1>2, <3>1, <3>4
      <4>2. k \in Live
        BY <1>2, <2>2, <3>1, <4>1 DEF Live
      <4> QED
        BY <2>2, <2>3, <3>2, <4>1, <4>2 DEF AllKept
    <3> QED
      BY <3>3, <3>4
  <2> QED
    BY <2>4, <2>5 DEF AllKept
<1>5. CASE free # {}
  <2> DEFINE h == CHOOSE h \in free : \A k \in free : h <= k
  <2>1. buffers' = [buffers EXCEPT ![h] = b] /\ tape' = [tape EXCEPT ![h] = t]
    BY <1>5 DEF buffer_create
  <2>2. h \in free
    <3>1. free \in SUBSET Nat
      BY <1>2
    <3> HIDE DEF free
    <3>2. \E m \in free : \A k \in free : m <= k
      BY <1>5, <3>1, LeastNatural
    <3> QED
      BY <3>2
  <2> HIDE DEF h
  <2>3. h \in DOMAIN buffers
    BY <2>2
  <2> HIDE DEF b, t, free
  <2> QED
    BY <1>1, <2>1, <2>3, AtOnce
<1> QED
  BY <1>4, <1>5

LEMMA CallStep ==
  ASSUME Typed, AllKept, Call
  PROVE  Typed' /\ AllKept'
<1>1. op = Idle /\ op' = op
  BY DEF Call
<1>2. ASSUME NEW h \in Live
      PROVE  /\ h \in DOMAIN buffers /\ h \in DOMAIN tape /\ buffers[h] \in Buffer
             /\ tape[h] \in Tape /\ Kept(buffers[h], tape[h], "none")
  <2>1. h \in DOMAIN buffers /\ h \in DOMAIN tape /\ h # 0 /\ buffers[h] \in Buffer
        /\ tape[h] \in Tape
    BY Slots
  <2>2. CallAt(h) = "none"
    BY <1>1, <2>1, IdleTyped DEF CallAt
  <2>3. Kept(buffers[h], tape[h], CallAt(h))
    BY DEF AllKept
  <2> QED
    BY <2>1, <2>2, <2>3
<1>3. ASSUME NEW size \in 1 .. MaxSize, NEW type \in Types, NEW al \in Alignments,
             buffer_create(size, type, al)
      PROVE  Typed' /\ AllKept'
  BY <1>1, <1>3, CreateStep
<1>4. ASSUME NEW h \in Live, buffer_delete(h)
      PROVE  Typed' /\ AllKept'
  <2>1. buffers' = [buffers EXCEPT ![h] = NoBuffer] /\ tape' = [tape EXCEPT ![h] = Lost]
    BY <1>4 DEF buffer_delete
  <2>2. NoBuffer \notin Buffer
    BY NoBufferIsNone
  <2> QED
    BY <1>1, <1>2, <2>1, <2>2, KeptLost, AtOnce
<1>5. ASSUME NEW h \in Live, NEW size \in 1 .. MaxSize, buffer_resize(h, size)
      PROVE  Typed' /\ AllKept'
  <2> DEFINE c == Resize(buffers[h], size)
  <2>1. buffers' = [buffers EXCEPT ![h] = c] /\ tape' = [tape EXCEPT ![h] = Lost]
    BY <1>5 DEF buffer_resize
  <2>2. c \in Buffer
    <3>1. size \in Nat \ {0}
      BY BuffersAssumption
    <3> QED
      BY <1>2, <3>1, Resizes
  <2> HIDE DEF c
  <2> QED
    BY <1>1, <1>2, <2>1, <2>2, KeptLost, AtOnce
<1>6. ASSUME NEW h \in Live, NEW base \in SeekBase(buffers[h]), NEW offset \in -1 .. 1,
             buffer_seek(h, base, offset)
      PROVE  Typed' /\ AllKept'
  <2> DEFINE x == base + offset
             c == Seek(buffers[h], x)
             t == tape[h]
             u == IF x <= 0 THEN [values |-> t.values, read |-> 0] ELSE Lost
  <2>1. x \in Int
    <3>1. GetSize(buffers[h]) \in Nat /\ buffers[h].position \in Nat
      BY <1>2, BufferTyped
    <3>2. base \in Int
      BY <3>1 DEF SeekBase
    <3> QED
      BY <3>2
  <2>2. buffers' = [buffers EXCEPT ![h] = c] /\ tape' = [tape EXCEPT ![h] = u]
    BY <1>6 DEF buffer_seek
  <2> HIDE DEF x
  <2>3. c \in Buffer
    BY <1>2, <2>1, Seeks
  <2>4. u \in Tape /\ Kept(c, u, "none")
    <3>1. CASE x <= 0
      <4>1. u = [values |-> t.values, read |-> 0]
        BY <3>1
      <4>2. t.values \in Seq(Data)
        BY <1>2 DEF Tape
      <4>3. u \in Tape
        BY <4>1, <4>2 DEF Tape
      <4>4. Kept(c, [values |-> t.values, read |-> 0], "none")
        BY <1>2, <2>1, <3>1, KeptSeek
      <4> QED
        BY <4>1, <4>3, <4>4
    <3>2. CASE ~(x <= 0)
      <4>1. u = Lost
        BY <3>2
      <4> HIDE DEF u, c
      <4> QED
        BY <4>1, KeptLost
    <3> QED
      BY <3>1, <3>2
  <2> HIDE DEF c, u
  <2> QED
    BY <1>1, <1>2, <2>2, <2>3, <2>4, AtOnce
<1>7. ASSUME NEW h \in Live, NEW offset \in 0 .. MaxSize, NEW bytes \in Data,
             NEW resize \in BOOLEAN, buffer_poke(h, offset, bytes, resize)
      PROVE  Typed' /\ AllKept'
  <2> DEFINE b == buffers[h]
             w == write_to_buffer(b, bytes, offset)
             c == IF Len(bytes) + offset > GetSize(b)
                     /\ (b.type = "fixed" \/ (b.type = "grow" /\ ~resize))
                  THEN b ELSE w
  <2>1. buffers' = [buffers EXCEPT ![h] = c] /\ tape' = [tape EXCEPT ![h] = Lost]
    BY <1>7 DEF buffer_poke
  <2>2. w \in Buffer
    <3>1. offset \in Nat /\ bytes \in Seq(Nat) /\ bytes # <<>> /\ b \in Buffer
      BY <1>2, BuffersAssumption
    <3> QED
      BY <3>1, Writes
  <2> HIDE DEF w
  <2>3. c \in Buffer
    BY <1>2, <2>2
  <2> HIDE DEF c
  <2> QED
    BY <1>1, <1>2, <2>1, <2>3, KeptLost, AtOnce
<1> QED
  BY <1>3, <1>4, <1>5, <1>6, <1>7 DEF Call

-----------------------------------------------------------------------------
(* The steps of buffer_write and buffer_read. *)

\* The handle of the call in progress.
LEMMA InProgress ==
  ASSUME Typed, AllKept, op.call # "none"
  PROVE  /\ op.h \in Live /\ op.h \in DOMAIN buffers /\ op.h \in DOMAIN tape
         /\ op.h \in Nat \ {0} /\ op.h # 0
         /\ Current \in Buffer /\ tape[op.h] \in Tape
         /\ Kept(Current, tape[op.h], op.call)
<1>1. op.h \in Live
  BY DEF Typed
<1>2. CallAt(op.h) = op.call
  BY DEF CallAt
<1> QED
  BY <1>1, <1>2, Slots DEF AllKept, Current

\* What does not change is put back where it is.
LEMMA PutBack ==
  ASSUME Typed, NEW h \in DOMAIN buffers
  PROVE  /\ buffers = [buffers EXCEPT ![h] = buffers[h]]
         /\ tape = [tape EXCEPT ![h] = tape[h]]
<1>1. buffers = [k \in DOMAIN buffers |-> buffers[k]]
  BY LenProperties DEF Typed
<1>2. tape = [k \in DOMAIN tape |-> tape[k]]
  BY LenProperties DEF Typed
<1> QED
  BY <1>1, <1>2

LEMMA BeginStep ==
  ASSUME Typed, AllKept, Begin
  PROVE  Typed' /\ AllKept'
<1>1. op = Idle /\ buffers' = buffers /\ tape' = tape
  BY DEF Begin
<1>2. PICK h \in Live, bytes \in Data :
        \/ op' = [call |-> "write", h |-> h, bytes |-> bytes, width |-> Len(bytes)]
        \/ op' = [call |-> "read", h |-> h, bytes |-> <<>>, width |-> Len(bytes)]
  BY DEF Begin
<1>3. bytes \in Seq(Nat) /\ Len(bytes) \in Nat /\ <<>> \in Seq(Nat)
  BY BuffersAssumption, LenProperties, EmptySeq
<1>4. h \in DOMAIN buffers /\ h \in Nat /\ h # 0 /\ buffers[h] \in Buffer /\ tape[h] \in Tape
  BY Slots
<1>5. op.h = 0 /\ Kept(buffers[h], tape[h], "none")
  <2>1. CallAt(h) = "none"
    BY <1>1, <1>4, IdleTyped DEF CallAt
  <2> QED
    BY <1>1, <2>1, IdleTyped DEF AllKept
<1>6. OpTyped(op') /\ op'.h = h /\ op'.call \in {"write", "read"}
  <2>1. CASE op' = [call |-> "write", h |-> h, bytes |-> bytes, width |-> Len(bytes)]
    BY <1>3, <1>4, <2>1 DEF OpTyped
  <2>2. CASE op' = [call |-> "read", h |-> h, bytes |-> <<>>, width |-> Len(bytes)]
    BY <1>3, <1>4, <2>2 DEF OpTyped
  <2> QED
    BY <1>2, <2>1, <2>2
<1>7. Kept(buffers[h], tape[h], CallAt(h)')
  <2>1. CallAt(h)' = op'.call
    BY <1>6 DEF CallAt
  <2> QED
    BY <1>4, <1>5, <1>6, <2>1, KeptBegin
<1>8. buffers' = [buffers EXCEPT ![h] = buffers[h]] /\ tape' = [tape EXCEPT ![h] = tape[h]]
  BY <1>1, <1>4, PutBack
<1> QED
  BY <1>4, <1>5, <1>6, <1>7, <1>8, OneHandle

LEMMA PadWriteStep ==
  ASSUME Typed, AllKept, PadWrite
  PROVE  Typed' /\ AllKept'
<1>1. PICK h : h = op.h
  OBVIOUS
<1> DEFINE b == buffers[h]
           c == WriteByte(b, 0)
           t == tape[h]
<1>2. op.call = "write" /\ op' = op /\ tape' = tape /\ b.position % b.alignment # 0
  BY <1>1 DEF PadWrite, Padding, Aligned, Current
<1>3. buffers' = [buffers EXCEPT ![h] = c]
  BY <1>1 DEF PadWrite
<1>4. h \in DOMAIN buffers /\ b \in Buffer /\ t \in Tape /\ Kept(b, t, "write")
  BY <1>1, <1>2, InProgress DEF Current
<1>5. c \in Buffer
  <2>1. 0 \in Nat
    OBVIOUS
  <2> QED
    BY <1>4, <2>1, WritesByte
<1>6. Kept(c, t, "write")
  BY <1>2, <1>4, KeptPadWrite
<1>7. CallAt(h)' = "write" /\ OpTyped(op')
  BY <1>1, <1>2 DEF CallAt, Typed
<1>8. tape' = [tape EXCEPT ![h] = t]
  BY <1>2, <1>4, PutBack
<1>9. op.h = h /\ op'.h = h
  BY <1>1, <1>2
<1> HIDE DEF b, c, t
<1>10. Kept(c, t, CallAt(h)') /\ c \in Buffer \cup {NoBuffer}
  BY <1>5, <1>6, <1>7
<1> QED
  BY <1>3, <1>4, <1>5, <1>7, <1>8, <1>9, <1>10, OneHandle

LEMMA PadReadStep ==
  ASSUME Typed, AllKept, PadRead
  PROVE  /\ Typed' /\ AllKept'
         /\ (op.call = "exit" => Expected(op.h, op.width) = <<>>)'
<1>1. PICK h : h = op.h
  OBVIOUS
<1> DEFINE b == buffers[h]
           c == ReadByte(b)
           t == tape[h]
<1>2. op.call = "read" /\ tape' = tape /\ b.position % b.alignment # 0
      /\ op' = IF ByteRead(b) = 0 THEN op ELSE [op EXCEPT !.call = "exit"]
  BY <1>1 DEF PadRead, Padding, Aligned, Current
<1>3. buffers' = [buffers EXCEPT ![h] = c]
  BY <1>1 DEF PadRead
<1>4. h \in DOMAIN buffers /\ b \in Buffer /\ t \in Tape /\ Kept(b, t, "read")
  BY <1>1, <1>2, InProgress DEF Current
<1>5. c \in Buffer
  BY <1>4, ReadsByte
<1>6. /\ Kept(c, t, "read")
      /\ ByteRead(b) # 0 => Kept(c, t, "exit") /\ t.read \notin 0 .. Len(t.values) - 1
  BY <1>2, <1>4, KeptPadRead
<1>7. /\ OpTyped(op') /\ op'.h = h
      /\ op'.call = IF ByteRead(b) = 0 THEN "read" ELSE "exit"
  <2>1. OpTyped(op)
    BY DEF Typed
  <2>2. CASE ByteRead(b) = 0
    BY <1>1, <1>2, <2>1, <2>2
  <2>3. CASE ByteRead(b) # 0
    <3>1. op' = [op EXCEPT !.call = "exit"]
      BY <1>2, <2>3
    <3> HIDE DEF b
    <3> QED
      BY <1>1, <2>1, <2>3, <3>1 DEF OpTyped
  <2> QED
    BY <2>2, <2>3
<1>8. Kept(c, t, CallAt(h)')
  <2>1. CallAt(h)' = op'.call
    BY <1>7 DEF CallAt
  <2> QED
    BY <1>6, <1>7, <2>1
<1>9. tape' = [tape EXCEPT ![h] = t]
  BY <1>2, <1>4, PutBack
<1>10. (op.call = "exit" => Expected(op.h, op.width) = <<>>)'
  <2>1. SUFFICES ASSUME op'.call = "exit"
                 PROVE  Expected(op.h, op.width)' = <<>>
    OBVIOUS
  <2>2. t.read \notin 0 .. Len(t.values) - 1
    BY <1>6, <1>7, <2>1
  <2>3. tape'[op'.h] = t
    BY <1>2, <1>7
  <2> HIDE DEF t
  <2> QED
    BY <2>2, <2>3 DEF Expected
<1> HIDE DEF b, c, t
<1>11. c \in Buffer \cup {NoBuffer}
  BY <1>5
<1>12. Typed' /\ AllKept'
  BY <1>1, <1>3, <1>4, <1>5, <1>7, <1>8, <1>9, <1>11, OneHandle
<1> QED
  BY <1>10, <1>12

\* The steps with which a call ends: no call is in progress after them.
LEMMA Finished ==
  ASSUME Typed, AllKept, op.call # "none", op' = Idle,
         NEW c \in Buffer, buffers' = [buffers EXCEPT ![op.h] = c],
         NEW u \in Tape, tape' = [tape EXCEPT ![op.h] = u],
         Kept(c, u, "none")
  PROVE  Typed' /\ AllKept'
<1>1. PICK h : h = op.h
  OBVIOUS
<1>2. h \in DOMAIN buffers /\ h # 0
  BY <1>1, InProgress
<1>3. OpTyped(op') /\ op'.call = "none" /\ op'.h = 0
  BY IdleTyped
<1>4. CallAt(h)' = "none"
  BY <1>2, <1>3 DEF CallAt
<1>5. c \in Buffer \cup {NoBuffer} /\ Kept(c, u, CallAt(h)')
  BY <1>4
<1> QED
  BY <1>1, <1>2, <1>3, <1>5, OneHandle

LEMMA FinishWriteStep ==
  ASSUME Typed, AllKept, FinishWrite
  PROVE  Typed' /\ AllKept'
<1> DEFINE h == op.h
           b == buffers[h]
           t == tape[h]
           v == op.bytes
           w == op.width
           values == IF t.read = 0 THEN <<>> ELSE t.values
           c == Seek(write_to_buffer(b, v, b.position), b.position + w)
           u == Recorded(h, v)
<1>1. op.call = "write" /\ op' = Idle /\ b.position % b.alignment = 0
      /\ buffers' = [buffers EXCEPT ![op.h] = c]
      /\ tape' = [tape EXCEPT ![op.h] = u]
  BY DEF FinishWrite, Aligned, Current
<1>2. b \in Buffer /\ t \in Tape /\ Kept(b, t, "write")
  BY <1>1, InProgress DEF Current
<1>3. v \in Data /\ w = Len(v)
  BY <1>1 DEF Typed, OpTyped
<1>4. u = IF t.read \in {0, Writing} /\ RoomFor(b, values, v)
          THEN [values |-> Append(values, v), read |-> Writing] ELSE Lost
  BY DEF Recorded
<1>5. c \in Buffer /\ u \in Tape /\ Kept(c, u, "none")
  <2> HIDE DEF b, t, v, w, u
  <2> QED
    BY <1>1, <1>2, <1>3, <1>4, KeptFinishWrite
<1> HIDE DEF c, u
<1> QED
  BY <1>1, <1>5, Finished

LEMMA FinishReadStep ==
  ASSUME Typed, AllKept, FinishRead
  PROVE  /\ Typed' /\ AllKept'
         /\ (result.want # <<>> => result.have = result.want)'
<1> DEFINE h == op.h
           b == buffers[h]
           t == tape[h]
           w == op.width
           x == Expected(h, w)
           c == Seek(b, b.position + w)
           u == IF x # <<>> THEN [values |-> t.values, read |-> t.read + 1] ELSE Lost
           y == buffer_peek(b, b.position, w)
<1>1. op.call = "read" /\ op' = Idle /\ b.position % b.alignment = 0
      /\ buffers' = [buffers EXCEPT ![op.h] = c]
      /\ result' = [want |-> x, have |-> y]
  BY DEF FinishRead, Aligned, Current
<1>2. tape' = [tape EXCEPT ![op.h] = u]
  BY DEF FinishRead
<1>3. b \in Buffer /\ t \in Tape /\ Kept(b, t, "read")
  BY <1>1, InProgress DEF Current
<1>4. w \in Nat
  BY DEF Typed, OpTyped
<1>5. x = IF t.read \in 0 .. Len(t.values) - 1 /\ Len(t.values[t.read + 1]) = w
          THEN t.values[t.read + 1] ELSE <<>>
  BY DEF Expected
<1>6. c \in Buffer
  <2>1. b.position \in Nat
    BY <1>3, BufferTyped
  <2>2. b.position + w \in Int
    BY <1>4, <2>1
  <2> QED
    BY <1>3, <2>2, Seeks
<1>7. CASE x # <<>>
  <2>1. t.read \in 0 .. Len(t.values) - 1 /\ w = Len(t.values[t.read + 1])
        /\ x = t.values[t.read + 1] /\ u = [t EXCEPT !.read = @ + 1]
    <3>1. u = [values |-> t.values, read |-> t.read + 1]
      BY <1>7
    <3>2. t = [values |-> t.values, read |-> t.read]
      BY <1>3 DEF Tape
    <3>3. u = [t EXCEPT !.read = @ + 1]
      BY <3>1, <3>2
    <3> QED
      BY <1>5, <1>7, <3>3
  <2>2. y = x /\ Kept(c, u, "none") /\ u \in Tape
    <3> HIDE DEF b, t, w, x
    <3> QED
      BY <1>1, <1>3, <1>4, <2>1, KeptFinishRead
  <2> HIDE DEF c, u, x, y
  <2>3. Typed' /\ AllKept'
    BY <1>1, <1>2, <1>6, <2>2, Finished
  <2>4. result'.have = result'.want
    BY <1>1, <2>2
  <2> QED
    BY <2>3, <2>4
<1>8. CASE x = <<>>
  <2>1. u = Lost
    BY <1>8
  <2> HIDE DEF c, u, x, y
  <2>2. Kept(c, u, "none") /\ u \in Tape
    BY <2>1, KeptLost
  <2>3. Typed' /\ AllKept'
    BY <1>1, <1>2, <1>6, <2>2, Finished
  <2>4. result'.want = <<>>
    BY <1>1, <1>8
  <2> QED
    BY <2>3, <2>4
<1> QED
  BY <1>7, <1>8

-----------------------------------------------------------------------------
(* The theorems. *)

LEMMA NextIInv == IInv /\ [Next]_vars => IInv'
<1> SUFFICES ASSUME IInv, [Next]_vars PROVE IInv'
  OBVIOUS
<1>1. Typed /\ AllKept /\ ReadsBack
  BY DEF IInv
<1>2. CASE Call
  <2>1. Typed' /\ AllKept'
    BY <1>1, <1>2, CallStep
  <2>2. op = Idle /\ op' = op /\ result' = NoResult
    BY <1>2 DEF Call
  <2>3. ReadsBack'
    BY <2>2, IdleTyped DEF ReadsBack, NoResult
  <2> QED
    BY <2>1, <2>3 DEF IInv
<1>3. CASE Begin
  <2>1. Typed' /\ AllKept'
    BY <1>1, <1>3, BeginStep
  <2>2. op'.call # "exit" /\ result' = NoResult
    BY <1>3 DEF Begin
  <2>3. ReadsBack'
    BY <2>2 DEF ReadsBack, NoResult
  <2> QED
    BY <2>1, <2>3 DEF IInv
<1>4. CASE PadWrite
  <2>1. Typed' /\ AllKept'
    BY <1>1, <1>4, PadWriteStep
  <2>2. op.call = "write" /\ op' = op /\ result' = result
    BY <1>4 DEF PadWrite
  <2>3. ReadsBack'
    BY <1>1, <2>2 DEF ReadsBack
  <2> QED
    BY <2>1, <2>3 DEF IInv
<1>5. CASE PadRead
  <2>1. /\ Typed' /\ AllKept'
        /\ (op.call = "exit" => Expected(op.h, op.width) = <<>>)'
    BY <1>1, <1>5, PadReadStep
  <2>2. result' = result
    BY <1>5 DEF PadRead
  <2>3. ReadsBack'
    BY <1>1, <2>1, <2>2 DEF ReadsBack
  <2> QED
    BY <2>1, <2>3 DEF IInv
<1>6. CASE FinishWrite
  <2>1. Typed' /\ AllKept'
    BY <1>1, <1>6, FinishWriteStep
  <2>2. op' = Idle /\ result' = result
    BY <1>6 DEF FinishWrite
  <2>3. ReadsBack'
    BY <1>1, <2>2, IdleTyped DEF ReadsBack
  <2> QED
    BY <2>1, <2>3 DEF IInv
<1>7. CASE FinishRead
  <2>1. /\ Typed' /\ AllKept'
        /\ (result.want # <<>> => result.have = result.want)'
    BY <1>1, <1>7, FinishReadStep
  <2>2. op' = Idle
    BY <1>7 DEF FinishRead
  <2>3. ReadsBack'
    BY <2>1, <2>2, IdleTyped DEF ReadsBack
  <2> QED
    BY <2>1, <2>3 DEF IInv
<1>8. CASE UNCHANGED vars
  <2>1. buffers' = buffers /\ op' = op /\ result' = result /\ tape' = tape
    BY <1>8 DEF vars
  <2>2. Live' = Live /\ \A h : CallAt(h)' = CallAt(h)
    BY <2>1 DEF Live, CallAt
  <2>3. Typed' /\ AllKept'
    BY <1>1, <2>1, <2>2 DEF Typed, AllKept
  <2>4. ReadsBack'
    BY <1>1, <2>1 DEF ReadsBack, Expected
  <2> QED
    BY <2>3, <2>4 DEF IInv
<1> QED
  BY <1>2, <1>3, <1>4, <1>5, <1>6, <1>7, <1>8 DEF Next, Step

\* In every buffer that is not deleted the values of its tape lie one after the
\* other, each on an aligned offset and with zeros before it, and the seek position
\* is where the next of them is written or read, or among the zeros before it while
\* buffer_write or buffer_read pads (buffers_internal.cpp, bufferstruct.cpp).
THEOREM Invariance == Spec => []IInv
<1>1. Init => IInv
  BY InitIInv
<1>2. IInv /\ [Next]_vars => IInv'
  BY NextIInv
<1> QED
  BY <1>1, <1>2, PTL DEF Spec

\* What buffer_write has written one after the other buffer_read gives back after a
\* seek to the start, in its order, and skipping the padding does not end the
\* program: for buffers of any size, type and alignment, any number of them, and
\* values of any widths.
THEOREM ReadBack == Spec => []ReadsBack
<1>1. IInv => ReadsBack
  BY DEF IInv
<1> QED
  BY <1>1, Invariance, PTL

\* Writing a value that is no longer than a wrapping buffer into it, from any
\* offset, leaves the bytes that WriteByte of each of them would leave: the split at
\* the end of the buffer in write_to_buffer is right.
THEOREM WrapsRound == Spec => []WrapsAround
<1>1. IInv => WrapsAround
  <2> SUFFICES ASSUME Typed,
                      NEW h \in Live, buffers[h].type = "wrap",
                      NEW bytes \in Data, NEW offset \in 0 .. 2 * MaxSize,
                      Len(bytes) <= GetSize(buffers[h])
               PROVE  write_to_buffer(buffers[h], bytes, offset).data
                        = Bytewise(buffers[h], bytes, offset).data
    BY DEF IInv, WrapsAround
  <2>1. buffers[h] \in Buffer
    BY Slots
  <2>2. bytes \in Seq(Nat) /\ bytes # <<>> /\ offset \in Nat
    BY BuffersAssumption
  <2> QED
    BY <2>1, <2>2, BlockIsBytewise
<1> QED
  BY <1>1, Invariance, PTL
=============================================================================
