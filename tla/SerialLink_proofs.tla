-------------------------- MODULE SerialLink_proofs --------------------------
(***************************************************************************)
(* Proofs about SerialLink, for every layout of the frames, every number   *)
(* of ticks and every content of the buffer.                               *)
(***************************************************************************)
EXTENDS SerialLink, SequenceTheorems, Induction

---------------------------------------------------------------------------
(* Sums of bytes.                                                          *)

\* sum[n] is the sum of b[1] .. b[n], for every n up to last.
IsSum(b, last, sum) ==
  /\ sum[0] = 0
  /\ \A n \in 1 .. last : sum[n] = sum[n - 1] + b[n]

LEMMA SumsExist ==
  ASSUME NEW last \in Nat, NEW b, \A n \in 1 .. last : b[n] \in Int
  PROVE  \E sum \in [0 .. last -> Int] : IsSum(b, last, sum)
<1> DEFINE Done(n) == \E sum \in [0 .. n -> Int] : IsSum(b, n, sum)
           T == {n \in Nat : n <= last => Done(n)}
<1>1. 0 \in T
  <2> DEFINE none == [n \in 0 .. 0 |-> 0]
  <2>1. none \in [0 .. 0 -> Int] /\ IsSum(b, 0, none)
    BY DEF IsSum
  <2> QED BY <2>1
<1>2. ASSUME NEW n \in Nat, n \in T PROVE n + 1 \in T
  <2> SUFFICES ASSUME n + 1 <= last PROVE Done(n + 1)
    OBVIOUS
  <2>1. PICK sum \in [0 .. n -> Int] : IsSum(b, n, sum)
    BY <1>2
  <2> DEFINE next == sum[n] + b[n + 1]
             more == [m \in 0 .. n + 1 |-> IF m = n + 1 THEN next ELSE sum[m]]
  <2>2. next \in Int
    <3>1. sum[n] \in Int /\ b[n + 1] \in Int
      OBVIOUS
    <3> QED BY <3>1
  <2> HIDE DEF next
  <2>3. more \in [0 .. n + 1 -> Int]
    BY <2>2
  <2>4. more[0] = 0
    BY <2>1 DEF IsSum
  <2>5. ASSUME NEW m \in 1 .. n + 1 PROVE more[m] = more[m - 1] + b[m]
    <3>1. CASE m = n + 1
      <4>1. more[m] = next /\ more[m - 1] = sum[n]
        BY <3>1
      <4> HIDE DEF more
      <4> QED BY <3>1, <4>1 DEF next
    <3>2. CASE m \in 1 .. n
      <4>1. more[m] = sum[m] /\ more[m - 1] = sum[m - 1]
        BY <3>2
      <4> HIDE DEF more
      <4> QED BY <2>1, <3>2, <4>1 DEF IsSum
    <3> QED BY <3>1, <3>2
  <2> HIDE DEF more
  <2>6. IsSum(b, n + 1, more)
    BY <2>4, <2>5 DEF IsSum
  <2> QED BY <2>3, <2>6
<1> HIDE DEF T
<1>3. Nat \subseteq T
  BY <1>1, <1>2, SetInduction
<1> QED BY <1>3 DEF T

\* What Sum chooses is the one function there is.
LEMMA SumIsSum ==
  ASSUME NEW last \in Nat, NEW b, \A n \in 1 .. last : b[n] \in Int
  PROVE  \E sum \in [0 .. last -> Int] : IsSum(b, last, sum) /\ Sum(b, last) = sum[last]
<1> DEFINE Body(f) == [n \in 0 .. last |-> IF n = 0 THEN 0 ELSE f[n - 1] + b[n]]
           k == CHOOSE f : f = Body(f)
<1>1. Sum(b, last) = k[last]
  BY DEF Sum
<1>2. PICK sum \in [0 .. last -> Int] : IsSum(b, last, sum)
  BY SumsExist
<1>3. sum = Body(sum)
  <2>1. ASSUME NEW n \in 0 .. last PROVE sum[n] = Body(sum)[n]
    <3>1. CASE n = 0
      BY <1>2, <3>1 DEF IsSum
    <3>2. CASE n \in 1 .. last
      BY <1>2, <3>2 DEF IsSum
    <3> QED BY <3>1, <3>2
  <2> QED BY <2>1
<1>4. k = Body(k)
  <2> HIDE DEF Body
  <2> QED BY <1>3
<1> HIDE DEF k
<1>5. k[0] = 0 /\ \A n \in 1 .. last : k[n] = k[n - 1] + b[n]
  <2>1. \A n \in 0 .. last : k[n] = Body(k)[n]
    <3> HIDE DEF Body
    <3> QED BY <1>4
  <2> QED BY <2>1
<1>6. DOMAIN k = 0 .. last /\ k = [n \in 0 .. last |-> k[n]]
  <2>1. DOMAIN Body(k) = 0 .. last /\ Body(k) = [n \in 0 .. last |-> Body(k)[n]]
    OBVIOUS
  <2> HIDE DEF Body
  <2> QED BY <1>4, <2>1
<1>7. \A n \in 0 .. last : k[n] = sum[n]
  <2> DEFINE T == {n \in Nat : n <= last => k[n] = sum[n]}
  <2>1. 0 \in T
    BY <1>2, <1>5 DEF IsSum
  <2>2. ASSUME NEW n \in Nat, n \in T PROVE n + 1 \in T
    <3> SUFFICES ASSUME n + 1 <= last PROVE k[n + 1] = sum[n + 1]
      OBVIOUS
    <3>1. n + 1 \in 1 .. last /\ k[n] = sum[n] /\ n + 1 - 1 = n
      BY <2>2
    <3> QED BY <1>2, <1>5, <3>1 DEF IsSum
  <2> HIDE DEF T
  <2>3. Nat \subseteq T
    BY <2>1, <2>2, SetInduction
  <2> QED BY <2>3 DEF T
<1> QED BY <1>1, <1>2, <1>7

LEMMA SumIsInt ==
  ASSUME NEW last \in Nat, NEW b, \A n \in 1 .. last : b[n] \in Int
  PROVE  Sum(b, last) \in Int
<1>1. PICK sum \in [0 .. last -> Int] : Sum(b, last) = sum[last]
  BY SumIsSum
<1> QED BY <1>1

\* Sums of bytes that differ at most at p differ by what these differ.
LEMMA SumOfOneOff ==
  ASSUME NEW last \in Nat, NEW b, NEW c, NEW p \in 1 .. last,
         \A n \in 1 .. last : b[n] \in Int /\ c[n] \in Int,
         \A n \in 1 .. last : n # p => b[n] = c[n]
  PROVE  Sum(b, last) - Sum(c, last) = b[p] - c[p]
<1>1. PICK f \in [0 .. last -> Int] : IsSum(b, last, f) /\ Sum(b, last) = f[last]
  BY SumIsSum
<1>2. PICK g \in [0 .. last -> Int] : IsSum(c, last, g) /\ Sum(c, last) = g[last]
  BY SumIsSum
<1> DEFINE T == {n \in Nat : n <= last =>
                   f[n] - g[n] = IF n < p THEN 0 ELSE b[p] - c[p]}
<1>3. 0 \in T
  BY <1>1, <1>2 DEF IsSum
<1>4. ASSUME NEW n \in Nat, n \in T PROVE n + 1 \in T
  <2> SUFFICES ASSUME n + 1 <= last
               PROVE  f[n + 1] - g[n + 1] = IF n + 1 < p THEN 0 ELSE b[p] - c[p]
    OBVIOUS
  <2>1. /\ n + 1 \in 1 .. last /\ n + 1 - 1 = n
        /\ f[n] - g[n] = IF n < p THEN 0 ELSE b[p] - c[p]
    BY <1>4
  <2>2. f[n + 1] = f[n] + b[n + 1] /\ g[n + 1] = g[n] + c[n + 1]
    <3>1. \A m \in 1 .. last : f[m] = f[m - 1] + b[m]
      BY <1>1 DEF IsSum
    <3>2. \A m \in 1 .. last : g[m] = g[m - 1] + c[m]
      BY <1>2 DEF IsSum
    <3>3. n + 1 \in 1 .. last /\ n + 1 - 1 = n
      BY <2>1
    <3>4. f[n + 1] = f[n] + b[n + 1]
      BY <3>1, <3>3
    <3>5. g[n + 1] = g[n] + c[n + 1]
      BY <3>2, <3>3
    <3> QED BY <3>4, <3>5
  <2>3. /\ f[n] \in Int /\ g[n] \in Int /\ b[p] \in Int /\ c[p] \in Int
        /\ b[n + 1] \in Int /\ c[n + 1] \in Int
    BY <2>1
  <2>4. CASE n + 1 = p
    <3>1. f[n] - g[n] = 0 /\ ~(n + 1 < p)
      BY <2>1, <2>4
    <3>2. f[n] + b[n + 1] - (g[n] + c[n + 1]) = b[n + 1] - c[n + 1]
      BY <2>3, <3>1
    <3>3. f[n + 1] - g[n + 1] = b[n + 1] - c[n + 1]
      BY <2>2, <3>2
    <3> QED BY <2>4, <3>1, <3>3
  <2>5. CASE n + 1 # p
    <3>1. b[n + 1] = c[n + 1]
      BY <2>1, <2>5
    <3>2. f[n + 1] - g[n + 1] = f[n] - g[n]
      BY <2>2, <2>3, <3>1
    <3>3. n < p <=> n + 1 < p
      BY <2>5
    <3> QED BY <2>1, <3>2, <3>3
  <2> QED BY <2>4, <2>5
<1> HIDE DEF T
<1>5. Nat \subseteq T
  BY <1>3, <1>4, SetInduction
<1>6. f[last] - g[last] = b[p] - c[p]
  BY <1>5 DEF T
<1> QED BY <1>1, <1>2, <1>6

\* Sums of equal bytes are equal.
LEMMA SumOfSame ==
  ASSUME NEW last \in Nat, NEW b, NEW c,
         \A n \in 1 .. last : b[n] \in Int /\ c[n] = b[n]
  PROVE  Sum(b, last) = Sum(c, last)
<1>1. CASE last = 0
  <2>1. PICK f \in [0 .. last -> Int] : IsSum(b, last, f) /\ Sum(b, last) = f[last]
    BY SumIsSum
  <2>2. PICK g \in [0 .. last -> Int] : IsSum(c, last, g) /\ Sum(c, last) = g[last]
    BY SumIsSum
  <2> QED BY <1>1, <2>1, <2>2 DEF IsSum
<1>2. CASE last # 0
  <2>1. last \in 1 .. last /\ b[last] - c[last] = 0
    BY <1>2
  <2>2. Sum(b, last) - Sum(c, last) = 0
    BY <2>1, SumOfOneOff
  <2>3. Sum(b, last) \in Int /\ Sum(c, last) \in Int
    BY SumIsInt
  <2> QED BY <2>2, <2>3
<1> QED BY <1>1, <1>2

---------------------------------------------------------------------------
(* Bytes and buffers.                                                      *)

\* What a slot stores in the buffer is a byte, for negative coordinates too.
LEMMA ByteIsByte == ASSUME NEW n \in Int PROVE Byte(n) \in 0 .. Base - 1
  BY BaseAssumption DEF Byte

LEMMA LoIsByte == ASSUME NEW n \in Int PROVE Lo(n) \in 0 .. Base - 1
  BY ByteIsByte DEF Lo

LEMMA HiIsByte == ASSUME NEW n \in Int PROVE Hi(n) \in 0 .. Base - 1
<1>1. n \div Base \in Int /\ (-n) \div Base \in Int
  BY BaseAssumption
<1>2. -((-n) \div Base) \in Int
  BY <1>1
<1> QED BY <1>1, <1>2, ByteIsByte DEF Hi

\* Numbers that agree modulo Base and differ by less than Base are equal.
LEMMA SameResidue ==
  ASSUME NEW x \in Int, NEW y \in Int, NEW a \in 0 .. Base - 1, NEW c \in 0 .. Base - 1,
         x - y = a - c, Byte(x) = Byte(y)
  PROVE  a = c
<1>1. x = Base * (x \div Base) + Byte(x) /\ y = Base * (y \div Base) + Byte(y)
  BY BaseAssumption DEF Byte
<1> DEFINE d == (x \div Base) - (y \div Base)
<1>3. d \in Int /\ x \div Base \in Int /\ y \div Base \in Int
  BY BaseAssumption
<1>4. x - y = Base * d
  BY <1>1, <1>3, ByteIsByte, BaseAssumption
<1> HIDE DEF d
<1>5. Base * d < Base /\ -Base < Base * d
  BY <1>4, BaseAssumption
<1>6. d < 1 /\ d > -1
  BY <1>5, <1>3, BaseAssumption
<1> QED BY <1>6, <1>3, <1>4, BaseAssumption

Buffers == [Offsets -> 0 .. Base - 1]

LEMMA Headers ==
  /\ \A i \in 1 .. 4 : ControlHeader[i] \in 0 .. Base - 1 /\ ConfigHeader[i] \in 0 .. Base - 1
  /\ ControlHeader[1] = Start /\ ConfigHeader[1] = Start
<1>1. Start \in 0 .. Base - 1
  BY BaseAssumption DEF Start
<1>2. Byte(4) \in 0 .. Base - 1 /\ Byte(ConfigLen - 6) \in 0 .. Base - 1
  BY ByteIsByte, LengthsAssumption
<1>3. 1 \in 0 .. Base - 1 /\ 2 \in 0 .. Base - 1 /\ ControlId \in 0 .. Base - 1
      /\ Default \in 0 .. Base - 1
  BY BaseAssumption DEF ControlId, Default
<1>4. ASSUME NEW i \in 1 .. 4
      PROVE  ControlHeader[i] \in 0 .. Base - 1 /\ ConfigHeader[i] \in 0 .. Base - 1
  <2>1. CASE i = 1
    BY <2>1, <1>1 DEF ControlHeader, ConfigHeader
  <2>2. CASE i = 2
    BY <2>2, <1>2 DEF ControlHeader, ConfigHeader
  <2>3. CASE i = 3
    BY <2>3, <1>3 DEF ControlHeader, ConfigHeader
  <2>4. CASE i = 4
    BY <2>4, <1>3 DEF ControlHeader, ConfigHeader
  <2> QED BY <2>1, <2>2, <2>3, <2>4
<1> QED BY <1>4 DEF ControlHeader, ConfigHeader

LEMMA CentreIsBytes ==
  ASSUME NEW c \in Coords \cup {NoCircle}
  PROVE  \A i \in 1 .. 4 : Centre(c)[i] \in 0 .. Base - 1
<1>1. c[1] \in Int /\ c[2] \in Int
  BY ValuesAssumption DEF NoCircle
<1>2. /\ Hi(c[1]) \in 0 .. Base - 1 /\ Lo(c[1]) \in 0 .. Base - 1
      /\ Hi(c[2]) \in 0 .. Base - 1 /\ Lo(c[2]) \in 0 .. Base - 1
  BY <1>1, HiIsByte, LoIsByte
<1> QED BY <1>2 DEF Centre

LEMMA ConfigBufferIsBuffer ==
  ASSUME NEW j \in Junk PROVE ConfigBuffer(j) \in Buffers
<1>1. j \in 0 .. Base - 1 /\ 0 \in 0 .. Base - 1
  BY ValuesAssumption, BaseAssumption
<1>2. ASSUME NEW i \in Offsets, i < 4 PROVE ConfigHeader[i + 1] \in 0 .. Base - 1
  <2>1. i + 1 \in 1 .. 4
    BY <1>2 DEF Offsets
  <2> QED BY <2>1, Headers
<1> QED BY <1>1, <1>2 DEF ConfigBuffer, Buffers

LEMMA ControlBufferIsBuffer ==
  ASSUME ba \in Buffers, circle \in Coords \cup {NoCircle} PROVE ControlBuffer \in Buffers
<1>1. 0 \in 0 .. Base - 1
  BY BaseAssumption
<1>2. ASSUME NEW i \in Offsets, i < 4 PROVE ControlHeader[i + 1] \in 0 .. Base - 1
  <2>1. i + 1 \in 1 .. 4
    BY <1>2 DEF Offsets
  <2> QED BY <2>1, Headers
<1>3. ASSUME NEW i \in Offsets, i < 8, ~(i < 4) PROVE Centre(circle)[i - 3] \in 0 .. Base - 1
  <2>1. i - 3 \in 1 .. 4
    BY <1>3 DEF Offsets
  <2> QED BY <2>1, CentreIsBytes
<1>4. \A i \in Offsets : ba[i] \in 0 .. Base - 1
  BY DEF Buffers
<1> QED BY <1>1, <1>2, <1>3, <1>4 DEF ControlBuffer, Buffers

\* The checksums are bytes, and nothing but them changes.
LEMMA SealedIs ==
  ASSUME ba \in Buffers, size \in ControlLen .. ConfigLen, NEW p \in Nat
  PROVE  /\ Sealed(p) \in Buffers
         /\ \A i \in Offsets : i # p /\ i # p + 1 => Sealed(p)[i] = ba[i]
         /\ p \in Offsets /\ p + 1 \in Offsets => Sealed(p)[p] = Byte(Sum(ba, size - 3))
<1> DEFINE a == Byte(Sum(ba, size - 3))
           b == Byte(ba[0] + a)
<1>1. Sealed(p) = [ba EXCEPT ![p] = a, ![p + 1] = b]
  BY DEF Sealed
<1>2. size - 3 \in Nat /\ 1 .. size - 3 \subseteq Offsets /\ 0 \in Offsets
  BY LengthsAssumption DEF ControlLen, Offsets
<1>3. \A i \in Offsets : ba[i] \in Int
  BY BaseAssumption DEF Buffers
<1>4. Sum(ba, size - 3) \in Int
  BY <1>2, <1>3, SumIsInt
<1>5. a \in 0 .. Base - 1
  BY <1>4, ByteIsByte
<1>6. b \in 0 .. Base - 1
  <2>1. ba[0] + a \in Int
    BY <1>2, <1>3, <1>5, BaseAssumption
  <2> QED BY <2>1, ByteIsByte
<1> HIDE DEF a, b
<1>7. [ba EXCEPT ![p] = a] = [i \in Offsets |-> IF i = p THEN a ELSE ba[i]]
  BY DEF Buffers
<1>8. Sealed(p) = [i \in Offsets |-> IF i = p + 1 THEN b ELSE IF i = p THEN a ELSE ba[i]]
  BY <1>1, <1>7
<1>9. Sealed(p) \in Buffers
  BY <1>5, <1>6, <1>8 DEF Buffers
<1>10. p # p + 1
  OBVIOUS
<1> QED BY <1>8, <1>9, <1>10 DEF a

---------------------------------------------------------------------------
(* Types.                                                                  *)

\* Storing a field leaves the rest of the buffer alone, and may make it longer.
LEMMA StoreBytesIs ==
  ASSUME TypeOK, NEW p \in Nat, p > 3, NEW bytes, Len(bytes) \in Nat, Len(bytes) > 0,
         p + Len(bytes) - 1 <= ConfigLen - 3,
         \A k \in 1 .. Len(bytes) : bytes[k] \in 0 .. Base - 1,
         StoreBytes(p, bytes)
  PROVE  /\ ba' \in Buffers
         /\ size' \in ControlLen .. ConfigLen
         /\ IF p + Len(bytes) - 1 < size THEN size' = size ELSE size' > size
         /\ \A i \in Offsets : i < size /\ i \notin p .. p + Len(bytes) - 1 => ba'[i] = ba[i]
<1> DEFINE last == p + Len(bytes) - 1
           grown == IF last < size THEN size ELSE last + 1
<1>1. PICK j \in Junk :
        ba' = [i \in Offsets |->
                 IF i \in p .. last THEN bytes[i - p + 1]
                 ELSE IF i \in size .. grown - 1 THEN j
                 ELSE ba[i]]
  BY DEF StoreBytes
<1>2. size' = grown
  BY DEF StoreBytes
<1>3. last \in Nat /\ size \in Nat /\ size >= ControlLen /\ size <= ConfigLen
  BY LengthsAssumption DEF TypeOK, ControlLen
<1>4. /\ grown \in ControlLen .. ConfigLen
      /\ IF last < size THEN grown = size ELSE grown > size
  BY <1>3, LengthsAssumption DEF ControlLen
<1>5. ASSUME NEW i \in p .. last PROVE bytes[i - p + 1] \in 0 .. Base - 1
  <2>1. i - p + 1 \in 1 .. Len(bytes)
    BY <1>3, <1>5
  <2> QED BY <2>1
<1>6. j \in 0 .. Base - 1 /\ \A i \in Offsets : ba[i] \in 0 .. Base - 1
  BY ValuesAssumption DEF TypeOK
<1> HIDE DEF last
<1>7. ba' \in Buffers
  BY <1>1, <1>5, <1>6 DEF Buffers
<1>8. ASSUME NEW i \in Offsets, i < size, i \notin p .. last PROVE ba'[i] = ba[i]
  <2>1. i \notin size .. grown - 1
    BY <1>3, <1>4, <1>8 DEF Offsets
  <2> QED BY <1>1, <1>8, <2>1
<1> QED BY <1>2, <1>4, <1>7, <1>8 DEF last

\* What a spin box stores: one or two bytes, between the header and the checksums.
EditStores(p, bytes) ==
  /\ p \in Nat /\ p > 3
  /\ Len(bytes) \in {1, 2}
  /\ p + Len(bytes) - 1 <= ConfigLen - 3
  /\ \A k \in 1 .. Len(bytes) : bytes[k] \in 0 .. Base - 1
  /\ StoreBytes(p, bytes)

LEMMA EditsStore ==
  ASSUME NEW p, NEW v \in Nat, Edit16(p, v) \/ Edit8(p, v)
  PROVE  \E bytes : EditStores(p, bytes) /\ Edit(p, v, bytes)
<1>1. Hi(v) \in 0 .. Base - 1 /\ Lo(v) \in 0 .. Base - 1
  BY HiIsByte, LoIsByte
<1> HIDE DEF Hi, Lo
<1>2. CASE Edit16(p, v)
  <2> DEFINE two == <<Hi(v), Lo(v)>>
  <2>1. Len(two) = 2 /\ \A k \in 1 .. 2 : two[k] \in 0 .. Base - 1
    BY <1>1
  <2>2. Edit(p, v, two) /\ p \in Fields16
    BY <1>2 DEF Edit16
  <2> HIDE DEF two
  <2>3. p \in 4 .. ConfigLen - 4
    BY <2>2, FieldsAssumption
  <2>4. EditStores(p, two)
    BY <2>1, <2>2, <2>3, LengthsAssumption DEF EditStores, Edit
  <2> QED BY <2>2, <2>4
<1>3. CASE Edit8(p, v)
  <2> DEFINE one == <<Lo(v)>>
  <2>1. Len(one) = 1 /\ \A k \in 1 .. 1 : one[k] \in 0 .. Base - 1
    BY <1>1
  <2>2. Edit(p, v, one) /\ p \in Fields8
    BY <1>3 DEF Edit8
  <2> HIDE DEF one
  <2>3. p \in 4 .. ConfigLen - 3
    BY <2>2, FieldsAssumption
  <2>4. EditStores(p, one)
    BY <2>1, <2>2, <2>3, LengthsAssumption DEF EditStores, Edit
  <2> QED BY <2>2, <2>4
<1> QED BY <1>2, <1>3

LEMMA InitType == Init => TypeOK
<1> SUFFICES ASSUME Init PROVE TypeOK
  OBVIOUS
<1>1. ba \in Buffers
  BY ConfigBufferIsBuffer DEF Init
<1>2. size \in ControlLen .. ConfigLen
  BY LengthsAssumption DEF Init, ControlLen
<1>3. send_counter \in 0 .. ConfigLen /\ serial_counter \in 0 .. StopTicks
  BY LengthsAssumption, TicksAssumption DEF Init
<1>4. spin \in [Fields16 \cup Fields8 -> Values16 \cup Values8 \cup {0}]
  BY DEF Init
<1>5. clicks \in 0 .. MaxClicks /\ changes \in 0 .. 2
  BY ValuesAssumption DEF Init
<1> QED BY <1>1, <1>2, <1>3, <1>4, <1>5 DEF TypeOK, Buffers, Init

LEMMA TickType == ASSUME TypeOK, SerialTick PROVE TypeOK'
<1>1. size \in Nat /\ size >= ControlLen /\ size <= ConfigLen /\ ba \in Buffers
  BY LengthsAssumption DEF TypeOK, ControlLen, Buffers
<1>2. size' = size /\ UNCHANGED <<refreshing, locked, panelVars, connected, circleVars, clicks>>
  BY DEF SerialTick
<1>3. ba' \in Buffers
  <2>1. ConfigLen - 2 \in Nat
    BY LengthsAssumption DEF ControlLen
  <2>2. size \in ControlLen .. ConfigLen
    BY DEF TypeOK
  <2>3. Sealed(8) \in Buffers /\ Sealed(ConfigLen - 2) \in Buffers
    BY <1>1, <2>1, <2>2, SealedIs
  <2> QED BY <1>1, <2>3
          DEF SerialTick, TransmitControl, TransmitConfig, TransmitTrailer, StopItself
<1>4. ASSUME NEW next, NEW len \in 0 .. ConfigLen, SendOrWrap(next, len)
      PROVE  send_counter' \in 0 .. ConfigLen /\ changes' \in 0 .. 2
  <2>1. send_counter \in 0 .. ConfigLen /\ changes \in 0 .. 2 /\ ConfigLen \in Nat
    BY LengthsAssumption DEF TypeOK
  <2>2. CASE send_counter < len
    BY <1>4, <2>1, <2>2 DEF SendOrWrap
  <2>3. CASE ~(send_counter < len)
    BY <1>4, <2>1, <2>3 DEF SendOrWrap
  <2> QED BY <2>2, <2>3
<1>5. send_counter' \in 0 .. ConfigLen /\ changes' \in 0 .. 2
  <2>1. size \in 0 .. ConfigLen /\ LogLen \in 0 .. ConfigLen
    BY <1>1, LengthsAssumption DEF ControlLen, LogLen
  <2>2. CASE control
    BY <1>4, <2>1, <2>2 DEF SerialTick, TransmitControl
  <2>3. CASE ~control /\ TransmitConfig
    BY <1>4, <2>1, <2>3 DEF TransmitConfig
  <2>4. CASE ~control /\ TransmitTrailer
    BY <1>4, <2>1, <2>4 DEF TransmitTrailer
  <2>5. CASE ~control /\ StopItself
    BY <2>5 DEF StopItself, frameVars, TypeOK
  <2> QED BY <2>2, <2>3, <2>4, <2>5 DEF SerialTick
<1>6. serial_counter' \in 0 .. StopTicks /\ writing' \in BOOLEAN
      /\ ba_log' \in {"unset", "command", "trailer"}
  <2>1. serial_counter \in 0 .. StopTicks
    BY DEF TypeOK
  <2>2. CASE control
    BY <2>1, <2>2 DEF SerialTick, TransmitControl, TypeOK
  <2>3. CASE ~control /\ TransmitConfig
    BY <2>1, <2>3, TicksAssumption DEF TransmitConfig, TypeOK, LogLen
  <2>4. CASE ~control /\ TransmitTrailer
    BY <2>1, <2>4, TicksAssumption DEF TransmitTrailer, TypeOK
  <2>5. CASE ~control /\ StopItself
    <3>1. 0 \in 0 .. StopTicks
      BY TicksAssumption
    <3>2. serial_counter' = 0 /\ writing' = FALSE /\ ba_log' = ba_log
      BY <2>5 DEF StopItself
    <3> QED BY <3>1, <3>2 DEF TypeOK
  <2> QED BY <2>2, <2>3, <2>4, <2>5 DEF SerialTick
<1> QED BY <1>2, <1>3, <1>5, <1>6 DEF TypeOK, Buffers, panelVars, circleVars

\* The two counters the operator's slots move.
LEMMA OneChangeType == ASSUME TypeOK, OneChange PROVE changes' \in 0 .. 2
  BY DEF TypeOK, OneChange

LEMMA ClickType == ASSUME TypeOK, Click PROVE clicks' \in 0 .. MaxClicks
  BY ValuesAssumption DEF TypeOK, Click

LEMMA IdIsByte ==
  ASSUME TypeOK, NEW id \in {Default, ReadId, WriteId}, ba' = [ba EXCEPT ![3] = id]
  PROVE  ba' \in Buffers /\ \A i \in Offsets : i # 3 => ba'[i] = ba[i]
<1>1. id \in 0 .. Base - 1
  BY BaseAssumption DEF Default, ReadId, WriteId
<1>2. ba' = [i \in Offsets |-> IF i = 3 THEN id ELSE ba[i]]
  BY DEF TypeOK
<1> QED BY <1>1, <1>2 DEF Buffers, TypeOK

LEMMA RefreshType == ASSUME TypeOK, Refresh PROVE TypeOK'
<1>1. ba' \in Buffers
  BY IdIsByte DEF Refresh, IdCleared
<1>2. changes' \in 0 .. 2
  BY OneChangeType DEF Refresh
<1> QED BY <1>1, <1>2 DEF TypeOK, Buffers, Refresh, WindowGivenBack, counterVars, panelVars,
                          circleVars

LEMMA RequestType == ASSUME TypeOK, NEW id \in {ReadId, WriteId}, Request(id) PROVE TypeOK'
<1>1. ba' \in Buffers
  BY IdIsByte DEF Request
<1>2. changes' \in 0 .. 2 /\ clicks' \in 0 .. MaxClicks
  BY OneChangeType, ClickType DEF Request
<1> QED BY <1>1, <1>2 DEF TypeOK, Buffers, Request, counterVars, panelVars, circleVars

LEMMA ControlType == ASSUME TypeOK, ControlOn \/ ControlOff PROVE TypeOK'
<1>1. ba' \in Buffers
  <2>1. ba \in Buffers /\ circle \in Coords \cup {NoCircle}
    BY DEF TypeOK, Buffers
  <2> QED BY <2>1, ConfigBufferIsBuffer, ControlBufferIsBuffer DEF ControlOn, ControlOff
<1>2. clicks' \in 0 .. MaxClicks
  BY ClickType DEF ControlOn, ControlOff
<1>3. size' \in ControlLen .. ConfigLen
  BY LengthsAssumption DEF ControlOn, ControlOff, ControlLen
<1>4. control' \in BOOLEAN
  <2>1. control' = TRUE \/ control' = FALSE
    BY DEF ControlOn, ControlOff
  <2> QED BY <2>1
<1>5. changes' \in 0 .. 2
  BY DEF ControlOn, ControlOff
<1> QED BY <1>1, <1>2, <1>3, <1>4, <1>5
        DEF TypeOK, Buffers, ControlOn, ControlOff, counterVars, timerVars, circleVars

LEMMA EditType ==
  ASSUME TypeOK, NEW p \in Fields16 \cup Fields8, NEW v \in Values16 \cup Values8,
         Edit16(p, v) \/ Edit8(p, v)
  PROVE  TypeOK'
<1>1. v \in Nat
  BY ValuesAssumption
<1>2. PICK bytes : EditStores(p, bytes) /\ Edit(p, v, bytes)
  BY <1>1, EditsStore
<1>3. ba' \in Buffers /\ size' \in ControlLen .. ConfigLen
  BY <1>2, StoreBytesIs DEF EditStores
<1>4. changes' \in 0 .. 2 /\ clicks' \in 0 .. MaxClicks
  BY <1>2, OneChangeType, ClickType DEF Edit
<1>5. spin' \in [Fields16 \cup Fields8 -> Values16 \cup Values8 \cup {0}]
  BY <1>2 DEF Edit, TypeOK
<1> QED BY <1>2, <1>3, <1>4, <1>5
        DEF TypeOK, Buffers, Edit, counterVars, timerVars, circleVars

LEMMA OtherType ==
  ASSUME TypeOK,
         \/ ToggleLog \/ Connect \/ Disconnect \/ CircleTimer \/ Clear
         \/ \E c \in Coords \cup {NoCircle} : CircleTick(c)
         \/ UNCHANGED vars
  PROVE  TypeOK'
<1> USE DEF TypeOK, bufferVars, counterVars, timerVars, panelVars, circleVars, frameVars
<1>1. CASE ToggleLog
  BY <1>1, ClickType DEF ToggleLog
<1>2. CASE Connect
  BY <1>2, ClickType DEF Connect
<1>3. CASE Disconnect
  BY <1>3, ClickType DEF Disconnect
<1>4. CASE CircleTimer
  BY <1>4 DEF CircleTimer
<1>5. CASE Clear
  BY <1>5 DEF Clear
<1>6. CASE \E c \in Coords \cup {NoCircle} : CircleTick(c)
  BY <1>6 DEF CircleTick
<1>7. CASE UNCHANGED vars
  BY <1>7 DEF vars
<1> QED BY <1>1, <1>2, <1>3, <1>4, <1>5, <1>6, <1>7

LEMMA NextType == TypeOK /\ [Next]_vars => TypeOK'
<1> SUFFICES ASSUME TypeOK, [Next]_vars PROVE TypeOK'
  OBVIOUS
<1>1. CASE SerialTick
  BY <1>1, TickType
<1>2. CASE Refresh
  BY <1>2, RefreshType
<1>3. CASE Read \/ Write
  BY <1>3, RequestType DEF Read, Write
<1>4. CASE ControlOn \/ ControlOff
  BY <1>4, ControlType
<1>5. CASE \/ \E p \in Fields16, v \in Values16 : Edit16(p, v)
           \/ \E p \in Fields8, v \in Values8 : Edit8(p, v)
  BY <1>5, EditType
<1>6. CASE \/ ToggleLog \/ Connect \/ Disconnect \/ CircleTimer \/ Clear
           \/ \E c \in Coords \cup {NoCircle} : CircleTick(c)
           \/ UNCHANGED vars
  BY <1>6, OtherType
<1> QED BY <1>1, <1>2, <1>3, <1>4, <1>5, <1>6 DEF Next

\* Every byte the slots store fits one, the indices they store at and the next
\* byte to send stay within a configuration frame, and the tick counter within
\* its limit, whatever is edited in whichever mode (dialog.cpp:372-436).
THEOREM TypeCorrect == Spec => []TypeOK
  BY InitType, NextType, PTL DEF Spec

---------------------------------------------------------------------------
(* The request that holds the window.                                      *)

\* The inductive invariant.  Of the buffer only the message id matters, but
\* ba must be a function on Offsets for a store at another offset to leave the
\* id alone; and the id must be one of four for the three equivalences of
\* RequestHoldsWindow to exclude each other.
IInv ==
  /\ ba = [i \in Offsets |-> ba[i]]
  /\ ba[3] \in {Default, WriteId, ReadId, ControlId}
  /\ size \in Nat /\ size >= ControlLen
  /\ refreshing \in BOOLEAN /\ locked \in BOOLEAN /\ control \in BOOLEAN
  /\ RequestHoldsWindow
  /\ refreshing => ~control

LEMMA IdInBuffer == 3 \in Offsets
  BY LengthsAssumption DEF Offsets, ControlLen

LEMMA InitIInv == Init => IInv
<1> SUFFICES ASSUME Init PROVE IInv
  OBVIOUS
<1>1. PICK j \in Junk : ba = ConfigBuffer(j)
  BY DEF Init
<1>2. ba = [i \in Offsets |-> ba[i]] /\ ba[3] = Default
  BY <1>1, IdInBuffer DEF ConfigBuffer, ConfigHeader
<1>3. ba[3] \notin {ReadId, WriteId} /\ ba[3] # ControlId
  BY <1>2 DEF Default, WriteId, ReadId, ControlId
<1>4. refreshing = FALSE /\ locked = FALSE /\ control = FALSE
  BY DEF Init
<1>5. RequestHoldsWindow
  BY <1>3, <1>4, Zenon DEF RequestHoldsWindow
<1>6. size \in Nat /\ size >= ControlLen
  BY LengthsAssumption DEF Init, ControlLen
<1> QED BY <1>2, <1>4, <1>5, <1>6 DEF IInv

\* A slot that keeps the message id and the three flags keeps the invariant.
LEMMA KeepsId ==
  ASSUME IInv, UNCHANGED <<refreshing, locked, control>>,
         ba' = [i \in Offsets |-> ba'[i]], ba'[3] = ba[3],
         size' \in Nat, size' >= ControlLen
  PROVE  IInv'
  BY DEF IInv, RequestHoldsWindow

\* Outside a request and outside Control.
LEMMA IdleIInv ==
  ASSUME ba' = [i \in Offsets |-> ba'[i]], ba'[3] = Default,
         refreshing' = FALSE, locked' = FALSE, control' = FALSE,
         size' \in Nat, size' >= ControlLen
  PROVE  IInv'
<1>1. ba'[3] \notin {ReadId, WriteId} /\ ba'[3] # ControlId
  BY DEF Default, WriteId, ReadId, ControlId
<1>2. RequestHoldsWindow'
  BY <1>1, Zenon DEF RequestHoldsWindow
<1> QED BY <1>2 DEF IInv

\* The checksums are stored behind the header.
LEMMA SealedKeepsId ==
  ASSUME IInv, NEW p \in Nat, p > 3, ba' = Sealed(p)
  PROVE  ba' = [i \in Offsets |-> ba'[i]] /\ ba'[3] = ba[3]
<1> DEFINE a == Byte(Sum(ba, size - 3))
           b == Byte(ba[0] + a)
<1>1. ba' = [ba EXCEPT ![p] = a, ![p + 1] = b]
  BY DEF Sealed
<1> HIDE DEF a, b
<1>2. ba = [i \in Offsets |-> ba[i]]
  BY DEF IInv
<1>3. [ba EXCEPT ![p] = a] = [i \in Offsets |-> IF i = p THEN a ELSE ba[i]]
  BY <1>2
<1>4. ba' = [i \in Offsets |-> IF i = p + 1 THEN b ELSE IF i = p THEN a ELSE ba[i]]
  BY <1>1, <1>3
<1> QED BY <1>4, IdInBuffer

LEMMA TickIInv == ASSUME IInv, SerialTick PROVE IInv'
<1>1. UNCHANGED <<size, refreshing, locked, control>>
  BY DEF SerialTick, panelVars
<1>2. ba' = [i \in Offsets |-> ba'[i]] /\ ba'[3] = ba[3]
  <2>1. CASE control
    BY <2>1, SealedKeepsId DEF SerialTick, TransmitControl
  <2>2. CASE ~control /\ TransmitConfig
    <3>1. ConfigLen - 2 \in Nat /\ ConfigLen - 2 > 3
      BY LengthsAssumption DEF ControlLen
    <3> QED BY <2>2, <3>1, SealedKeepsId DEF TransmitConfig
  <2>3. CASE ~control /\ (TransmitTrailer \/ StopItself)
    BY <2>3 DEF TransmitTrailer, StopItself, IInv
  <2> QED BY <2>1, <2>2, <2>3 DEF SerialTick
<1>3. size' \in Nat /\ size' >= ControlLen
  BY <1>1 DEF IInv
<1> QED BY <1>1, <1>2, <1>3, KeepsId

LEMMA RefreshIInv == ASSUME IInv, Refresh PROVE IInv'
<1>1. ba' = [i \in Offsets |-> ba'[i]] /\ ba'[3] = Default
  BY IdInBuffer DEF Refresh, IdCleared, IInv
<1>2. refreshing' = FALSE /\ locked' = FALSE /\ control' = FALSE /\ size' = size
  BY DEF Refresh, Over, WindowGivenBack, panelVars, IInv
<1>3. size' \in Nat /\ size' >= ControlLen
  BY <1>2 DEF IInv
<1> QED BY <1>1, <1>2, <1>3, IdleIInv

LEMMA RequestIInv == ASSUME IInv, NEW id \in {ReadId, WriteId}, Request(id) PROVE IInv'
<1>1. ba' = [i \in Offsets |-> ba'[i]] /\ ba'[3] = id
  BY IdInBuffer DEF Request, IInv
<1>2. refreshing' = TRUE /\ locked' = TRUE /\ control' = FALSE /\ size' = size
  BY DEF Request, panelVars, IInv
<1>3. ba'[3] \in {ReadId, WriteId} /\ ba'[3] # ControlId
  BY <1>1 DEF Default, WriteId, ReadId, ControlId
<1>4. RequestHoldsWindow'
  BY <1>2, <1>3, Zenon DEF RequestHoldsWindow
<1> QED BY <1>1, <1>2, <1>4 DEF IInv

LEMMA ControlOnIInv == ASSUME IInv, ControlOn PROVE IInv'
<1>1. ba' = [i \in Offsets |-> ba'[i]] /\ ba'[3] = ControlId
  BY IdInBuffer DEF ControlOn, ControlBuffer, ControlHeader
<1>2. /\ refreshing' = FALSE /\ locked' = FALSE /\ control' = TRUE
      /\ size' \in Nat /\ size' >= ControlLen
  BY DEF ControlOn, Click, timerVars, IInv, RequestHoldsWindow, ControlLen
<1>3. ba'[3] \notin {ReadId, WriteId} /\ ba'[3] = ControlId
  BY <1>1 DEF Default, WriteId, ReadId, ControlId
<1>4. RequestHoldsWindow'
  BY <1>2, <1>3, Zenon DEF RequestHoldsWindow
<1> QED BY <1>1, <1>2, <1>4 DEF IInv

LEMMA ControlOffIInv == ASSUME IInv, ControlOff PROVE IInv'
<1>1. PICK j \in Junk : ba' = ConfigBuffer(j)
  BY DEF ControlOff
<1>2. ba' = [i \in Offsets |-> ba'[i]] /\ ba'[3] = Default
  BY <1>1, IdInBuffer DEF ConfigBuffer, ConfigHeader
<1>3. /\ refreshing' = FALSE /\ locked' = FALSE /\ control' = FALSE
      /\ size' \in Nat /\ size' >= ControlLen
  BY LengthsAssumption DEF ControlOff, Click, timerVars, IInv, RequestHoldsWindow, ControlLen
<1> QED BY <1>2, <1>3, IdleIInv

\* A field lies behind the header, so storing it leaves the id alone.
LEMMA StoreKeepsId ==
  ASSUME IInv, NEW p \in Nat, p > 3, NEW bytes, Len(bytes) \in Nat, Len(bytes) > 0,
         StoreBytes(p, bytes)
  PROVE  /\ ba' = [i \in Offsets |-> ba'[i]] /\ ba'[3] = ba[3]
         /\ size' \in Nat /\ size' >= ControlLen
<1> DEFINE last == p + Len(bytes) - 1
           grown == IF last < size THEN size ELSE last + 1
<1>1. PICK j \in Junk :
        ba' = [i \in Offsets |->
                 IF i \in p .. last THEN bytes[i - p + 1]
                 ELSE IF i \in size .. grown - 1 THEN j
                 ELSE ba[i]]
  BY DEF StoreBytes
<1>2. size' = grown
  BY DEF StoreBytes
<1>3. last \in Nat /\ size \in Nat /\ size >= ControlLen
  BY DEF IInv
<1>4. 3 \notin p .. last /\ 3 \notin size .. grown - 1
  BY <1>3 DEF ControlLen
<1>5. ba' = [i \in Offsets |-> ba'[i]] /\ ba'[3] = ba[3]
  BY <1>1, <1>4, IdInBuffer
<1>6. grown \in Nat /\ grown >= ControlLen
  BY <1>3 DEF ControlLen
<1> QED BY <1>2, <1>5, <1>6

LEMMA EditIInv ==
  ASSUME IInv, NEW p, NEW v, Edit16(p, v) \/ Edit8(p, v)
  PROVE  IInv'
<1>1. p \in Nat /\ p > 3
  <2>1. p \in Fields16 \cup Fields8
    BY Zenon DEF Edit16, Edit8
  <2>2. p \in 4 .. ConfigLen - 4 \/ p \in 4 .. ConfigLen - 3
    BY <2>1, FieldsAssumption
  <2> QED BY <2>2, LengthsAssumption
<1>2. PICK bytes : Len(bytes) \in Nat /\ Len(bytes) > 0 /\ Edit(p, v, bytes)
  <2>1. CASE Edit16(p, v)
    <3>1. Len(<<Hi(v), Lo(v)>>) = 2
      OBVIOUS
    <3> QED BY <2>1, <3>1 DEF Edit16
  <2>2. CASE Edit8(p, v)
    <3>1. Len(<<Lo(v)>>) = 1
      OBVIOUS
    <3> QED BY <2>2, <3>1 DEF Edit8
  <2> QED BY <2>1, <2>2
<1>3. StoreBytes(p, bytes) /\ UNCHANGED <<refreshing, locked, control>>
  BY <1>2 DEF Edit, timerVars
<1> QED BY <1>1, <1>2, <1>3, StoreKeepsId, KeepsId

\* The slots that do not touch the buffer.
LEMMA OtherIInv ==
  ASSUME IInv,
         \/ ToggleLog \/ Connect \/ Disconnect \/ CircleTimer \/ Clear
         \/ \E c \in Coords \cup {NoCircle} : CircleTick(c)
         \/ UNCHANGED vars
  PROVE  IInv'
<1>1. UNCHANGED <<ba, size, refreshing, locked, control>>
  BY DEF ToggleLog, Connect, Disconnect, CircleTimer, CircleTick, Clear, vars,
         bufferVars, timerVars, panelVars
<1> QED BY <1>1 DEF IInv, RequestHoldsWindow

LEMMA NextIInv == IInv /\ [Next]_vars => IInv'
<1> SUFFICES ASSUME IInv, [Next]_vars PROVE IInv'
  OBVIOUS
<1>1. CASE SerialTick
  BY <1>1, TickIInv
<1>2. CASE Refresh
  BY <1>2, RefreshIInv
<1>3. CASE Read \/ Write
  BY <1>3, RequestIInv DEF Read, Write
<1>4. CASE ControlOn
  BY <1>4, ControlOnIInv
<1>5. CASE ControlOff
  BY <1>5, ControlOffIInv
<1>6. CASE \/ \E p \in Fields16, v \in Values16 : Edit16(p, v)
           \/ \E p \in Fields8, v \in Values8 : Edit8(p, v)
  BY <1>6, EditIInv
<1>7. CASE \/ ToggleLog \/ Connect \/ Disconnect \/ CircleTimer \/ Clear
           \/ \E c \in Coords \cup {NoCircle} : CircleTick(c)
           \/ UNCHANGED vars
  BY <1>7, OtherIInv
<1> QED BY <1>1, <1>2, <1>3, <1>4, <1>5, <1>6, <1>7 DEF Next

\* Whatever the operator clicks and whenever the two timers fire, a read or
\* write id is in the buffer exactly while the window is locked by the request
\* that put it there (dialog.cpp:364-370, 1233-1251, 1327-1370).
THEOREM RequestHoldsWindowAlways == Spec => []RequestHoldsWindow
<1>1. IInv => RequestHoldsWindow
  BY DEF IInv
<1> QED BY <1>1, InitIInv, NextIInv, PTL DEF Spec

---------------------------------------------------------------------------
(* The frame on the wire.                                                  *)

\* The first n bytes of the frame, but for its checksums, are those of b.
SentAs(b, n) == \A i \in 0 .. size - 3 : i < n => sent[i + 1] = b[i]

\* Of n bytes sent: all are of the buffer the frame began with, and so are those
\* to come; or all are of the buffer as it is now; or all but one, which the
\* change cut from its neighbour, and the checksum is that of the buffer now.
FromOld(n) == SentAs(before, n) /\ \A i \in 0 .. size - 3 : i >= n => ba[i] = before[i]
FromNew(n) == SentAs(ba, n)
Straddled(n) ==
  \E p \in 1 .. size - 3 :
    /\ p < n
    /\ \A i \in 0 .. size - 3 : i < n /\ i # p => sent[i + 1] = ba[i]
    /\ n > size - 2 => sent[size - 1] = Byte(Sum(ba, size - 3))

FromBuffer(n) ==
  /\ ~control /\ n >= 2 => serial_counter <= SendTicks
  /\ IF changes = 0 THEN FromOld(n) /\ FromNew(n)
                    ELSE FromOld(n) \/ FromNew(n) \/ Straddled(n)

\* The frames that are never accepted: one of a control buffer that a spin box
\* has made longer, one that began as a trailer, and one a trailer cuts short.
Odd == control /\ size # ControlLen
BeganAsTrailer(n) == ~control /\ n >= 2 /\ sent[2] = 0
TrailerCutsIn(n) ==
  /\ ~control
  /\ SendTicks < serial_counter /\ serial_counter <= SendTicks + n
  /\ n <= LogLen

Frame(n) == Odd \/ BeganAsTrailer(n) \/ TrailerCutsIn(n) \/ FromBuffer(n)

FrameOK ==
  /\ sent \in Seq(0 .. Base - 1) /\ Len(sent) <= send_counter
  /\ before \in Buffers
  /\ ba[0] = Start /\ before[0] = Start
  /\ ~control => size = ConfigLen
  /\ changes <= 1 => send_counter <= size
  /\ changes <= 1 /\ Len(sent) = send_counter => Frame(send_counter)

FrameInv == TypeOK /\ FrameOK

\* The parts of the invariant as inequalities.
LEMMA Ranges ==
  ASSUME TypeOK
  PROVE  /\ size \in Nat /\ size >= 10 /\ size <= ConfigLen
         /\ ConfigLen \in Nat /\ ConfigLen > 10
         /\ send_counter \in Nat /\ serial_counter \in Nat
         /\ 0 \in Offsets /\ ba \in Buffers
         /\ changes \in {0, 1, 2}
  BY LengthsAssumption, TicksAssumption DEF TypeOK, ControlLen, Offsets, Buffers

LEMMA InitFrame == Init => FrameOK
<1> SUFFICES ASSUME Init PROVE FrameOK
  OBVIOUS
<1>1. PICK j \in Junk : ba = ConfigBuffer(j)
  BY DEF Init
<1>2. ba \in Buffers /\ 0 \in Offsets
  BY <1>1, ConfigBufferIsBuffer, LengthsAssumption DEF Offsets, ControlLen
<1>3. ba[0] = Start
  BY <1>1, <1>2, Headers DEF ConfigBuffer
<1>4. sent = <<>> /\ send_counter = 0 /\ before = ba /\ changes = 0
      /\ size = ConfigLen /\ control = FALSE
  BY DEF Init
<1>5. sent \in Seq(0 .. Base - 1) /\ Len(sent) = 0
  BY <1>4
<1>6. Frame(send_counter)
  <2>1. FromOld(0) /\ FromNew(0)
    BY <1>4, LengthsAssumption DEF FromOld, FromNew, SentAs
  <2>2. FromBuffer(0)
    BY <1>4, <2>1 DEF FromBuffer
  <2> QED BY <1>4, <2>2 DEF Frame
<1> QED BY <1>2, <1>3, <1>4, <1>5, <1>6, LengthsAssumption DEF FrameOK

\* What a store at one or two offsets makes of the frame: the change comes after
\* the bytes it touches, before them, or between the two.
LEMMA ChangedFrame ==
  ASSUME FrameInv, OneChange,
         NEW p \in Nat, NEW q \in {p, p + 1}, p > 0, q <= ConfigLen - 3,
         \A i \in Offsets : i < size /\ i # p /\ i # q => ba'[i] = ba[i],
         size' \in Nat, IF q < size THEN size' = size ELSE size' > size,
         UNCHANGED <<control, send_counter, serial_counter, sent, before>>
  PROVE  FrameOK'
<1> DEFINE n == send_counter
<1>1. TypeOK /\ FrameOK
  BY DEF FrameInv
<1>2. /\ size \in Nat /\ size >= 10 /\ size <= ConfigLen
      /\ ConfigLen \in Nat /\ ConfigLen > 10 /\ n \in Nat /\ 0 \in Offsets
  BY <1>1, Ranges
<1>3. size' >= size /\ (~control => size' = size)
  BY <1>1, <1>2 DEF FrameOK
<1>4. ba'[0] = Start
  BY <1>1, <1>2 DEF FrameOK
<1>5. changes' <= 1 => changes = 0 /\ changes' = 1
  BY <1>1, Ranges DEF OneChange
<1>6. ASSUME changes' <= 1, Len(sent') = n' PROVE Frame(n)'
  <2>1. changes = 0 /\ changes' = 1 /\ Frame(n)
    BY <1>1, <1>5, <1>6 DEF FrameOK
  <2>2. CASE Odd \/ size' > size
    <3>1. control
      BY <1>3, <2>2 DEF Odd
    <3>2. size' # 10
      BY <1>2, <1>3, <2>2 DEF Odd, ControlLen
    <3> QED BY <3>1, <3>2 DEF Frame, Odd, ControlLen
  <2>3. CASE BeganAsTrailer(n)
    BY <2>3 DEF Frame, BeganAsTrailer
  <2>4. CASE TrailerCutsIn(n)
    BY <2>4 DEF Frame, TrailerCutsIn
  <2>5. CASE FromBuffer(n) /\ size' = size
    <3>1. /\ ~control /\ n >= 2 => serial_counter <= SendTicks
          /\ \A i \in 0 .. size - 3 : i < n => sent[i + 1] = before[i]
          /\ \A i \in 0 .. size - 3 : i >= n => ba[i] = before[i]
          /\ \A i \in 0 .. size - 3 : i < n => sent[i + 1] = ba[i]
      BY <2>1, <2>5 DEF FromBuffer, FromOld, FromNew, SentAs
    <3>2. \A i \in 0 .. size - 3 : i # p /\ i # q => ba'[i] = ba[i]
      BY <1>2 DEF Offsets
    <3>3. FromOld(n)' \/ FromNew(n)' \/ Straddled(n)'
      <4>1. CASE n <= p \/ p > size - 3
        <5>1. \A i \in 0 .. size - 3 : i < n => sent[i + 1] = ba'[i]
          BY <1>2, <3>1, <3>2, <4>1
        <5> QED BY <2>5, <5>1 DEF FromNew, SentAs
      <4>2. CASE n > q
        <5>1. \A i \in 0 .. size - 3 : i >= n => ba'[i] = before[i]
          BY <1>2, <3>1, <3>2, <4>2
        <5> QED BY <2>5, <3>1, <5>1 DEF FromOld, SentAs
      <4>3. CASE n = p + 1 /\ p <= size - 3 /\ q = p + 1
        <5>1. p \in 1 .. size - 3 /\ p < n /\ ~(n > size - 2)
          BY <1>2, <4>3
        <5>2. \A i \in 0 .. size - 3 : i < n /\ i # p => sent[i + 1] = ba'[i]
          BY <1>2, <3>1, <3>2, <4>3
        <5> QED BY <2>5, <5>1, <5>2 DEF Straddled
      <4> QED BY <1>2, <4>1, <4>2, <4>3
    <3> QED BY <2>1, <3>1, <3>3 DEF FromBuffer, Frame
  <2> QED BY <1>3, <2>1, <2>2, <2>3, <2>4, <2>5 DEF Frame
<1>7. changes' <= 1 => send_counter' <= size'
  BY <1>1, <1>2, <1>3, <1>5 DEF FrameOK
<1> QED BY <1>1, <1>3, <1>4, <1>6, <1>7 DEF FrameOK

\* A frame of which nothing is sent yet is in order.
LEMMA FrameBegins ==
  ASSUME TypeOK', ba'[0] = Start, ~control' => size' = ConfigLen,
         send_counter' = 0, sent' = <<>>, before' = ba', changes' = 0
  PROVE  FrameOK'
<1>1. size' \in Nat /\ ba' \in Buffers
  BY LengthsAssumption DEF TypeOK, ControlLen, Buffers
<1>2. FromOld(send_counter)' /\ FromNew(send_counter)'
  <2>1. \A i \in 0 .. size' - 3 : ~(i < send_counter')
    BY <1>1
  <2>2. \A i \in 0 .. size' - 3 : ba'[i] = before'[i]
    OBVIOUS
  <2> QED BY <2>1, <2>2, Zenon DEF FromOld, FromNew, SentAs
<1>3. Frame(send_counter)'
  BY <1>2 DEF Frame, FromBuffer
<1>4. <<>> \in Seq(0 .. Base - 1) /\ Len(<<>>) = 0
  OBVIOUS
<1> QED BY <1>1, <1>3, <1>4 DEF FrameOK

\* One more byte: of those sent before it, none changes.
LEMMA OneMore ==
  ASSUME FrameInv, NEW next \in 0 .. Base - 1, NEW len \in Nat,
         SendOrWrap(next, len), send_counter < len
  PROVE  /\ sent' \in Seq(0 .. Base - 1) /\ Len(sent') <= send_counter'
         /\ send_counter' = send_counter + 1 /\ before' = before /\ changes' = changes
         /\ Len(sent') = send_counter' =>
              /\ Len(sent) = send_counter
              /\ sent'[send_counter + 1] = next
              /\ \A i \in 1 .. send_counter : sent'[i] = sent[i]
<1>1. /\ sent \in Seq(0 .. Base - 1) /\ Len(sent) <= send_counter
      /\ send_counter \in Nat /\ Len(sent) \in Nat
  BY Ranges DEF FrameInv, FrameOK
<1>2. /\ send_counter' = send_counter + 1 /\ before' = before /\ changes' = changes
      /\ sent' = IF connected THEN Append(sent, next) ELSE sent
  BY DEF SendOrWrap
<1>3. CASE connected
  <2>1. sent' = Append(sent, next)
    BY <1>2, <1>3
  <2>2. /\ sent' \in Seq(0 .. Base - 1) /\ Len(sent') = Len(sent) + 1
        /\ sent'[Len(sent) + 1] = next
        /\ \A i \in 1 .. Len(sent) : sent'[i] = sent[i]
    BY <1>1, <2>1
  <2> QED BY <1>1, <1>2, <2>2
<1>4. CASE ~connected
  BY <1>1, <1>2, <1>4
<1> QED BY <1>3, <1>4

\* A tick that seals the buffer and sends a byte of it.
LEMMA SealedTickFrame ==
  ASSUME FrameInv, TypeOK', NEW p \in Nat, ba' = Sealed(p),
         SendOrWrap(ba'[send_counter], size), UNCHANGED <<size, control>>,
         IF control THEN p = 8
                    ELSE p = ConfigLen - 2 /\ serial_counter < SendTicks
                                           /\ serial_counter' = serial_counter + 1
  PROVE  FrameOK'
<1> DEFINE n == send_counter
<1>1. TypeOK /\ FrameOK
  BY DEF FrameInv
<1>2. /\ size \in Nat /\ size >= 10 /\ size <= ConfigLen
      /\ ConfigLen \in Nat /\ ConfigLen > 10 /\ n \in Nat /\ 0 \in Offsets /\ ba \in Buffers
  BY <1>1, Ranges
<1>3. p >= 8 /\ p + 1 < ConfigLen /\ p \in Offsets /\ p + 1 \in Offsets
  BY <1>2 DEF Offsets
<1>4. /\ ba' \in Buffers
      /\ \A i \in Offsets : i # p /\ i # p + 1 => ba'[i] = ba[i]
      /\ ba'[p] = Byte(Sum(ba, size - 3))
  <2>1. size \in ControlLen .. ConfigLen
    BY <1>1 DEF TypeOK
  <2> QED BY <1>2, <1>3, <2>1, SealedIs
<1>5. ba'[0] = Start /\ (~control' => size' = ConfigLen)
  BY <1>1, <1>2, <1>3, <1>4 DEF FrameOK
<1>6. CASE ~(n < size)
  BY <1>5, <1>6, FrameBegins DEF SendOrWrap
<1>7. CASE n < size
  <2>1. ba'[n] \in 0 .. Base - 1
    <3>1. n \in Offsets
      BY <1>2, <1>7 DEF Offsets
    <3> QED BY <1>4, <3>1 DEF Buffers
  <2>2. /\ sent' \in Seq(0 .. Base - 1) /\ Len(sent') <= n'
        /\ n' = n + 1 /\ before' = before /\ changes' = changes
        /\ Len(sent') = n' =>
             /\ Len(sent) = n
             /\ sent'[n + 1] = ba'[n]
             /\ \A i \in 1 .. n : sent'[i] = sent[i]
    BY <1>2, <1>7, <2>1, OneMore
  <2>3. ASSUME changes' <= 1, Len(sent') = n' PROVE Frame(n)'
    <3>1. /\ Frame(n) /\ changes' = changes /\ n' = n + 1
          /\ sent'[n + 1] = ba'[n]
          /\ \A i \in 1 .. n : sent'[i] = sent[i]
      BY <1>1, <2>2, <2>3 DEF FrameOK
    <3>2. CASE Odd
      BY <3>2 DEF Odd, Frame
    <3>3. CASE BeganAsTrailer(n)
      BY <1>2, <3>1, <3>3 DEF BeganAsTrailer, Frame
    <3>4. CASE TrailerCutsIn(n)
      <4>1. ~control /\ SendTicks < serial_counter /\ serial_counter < SendTicks
        BY <3>4 DEF TrailerCutsIn
      <4> QED BY <1>1, <4>1, TicksAssumption, Ranges
    <3>5. CASE ~Odd /\ FromBuffer(n)
      <4>1. p = size - 2
        BY <1>1, <1>2, <3>5 DEF Odd, ControlLen, FrameOK
      <4>2. \A i \in 0 .. size - 3 : ba'[i] = ba[i]
        BY <1>2, <1>4, <4>1 DEF Offsets
      <4>3. \A i \in 0 .. size - 3 : i < n => sent'[i + 1] = sent[i + 1]
        BY <1>2, <3>1
      <4>4. \A i \in 0 .. size - 3 : i < n + 1 => i < n \/ i = n
        BY <1>2
      <4>5. FromOld(n) => FromOld(n)'
        <5> SUFFICES ASSUME FromOld(n) PROVE FromOld(n)'
          OBVIOUS
        <5>1. /\ \A i \in 0 .. size - 3 : i < n => sent[i + 1] = before[i]
              /\ \A i \in 0 .. size - 3 : i >= n => ba[i] = before[i]
          BY DEF FromOld, SentAs
        <5>2. \A i \in 0 .. size - 3 : i < n + 1 => sent'[i + 1] = before[i]
          BY <1>2, <3>1, <4>2, <4>3, <4>4, <5>1
        <5>3. \A i \in 0 .. size - 3 : i >= n + 1 => ba'[i] = before[i]
          BY <1>2, <4>2, <5>1
        <5> QED BY <2>2, <5>2, <5>3 DEF FromOld, SentAs
      <4>6. FromNew(n) => FromNew(n)'
        <5> SUFFICES ASSUME FromNew(n) PROVE FromNew(n)'
          OBVIOUS
        <5>1. \A i \in 0 .. size - 3 : i < n => sent[i + 1] = ba[i]
          BY DEF FromNew, SentAs
        <5>2. \A i \in 0 .. size - 3 : i < n + 1 => sent'[i + 1] = ba'[i]
          BY <1>2, <3>1, <4>2, <4>3, <4>4, <5>1
        <5> QED BY <2>2, <5>2 DEF FromNew, SentAs
      <4>7. Straddled(n) => Straddled(n)'
        <5> SUFFICES ASSUME Straddled(n) PROVE Straddled(n)'
          OBVIOUS
        <5>1. PICK s \in 1 .. size - 3 :
                /\ s < n
                /\ \A i \in 0 .. size - 3 : i < n /\ i # s => sent[i + 1] = ba[i]
                /\ n > size - 2 => sent[size - 1] = Byte(Sum(ba, size - 3))
          BY DEF Straddled
        <5>2. s < n + 1
          BY <1>2, <5>1
        <5>3. \A i \in 0 .. size - 3 : i < n + 1 /\ i # s => sent'[i + 1] = ba'[i]
          BY <1>2, <3>1, <4>2, <4>3, <4>4, <5>1
        <5>4. n + 1 > size - 2 => sent'[size - 1] = Byte(Sum(ba, size - 3))
          <6>1. CASE n = size - 2
            <7>1. n + 1 = size - 1
              BY <1>2, <6>1
            <7> QED BY <1>4, <3>1, <4>1, <6>1, <7>1
          <6>2. CASE n > size - 2
            <7>1. size - 1 \in 1 .. n
              BY <1>2, <6>2
            <7> QED BY <3>1, <5>1, <6>2, <7>1
          <6> QED BY <1>2, <6>1, <6>2
        <5>5. Sum(ba, size - 3) = Sum(ba', size - 3)
          <6>1. \A i \in 1 .. size - 3 : ba[i] \in Int /\ ba'[i] = ba[i]
            <7>1. \A i \in 1 .. size - 3 : i \in Offsets /\ i \in 0 .. size - 3
              BY <1>2 DEF Offsets
            <7> QED BY <1>2, <4>2, <7>1, BaseAssumption DEF Buffers
          <6>2. size - 3 \in Nat
            BY <1>2
          <6> QED BY <6>1, <6>2, SumOfSame
        <5> QED BY <2>2, <5>2, <5>3, <5>4, <5>5 DEF Straddled
      <4>8. ~control' /\ n' >= 2 => serial_counter' <= SendTicks
        BY <1>1, TicksAssumption, Ranges
      <4>9. changes' = changes
        BY <2>2
      <4>10. FromBuffer(n)'
        BY <3>5, <4>5, <4>6, <4>7, <4>8, <4>9 DEF FromBuffer
      <4> QED BY <4>10 DEF Frame
    <3> QED BY <3>1, <3>2, <3>3, <3>4, <3>5 DEF Frame
  <2>4. changes' <= 1 => n' <= size'
    BY <1>2, <1>7, <2>2
  <2> QED BY <1>1, <1>5, <2>2, <2>3, <2>4 DEF FrameOK
<1> QED BY <1>6, <1>7

\* A tick that sends a byte of the trailer: the first is that of any frame, the
\* second marks a frame that began as a trailer, and a trailer that cuts into a
\* configuration frame ends it before the timer stops.
LEMMA TrailerFrame ==
  ASSUME FrameInv, TypeOK', ~control, TransmitTrailer, UNCHANGED <<size, control>>
  PROVE  FrameOK'
<1> DEFINE n == send_counter
<1>1. TypeOK /\ FrameOK
  BY DEF FrameInv
<1>2. /\ size \in Nat /\ size >= 10 /\ size <= ConfigLen /\ n \in Nat /\ 0 \in Offsets
      /\ serial_counter \in Nat /\ serial_counter >= SendTicks /\ SendTicks \in Nat
      /\ serial_counter' = serial_counter + 1 /\ ba' = ba
  BY <1>1, Ranges, TicksAssumption DEF TransmitTrailer
<1>3. SendOrWrap(TrailerByte(n), LogLen)
  BY DEF TransmitTrailer
<1>4. ba'[0] = Start /\ (~control' => size' = ConfigLen)
  BY <1>1, <1>2 DEF FrameOK
<1>5. CASE ~(n < LogLen)
  BY <1>3, <1>4, <1>5, FrameBegins DEF SendOrWrap
<1>6. CASE n < LogLen
  <2>1. TrailerByte(n) \in 0 .. Base - 1
    BY BaseAssumption DEF TrailerByte, Start
  <2>2. /\ sent' \in Seq(0 .. Base - 1) /\ Len(sent') <= n'
        /\ n' = n + 1 /\ before' = before /\ changes' = changes
        /\ Len(sent') = n' =>
             /\ Len(sent) = n
             /\ sent'[n + 1] = TrailerByte(n)
             /\ \A i \in 1 .. n : sent'[i] = sent[i]
    BY <1>3, <1>6, <2>1, OneMore DEF LogLen
  <2>3. ASSUME changes' <= 1, Len(sent') = n' PROVE Frame(n)'
    <3>1. /\ Frame(n) /\ changes' = changes /\ n' = n + 1
          /\ sent'[n + 1] = TrailerByte(n)
          /\ \A i \in 1 .. n : sent'[i] = sent[i]
      BY <1>1, <2>2, <2>3 DEF FrameOK
    <3>2. CASE n = 0
      <4>1. FromBuffer(n)
        BY <3>1, <3>2, <1>2 DEF Frame, Odd, BeganAsTrailer, TrailerCutsIn
      <4>2. sent'[1] = Start
        BY <3>1, <3>2 DEF TrailerByte
      <4>3. /\ \A i \in 0 .. size - 3 : ba[i] = before[i] /\ i < 1 => sent'[i + 1] = before[i]
            /\ \A i \in 0 .. size - 3 : i < 1 => sent'[i + 1] = ba[i]
        BY <1>1, <1>2, <4>2 DEF FrameOK
      <4>4. FromNew(n)'
        BY <1>2, <3>1, <3>2, <4>3 DEF FromNew, SentAs
      <4>5. FromOld(n) => FromOld(n)'
        <5> SUFFICES ASSUME FromOld(n) PROVE FromOld(n)'
          OBVIOUS
        <5>1. \A i \in 0 .. size - 3 : ba[i] = before[i]
          BY <1>2, <3>2 DEF FromOld
        <5> QED BY <1>2, <2>2, <3>1, <3>2, <4>3, <5>1 DEF FromOld, SentAs
      <4>6. ~(n' >= 2)
        BY <3>1, <3>2
      <4> QED BY <3>1, <4>1, <4>4, <4>5, <4>6 DEF FromBuffer, Frame
    <3>3. CASE n = 1
      <4>1. sent'[2] = 0
        BY <3>1, <3>3 DEF TrailerByte, LogLen
      <4> QED BY <3>1, <3>3, <4>1 DEF Frame, BeganAsTrailer
    <3>4. CASE n >= 2
      <4>1. CASE BeganAsTrailer(n)
        BY <1>2, <3>1, <3>4, <4>1 DEF BeganAsTrailer, Frame
      <4>2. CASE TrailerCutsIn(n) \/ FromBuffer(n)
        <5>1. serial_counter' <= SendTicks + n' /\ SendTicks < serial_counter' /\ n' <= LogLen
          BY <1>2, <1>6, <3>1, <3>4, <4>2 DEF TrailerCutsIn, FromBuffer, LogLen
        <5> QED BY <5>1 DEF Frame, TrailerCutsIn
      <4> QED BY <3>1, <4>1, <4>2 DEF Frame, Odd
    <3> QED BY <1>2, <3>2, <3>3, <3>4
  <2>4. n' <= size'
    BY <1>2, <1>6, <2>2 DEF LogLen
  <2> QED BY <1>1, <1>4, <2>2, <2>3, <2>4 DEF FrameOK
<1> QED BY <1>5, <1>6

LEMMA StopFrame ==
  ASSUME FrameInv, ~control, StopItself, UNCHANGED <<size, control>>
  PROVE  FrameOK'
<1> DEFINE n == send_counter
<1>1. TypeOK /\ FrameOK
  BY DEF FrameInv
<1>2. serial_counter >= StopTicks /\ serial_counter' = 0
      /\ UNCHANGED <<ba, send_counter, sent, before, changes>>
  BY DEF StopItself, frameVars
<1>3. ASSUME Frame(n) PROVE Frame(n)'
  <2>1. ~TrailerCutsIn(n)
    BY <1>1, <1>2, Ranges, TicksAssumption DEF TrailerCutsIn, LogLen
  <2>2. CASE BeganAsTrailer(n)
    BY <1>2, <2>2 DEF Frame, BeganAsTrailer
  <2>3. CASE FromBuffer(n)
    <3>1. serial_counter' <= SendTicks
      BY <1>2, TicksAssumption
    <3> QED BY <1>2, <2>3, <3>1 DEF Frame, FromBuffer, FromOld, FromNew, Straddled, SentAs
  <2> QED BY <1>3, <2>1, <2>2, <2>3 DEF Frame, Odd
<1> QED BY <1>1, <1>2, <1>3 DEF FrameOK

LEMMA TickFrame == ASSUME FrameInv, TypeOK', SerialTick PROVE FrameOK'
<1>1. UNCHANGED <<size, control>>
  BY DEF SerialTick, panelVars
<1>2. CASE control
  BY <1>1, <1>2, SealedTickFrame DEF SerialTick, TransmitControl
<1>3. CASE ~control /\ TransmitConfig
  <2>1. ConfigLen - 2 \in Nat
    BY LengthsAssumption DEF ControlLen
  <2> QED BY <1>1, <1>3, <2>1, SealedTickFrame DEF TransmitConfig
<1>4. CASE ~control /\ TransmitTrailer
  BY <1>1, <1>4, TrailerFrame
<1>5. CASE ~control /\ StopItself
  BY <1>1, <1>5, StopFrame
<1> QED BY <1>2, <1>3, <1>4, <1>5 DEF SerialTick

\* A new id is a change of one byte.
LEMMA IdFrame ==
  ASSUME FrameInv, OneChange, NEW id \in {Default, ReadId, WriteId},
         ba' = [ba EXCEPT ![3] = id],
         UNCHANGED <<size, control, send_counter, serial_counter, sent, before>>
  PROVE  FrameOK'
<1>1. \A i \in Offsets : i # 3 => ba'[i] = ba[i]
  BY IdIsByte DEF FrameInv
<1>2. size \in Nat /\ 3 < size /\ 3 <= ConfigLen - 3
  BY Ranges DEF FrameInv
<1> QED BY <1>1, <1>2, ChangedFrame

LEMMA EditFrame ==
  ASSUME FrameInv, NEW p \in Fields16 \cup Fields8, NEW v \in Values16 \cup Values8,
         Edit16(p, v) \/ Edit8(p, v)
  PROVE  FrameOK'
<1>1. v \in Nat
  BY ValuesAssumption
<1>2. PICK bytes : EditStores(p, bytes) /\ Edit(p, v, bytes)
  BY <1>1, EditsStore
<1> DEFINE q == p + Len(bytes) - 1
<1>3. /\ p \in Nat /\ p > 3 /\ q \in {p, p + 1} /\ q <= ConfigLen - 3
  <2>1. p \in Nat /\ p > 3 /\ q <= ConfigLen - 3 /\ Len(bytes) \in {1, 2}
    BY <1>2 DEF EditStores
  <2>2. CASE Len(bytes) = 1
    BY <2>1, <2>2
  <2>3. CASE Len(bytes) = 2
    BY <2>1, <2>3
  <2> QED BY <2>1, <2>2, <2>3
<1>4. /\ size' \in ControlLen .. ConfigLen
      /\ IF q < size THEN size' = size ELSE size' > size
      /\ \A i \in Offsets : i < size /\ i \notin p .. q => ba'[i] = ba[i]
  <2>1. Len(bytes) \in Nat /\ Len(bytes) > 0
    BY <1>2 DEF EditStores
  <2>2. /\ TypeOK /\ p \in Nat /\ p > 3 /\ p + Len(bytes) - 1 <= ConfigLen - 3
        /\ \A k \in 1 .. Len(bytes) : bytes[k] \in 0 .. Base - 1
        /\ StoreBytes(p, bytes)
    BY <1>2 DEF EditStores, FrameInv
  <2> QED BY <2>1, <2>2, StoreBytesIs
<1> HIDE DEF q
<1>5. \A i \in Offsets : i # p /\ i # q => i \notin p .. q
  BY <1>3 DEF Offsets
<1>6. size' \in Nat
  BY <1>4 DEF ControlLen
<1>7. OneChange /\ UNCHANGED <<control, send_counter, serial_counter, sent, before>>
  BY <1>2 DEF Edit, counterVars
<1> QED BY <1>3, <1>4, <1>5, <1>6, <1>7, ChangedFrame

LEMMA ControlFrame == ASSUME FrameInv, ControlOn \/ ControlOff PROVE FrameOK'
<1>1. 0 \in Offsets
  BY Ranges DEF FrameInv
<1>2. ba'[0] = Start
  <2>1. CASE ControlOn
    BY <1>1, <2>1, Headers DEF ControlOn, ControlBuffer
  <2>2. CASE ControlOff
    BY <1>1, <2>2, Headers DEF ControlOff, ConfigBuffer
  <2> QED BY <2>1, <2>2
<1>3. ~control' => size' = ConfigLen
  BY DEF ControlOn, ControlOff
<1>4. ~(changes' <= 1) /\ UNCHANGED <<send_counter, sent, before>>
  BY DEF ControlOn, ControlOff, counterVars
<1> QED BY <1>2, <1>3, <1>4 DEF FrameInv, FrameOK

LEMMA OtherFrame ==
  ASSUME FrameInv,
         \/ ToggleLog \/ Connect \/ Disconnect \/ CircleTimer \/ Clear
         \/ \E c \in Coords \cup {NoCircle} : CircleTick(c)
         \/ UNCHANGED vars
  PROVE  FrameOK'
<1>1. UNCHANGED <<ba, size, control, send_counter, serial_counter, sent, before, changes>>
  BY DEF ToggleLog, Connect, Disconnect, CircleTimer, CircleTick, Clear, vars,
         bufferVars, panelVars, counterVars, frameVars
<1> QED BY <1>1 DEF FrameInv, FrameOK, Frame, Odd, BeganAsTrailer, TrailerCutsIn,
                    FromBuffer, FromOld, FromNew, Straddled, SentAs

LEMMA NextFrame == FrameInv /\ [Next]_vars => FrameInv'
<1> SUFFICES ASSUME FrameInv, [Next]_vars PROVE FrameInv'
  OBVIOUS
<1>1. TypeOK'
  BY NextType DEF FrameInv
<1>2. CASE SerialTick
  BY <1>1, <1>2, TickFrame DEF FrameInv
<1>3. CASE Refresh
  <2>1. FrameOK'
    BY <1>3, IdFrame DEF Refresh, IdCleared, counterVars, panelVars
  <2> QED BY <1>1, <2>1 DEF FrameInv
<1>4. CASE Read \/ Write
  <2>1. PICK id \in {ReadId, WriteId} : Request(id)
    BY <1>4 DEF Read, Write
  <2>2. FrameOK'
    BY <2>1, IdFrame DEF Request, counterVars, panelVars
  <2> QED BY <1>1, <2>2 DEF FrameInv
<1>5. CASE ControlOn \/ ControlOff
  BY <1>1, <1>5, ControlFrame DEF FrameInv
<1>6. CASE \/ \E p \in Fields16, v \in Values16 : Edit16(p, v)
           \/ \E p \in Fields8, v \in Values8 : Edit8(p, v)
  BY <1>1, <1>6, EditFrame DEF FrameInv
<1>7. CASE \/ ToggleLog \/ Connect \/ Disconnect \/ CircleTimer \/ Clear
           \/ \E c \in Coords \cup {NoCircle} : CircleTick(c)
           \/ UNCHANGED vars
  BY <1>1, <1>7, OtherFrame DEF FrameInv
<1> QED BY <1>2, <1>3, <1>4, <1>5, <1>6, <1>7 DEF Next

\* An accepted frame came from the buffer, and if a change cut it the checksum
\* leaves the byte at the cut no second value.
LEMMA AcceptedIsWhole == FrameInv => FrameNotTorn
<1> SUFFICES ASSUME FrameInv, Accepted, changes <= 1
             PROVE  \E b \in {before, ba} : \A i \in 0 .. size - 3 : Received[i] = b[i]
  BY DEF FrameNotTorn
<1> DEFINE n == send_counter
<1>1. TypeOK /\ FrameOK
  BY DEF FrameInv
<1>2. /\ size \in Nat /\ size >= 10 /\ size <= ConfigLen /\ n \in Nat
      /\ ConfigLen \in Nat /\ ba \in Buffers
  BY <1>1, Ranges
<1>3. Complete /\ Len(sent) = size /\ n = size /\ Frame(n)
  <2>1. Complete /\ Len(sent) = size
    BY DEF Accepted, Complete
  <2>2. n = size
    BY <1>1, <1>2, <2>1 DEF FrameOK
  <2> QED BY <1>1, <2>1, <2>2 DEF FrameOK
<1>4. \A i \in 0 .. size - 1 : Received[i] = sent[i + 1]
  BY DEF Received
<1>5. ~Odd
  BY <1>3 DEF Odd, Complete
<1>6. ~BeganAsTrailer(n)
  <2> SUFFICES ASSUME BeganAsTrailer(n) PROVE FALSE
    OBVIOUS
  <2>1. Received[1] = 0
    BY <1>2, <1>4 DEF BeganAsTrailer
  <2>2. size = ConfigLen /\ Received[1] = Byte(size - 6)
    BY <1>1 DEF BeganAsTrailer, FrameOK, Accepted
  <2> QED BY <2>1, <2>2, LengthsAssumption DEF Byte
<1>7. ~TrailerCutsIn(n)
  BY <1>2, <1>3 DEF TrailerCutsIn, LogLen
<1>8. FromOld(n) \/ FromNew(n) \/ Straddled(n)
  BY <1>3, <1>5, <1>6, <1>7 DEF Frame, FromBuffer
<1>9. \A i \in 0 .. size - 3 : i < n /\ i \in 0 .. size - 1
  BY <1>2, <1>3
<1>10. CASE FromOld(n)
  BY <1>4, <1>9, <1>10 DEF FromOld, SentAs
<1>11. CASE FromNew(n)
  BY <1>4, <1>9, <1>11 DEF FromNew, SentAs
<1>12. CASE Straddled(n)
  <2>1. PICK p \in 1 .. size - 3 :
          /\ \A i \in 0 .. size - 3 : i < n /\ i # p => sent[i + 1] = ba[i]
          /\ n > size - 2 => sent[size - 1] = Byte(Sum(ba, size - 3))
    BY <1>12 DEF Straddled
  <2>2. \A i \in 0 .. size - 3 : i # p => Received[i] = ba[i]
    BY <1>4, <1>9, <2>1
  <2>3. Received[size - 2] = Byte(Sum(ba, size - 3))
    <3>1. size - 2 \in 0 .. size - 1 /\ size - 2 + 1 = size - 1 /\ n > size - 2
      BY <1>2, <1>3
    <3> QED BY <1>4, <2>1, <3>1
  <2>4. Byte(Sum(Received, size - 3)) = Byte(Sum(ba, size - 3))
    BY <2>3 DEF Accepted
  <2>5. \A i \in 0 .. size - 3 : Received[i] \in 0 .. Base - 1 /\ ba[i] \in 0 .. Base - 1
    <3> SUFFICES ASSUME NEW i \in 0 .. size - 3
                 PROVE  Received[i] \in 0 .. Base - 1 /\ ba[i] \in 0 .. Base - 1
      OBVIOUS
    <3>1. i \in Offsets
      BY <1>2 DEF Offsets
    <3>2. i + 1 \in 1 .. Len(sent) /\ i \in 0 .. size - 1
      BY <1>2, <1>3
    <3>3. sent[i + 1] \in 0 .. Base - 1
      <4>1. sent \in Seq(0 .. Base - 1)
        BY <1>1 DEF FrameOK
      <4>2. i + 1 \in 1 .. Len(sent)
        BY <3>2
      <4> QED BY <4>1, <4>2, ElementOfSeq
    <3>4. Received[i] = sent[i + 1]
      BY <1>4, <3>2
    <3> QED BY <1>2, <3>1, <3>3, <3>4 DEF Buffers
  <2> HIDE DEF Received
  <2>6. \A i \in 1 .. size - 3 : Received[i] \in Int /\ ba[i] \in Int
    BY <1>2, <2>5, BaseAssumption
  <2>7. Sum(Received, size - 3) - Sum(ba, size - 3) = Received[p] - ba[p]
    <3>1. size - 3 \in Nat /\ \A i \in 1 .. size - 3 : i # p => Received[i] = ba[i]
      BY <1>2, <2>2
    <3> QED BY <2>6, <3>1, SumOfOneOff
  <2>8. Sum(Received, size - 3) \in Int /\ Sum(ba, size - 3) \in Int
    <3>1. size - 3 \in Nat
      BY <1>2
    <3> QED BY <2>6, <3>1, SumIsInt
  <2>9. Received[p] = ba[p]
    <3>1. Received[p] \in 0 .. Base - 1 /\ ba[p] \in 0 .. Base - 1
      BY <1>2, <2>5
    <3> QED BY <2>4, <2>7, <2>8, <3>1, SameResidue
  <2> QED BY <2>2, <2>9
<1> QED BY <1>8, <1>10, <1>11, <1>12

\* Whatever the spin boxes, the requests and the two timers do to the buffer
\* between two ticks, a frame that changes at most once while it goes out and
\* passes the autopilot's checks is the buffer of one moment; no byte of a
\* trailer and no half of a field gets into it (dialog.cpp:372-436).
THEOREM FrameNotTornAlways == Spec => []FrameNotTorn
<1>1. Init => FrameInv
  BY InitType, InitFrame DEF FrameInv
<1> QED BY <1>1, NextFrame, AcceptedIsWhole, PTL DEF Spec
=============================================================================
