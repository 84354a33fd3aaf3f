------------------------ MODULE SerialReceive_proofs ------------------------
(***************************************************************************)
(* Proofs about SerialReceive, for every set of messages that satisfies    *)
(* MessagesAssumption and every number of frames and clicks.               *)
(***************************************************************************)
EXTENDS SerialReceive, SequenceTheorems, TLAPS

---------------------------------------------------------------------------
(* The inductive invariant.  What matters of the wire and the buffer is    *)
(* that together they are the end of the stream of all frames sent.        *)

\* The bytes of the stream that were read, dropped or cleared.
Gone == FrameLen * Len(sent) - Len(buffer) - Len(wire)

\* bytes are those behind the first skipped ones in the stream of the frames.
ContinuesAt(frames, skipped, bytes) ==
  \A f \in 1 .. Len(frames), i \in 1 .. FrameLen :
    LET k == FrameLen * (f - 1) + i - skipped
    IN  k \in 1 .. Len(bytes) => bytes[k] = Frame(frames[f])[i]

StreamOK ==
  /\ Gone \in Nat
  /\ ContinuesAt(sent, Gone, buffer)
  /\ ContinuesAt(sent, Gone + Len(buffer), wire)
  /\ ~connected => buffer = <<>>

\* ShownWasSent, and what was shown is gone from the stream.
ShownIsGone ==
  \E from \in [DOMAIN shown -> DOMAIN sent] :
    /\ \A i, j \in DOMAIN shown : i < j => from[i] < from[j]
    /\ \A i \in DOMAIN shown : shown[i] = sent[from[i]] /\ FrameLen * from[i] <= Gone

\* Every piece holds a byte.
PiecesOK == pieces <= Gone + Len(buffer)

RegularOK ==
  regular /\ connected =>
    /\ ~frozen /\ buffer = <<>>
    /\ Gone = FrameLen * pieces
    /\ shown = SubSeq(sent, 1, pieces)

IInv == TypeOK /\ StreamOK /\ ShownIsGone /\ PiecesOK /\ RegularOK

---------------------------------------------------------------------------
(* Frames.                                                                 *)

LEMMA Maxima == MaxByte = 255 /\ MaxWord = 65535 /\ MaxShort = 32767
  BY DEF MaxByte, MaxWord, MaxShort

\* The provers do not look into a range that a large numeral bounds.
LEMMA Ranges ==
  ASSUME NEW n
  PROVE
  /\ n \in Byte <=> n \in Int /\ 0 <= n /\ n <= 255
  /\ n \in Word <=> n \in Int /\ 0 <= n /\ n <= 65535
  /\ n \in Short <=> n \in Int /\ -32768 <= n /\ n <= 32767
<1>1. MaxByte \in Int /\ MaxWord \in Int /\ MaxShort \in Int
  BY Maxima
<1>2.
  /\ n \in Byte <=> n \in Int /\ 0 <= n /\ n <= MaxByte
  /\ n \in Word <=> n \in Int /\ 0 <= n /\ n <= MaxWord
  /\ n \in Short <=> n \in Int /\ -MaxShort - 1 <= n /\ n <= MaxShort
  BY <1>1 DEF Byte, Word, Short
<1> QED BY <1>2, Maxima

\* The two bytes of a number give the number back.
LEMMA TwoBytes ==
  ASSUME NEW n \in Int, -32768 <= n, n <= 65535
  PROVE  /\ High(n) \in Byte /\ Low(n) \in Byte
         /\ n >= 0 => 256 * High(n) + Low(n) = n
         /\ n < 0 => 256 * High(n) + Low(n) = n + 65536
<1>1. (n < 0 => n % 65536 = n + 65536) /\ (n >= 0 => n % 65536 = n)
  OBVIOUS
<1>2. (n % 65536) % 256 = n % 256
  OBVIOUS
<1>3. ASSUME NEW p \in Int, 0 <= p, p <= 65535
      PROVE  /\ p \div 256 \in Int /\ 0 <= p \div 256 /\ p \div 256 <= 255
             /\ p % 256 \in Int /\ 0 <= p % 256 /\ p % 256 <= 255
             /\ 256 * (p \div 256) + (p % 256) = p
  BY <1>3
<1> DEFINE p == n % 65536
<1>4. p \in Int /\ 0 <= p /\ p <= 65535
  BY <1>1
<1>5. /\ High(n) \in Int /\ 0 <= High(n) /\ High(n) <= 255
      /\ Low(n) \in Int /\ 0 <= Low(n) /\ Low(n) <= 255
      /\ 256 * High(n) + Low(n) = p
  <2> HIDE DEF p
  <2>1. p \div 256 = High(n) /\ p % 256 = Low(n)
    BY <1>2 DEF High, Low, p
  <2> QED BY <1>3, <1>4, <2>1
<1>6. High(n) \in Byte /\ Low(n) \in Byte
  BY <1>5, Ranges
<1> QED BY <1>1, <1>5, <1>6

LEMMA MessagesAreReports == Messages \subseteq Report
  BY MessagesAssumption, Zenon

LEMMA FrameType ==
  ASSUME NEW m \in Report
  PROVE  Frame(m) \in Seq(Byte) /\ Len(Frame(m)) = FrameLen
<1>1. m.x \in Word /\ m.y \in Word /\ m.pid \in Short /\ m.height \in Byte
  BY DEF Report
<1>2. /\ m.x \in Int /\ -32768 <= m.x /\ m.x <= 65535
      /\ m.y \in Int /\ -32768 <= m.y /\ m.y <= 65535
      /\ m.pid \in Int /\ -32768 <= m.pid /\ m.pid <= 65535
  BY <1>1, Ranges
<1>3. /\ High(m.x) \in Byte /\ Low(m.x) \in Byte
      /\ High(m.y) \in Byte /\ Low(m.y) \in Byte
      /\ High(m.pid) \in Byte /\ Low(m.pid) \in Byte
  BY <1>2, TwoBytes
<1>4. Start \in Byte /\ End1 \in Byte /\ End2 \in Byte /\ 0 \in Byte
  BY Ranges DEF Start, End1, End2
<1> QED BY <1>1, <1>3, <1>4 DEF Frame, FrameLen

\* allocate gives the message of a frame back.
LEMMA DecodedBack ==
  ASSUME NEW m \in Report, NEW piece, \A j \in 0 .. 12 : At(piece, j) = Frame(m)[j + 1]
  PROVE  Decoded(piece) = m
<1>1. /\ At(piece, 4) = High(m.x) /\ At(piece, 5) = Low(m.x)
      /\ At(piece, 6) = High(m.y) /\ At(piece, 7) = Low(m.y)
      /\ At(piece, 8) = m.height
      /\ At(piece, 9) = High(m.pid) /\ At(piece, 10) = Low(m.pid)
  BY DEF Frame
<1>2. m.x \in Word /\ m.y \in Word /\ m.pid \in Short
  BY DEF Report
<1>3. Unsigned(piece, 4) = m.x
  <2>1. m.x \in Int /\ 0 <= m.x /\ m.x <= 65535
    BY <1>2, Ranges
  <2>2. High(m.x) \in Byte /\ Low(m.x) \in Byte /\ 256 * High(m.x) + Low(m.x) = m.x
    BY <2>1, TwoBytes
  <2>3. High(m.x) \in Int /\ Low(m.x) \in Int
    BY <2>2, Ranges
  <2> QED BY <1>1, <2>2, <2>3 DEF Unsigned
<1>4. Unsigned(piece, 6) = m.y
  <2>1. m.y \in Int /\ 0 <= m.y /\ m.y <= 65535
    BY <1>2, Ranges
  <2>2. High(m.y) \in Byte /\ Low(m.y) \in Byte /\ 256 * High(m.y) + Low(m.y) = m.y
    BY <2>1, TwoBytes
  <2>3. High(m.y) \in Int /\ Low(m.y) \in Int
    BY <2>2, Ranges
  <2> QED BY <1>1, <2>2, <2>3 DEF Unsigned
<1>5. Signed(piece, 9) = m.pid
  <2>1. m.pid \in Int /\ -32768 <= m.pid /\ m.pid <= 32767
    BY <1>2, Ranges
  <2>2. /\ High(m.pid) \in Byte /\ Low(m.pid) \in Byte
        /\ m.pid >= 0 => 256 * High(m.pid) + Low(m.pid) = m.pid
        /\ m.pid < 0 => 256 * High(m.pid) + Low(m.pid) = m.pid + 65536
    BY <2>1, TwoBytes
  <2>3. High(m.pid) \in Int /\ Low(m.pid) \in Int
    BY <2>2, Ranges
  <2> QED BY <1>1, <2>1, <2>2, <2>3 DEF Signed, Unsigned
<1>6. m = [x |-> m.x, y |-> m.y, height |-> m.height, pid |-> m.pid]
  BY DEF Report
<1> QED BY <1>1, <1>3, <1>4, <1>5, <1>6 DEF Decoded

\* Every position of the stream is in a frame.
LEMMA Position ==
  ASSUME NEW p \in Nat, NEW n \in Nat, p < FrameLen * n
  PROVE  \E f \in 1 .. n, i \in 1 .. FrameLen : p = FrameLen * (f - 1) + i - 1
<1> DEFINE f == p \div 13 + 1
           i == (p % 13) + 1
<1>1. f \in Int /\ i \in 1 .. 13 /\ p = 13 * (f - 1) + i - 1
  OBVIOUS
<1>2. f \in 1 .. n
  <2> HIDE DEF f, i
  <2> QED BY <1>1 DEF FrameLen
<1> HIDE DEF f, i
<1> QED BY <1>1, <1>2 DEF FrameLen

---------------------------------------------------------------------------
(* Parts of the stream.                                                    *)

LEMMA ByteOfFrame ==
  ASSUME NEW frames, NEW n, NEW s, ContinuesAt(frames, n, s),
         NEW f \in 1 .. Len(frames), NEW i \in 1 .. FrameLen,
         NEW k \in 1 .. Len(s), FrameLen * (f - 1) + i - n = k
  PROVE  s[k] = Frame(frames[f])[i]
  BY DEF ContinuesAt

LEMMA Joined ==
  ASSUME NEW frames \in Seq(Messages), NEW n \in Nat, NEW s \in Seq(Byte), NEW t \in Seq(Byte),
         ContinuesAt(frames, n, s), ContinuesAt(frames, n + Len(s), t)
  PROVE  ContinuesAt(frames, n, s \o t)
<1> SUFFICES ASSUME NEW f \in 1 .. Len(frames), NEW i \in 1 .. FrameLen,
                    FrameLen * (f - 1) + i - n \in 1 .. Len(s \o t)
             PROVE  (s \o t)[FrameLen * (f - 1) + i - n] = Frame(frames[f])[i]
  BY DEF ContinuesAt
<1> DEFINE k == FrameLen * (f - 1) + i - n
<1>1. k \in Int /\ Len(s \o t) = Len(s) + Len(t)
  BY DEF FrameLen
<1>2. FrameLen * (f - 1) + i - (n + Len(s)) = k - Len(s)
  BY DEF FrameLen
<1>3. CASE k <= Len(s)
  <2>1. s[k] = Frame(frames[f])[i]
    BY <1>1, <1>3 DEF ContinuesAt
  <2> QED BY <1>1, <1>3, <2>1
<1>4. CASE k > Len(s)
  <2>1. k - Len(s) \in 1 .. Len(t)
    BY <1>1, <1>4
  <2>2. t[k - Len(s)] = Frame(frames[f])[i]
    BY <1>2, <2>1 DEF ContinuesAt
  <2> HIDE DEF k
  <2>3. k \in 1 .. Len(s) + Len(t)
    BY <1>1 DEF k
  <2>4. (s \o t)[k] = t[k - Len(s)]
    BY <1>4, <2>3
  <2> QED BY <2>2, <2>4 DEF k
<1> QED BY <1>1, <1>3, <1>4

LEMMA Cut ==
  ASSUME NEW frames \in Seq(Messages), NEW n \in Nat, NEW t \in Seq(Byte), NEW k \in 0 .. Len(t),
         ContinuesAt(frames, n, t)
  PROVE  /\ ContinuesAt(frames, n, SubSeq(t, 1, k))
         /\ ContinuesAt(frames, n + k, SubSeq(t, k + 1, Len(t)))
<1>1. /\ Len(SubSeq(t, 1, k)) = k
      /\ \A j \in 1 .. k : SubSeq(t, 1, k)[j] = t[j]
  OBVIOUS
<1>2. /\ Len(SubSeq(t, k + 1, Len(t))) = Len(t) - k
      /\ \A j \in 1 .. Len(t) - k : SubSeq(t, k + 1, Len(t))[j] = t[j + k]
  OBVIOUS
<1>3. ContinuesAt(frames, n, SubSeq(t, 1, k))
  BY <1>1 DEF ContinuesAt
<1>4. ContinuesAt(frames, n + k, SubSeq(t, k + 1, Len(t)))
  <2> SUFFICES ASSUME NEW f \in 1 .. Len(frames), NEW i \in 1 .. FrameLen,
                      FrameLen * (f - 1) + i - (n + k) \in 1 .. Len(t) - k
               PROVE  SubSeq(t, k + 1, Len(t))[FrameLen * (f - 1) + i - (n + k)] = Frame(frames[f])[i]
    BY <1>2 DEF ContinuesAt
  <2>1. /\ FrameLen * (f - 1) + i - n \in 1 .. Len(t)
        /\ FrameLen * (f - 1) + i - (n + k) + k = FrameLen * (f - 1) + i - n
    BY DEF FrameLen
  <2>2. t[FrameLen * (f - 1) + i - n] = Frame(frames[f])[i]
    BY <2>1 DEF ContinuesAt
  <2> QED BY <1>2, <2>1, <2>2
<1> QED BY <1>3, <1>4

\* What read_data takes for a frame is one, whole and unshifted: the end bytes
\* stand nowhere else, and the last of them differs from the first.
LEMMA PieceIsFrame ==
  ASSUME NEW frames \in Seq(Messages), NEW n \in Nat, NEW piece \in Seq(Byte),
         ContinuesAt(frames, n, piece), n + Len(piece) <= FrameLen * Len(frames), IsFrame(piece)
  PROVE  \E f \in 1 .. Len(frames) :
           /\ n = FrameLen * (f - 1) /\ Len(piece) >= FrameLen
           /\ Decoded(piece) = frames[f]
<1>1. Len(piece) >= 13 /\ piece[12] = End1 /\ piece[13] = End2
  BY DEF IsFrame, At, End1, End2, Start
<1>2. PICK f \in 1 .. Len(frames), i \in 1 .. FrameLen : n + 11 = FrameLen * (f - 1) + i - 1
  <2>1. Len(frames) \in Nat /\ n + 11 \in Nat /\ n + 11 < FrameLen * Len(frames)
    BY <1>1 DEF FrameLen
  <2> QED BY <2>1, Position
<1>3. frames[f] \in Messages /\ frames[f] \in Report
  <2>1. frames[f] \in Messages
    OBVIOUS
  <2> QED BY <2>1, MessagesAreReports
<1>4. piece[12] = Frame(frames[f])[i]
  <2>1. FrameLen * (f - 1) + i - n = 12 /\ 12 \in 1 .. Len(piece)
    BY <1>1, <1>2 DEF FrameLen
  <2> QED BY <2>1, ByteOfFrame
<1>5. i # 13
  BY <1>1, <1>4 DEF Frame, End1, End2
<1>6. ~(i <= 11)
  <2> SUFFICES ASSUME i <= 11 PROVE FALSE
    OBVIOUS
  <2> DEFINE h == i + 1
  <2>1. FrameLen * (f - 1) + h - n = 13 /\ 13 \in 1 .. Len(piece) /\ h \in 1 .. FrameLen
    BY <1>1, <1>2 DEF FrameLen
  <2>2. piece[13] = Frame(frames[f])[h]
    <3> HIDE DEF h
    <3> QED BY <2>1, ByteOfFrame
  <2>3. i \in 1 .. FrameLen - 2
    BY DEF FrameLen
  <2> QED BY <1>1, <1>3, <1>4, <2>2, <2>3, MessagesAssumption, Zenon
<1>7. n = FrameLen * (f - 1)
  BY <1>2, <1>5, <1>6 DEF FrameLen
<1>8. ASSUME NEW j \in 1 .. 13 PROVE piece[j] = Frame(frames[f])[j]
  <2>1. j \in 1 .. Len(piece) /\ j \in 1 .. FrameLen /\ FrameLen * (f - 1) + j - n = j
    BY <1>1, <1>7 DEF FrameLen
  <2> QED BY <2>1, ByteOfFrame
<1>9. ASSUME NEW j \in 0 .. 12 PROVE At(piece, j) = Frame(frames[f])[j + 1]
  <2>1. j + 1 \in 1 .. 13 /\ j < Len(piece)
    BY <1>1
  <2> QED BY <1>8, <2>1 DEF At
<1>10. Decoded(piece) = frames[f]
  BY <1>3, <1>9, DecodedBack
<1> QED BY <1>1, <1>7, <1>10 DEF FrameLen

\* A frame more continues the stream.
LEMMA Sent ==
  ASSUME NEW frames \in Seq(Messages), NEW m \in Messages, NEW n \in Nat, NEW t \in Seq(Byte),
         n + Len(t) = FrameLen * Len(frames), ContinuesAt(frames, n, t)
  PROVE  ContinuesAt(Append(frames, m), n, t \o Frame(m))
<1> DEFINE more == Append(frames, m)
           u == t \o Frame(m)
<1>1. Frame(m) \in Seq(Byte) /\ Len(Frame(m)) = 13
  BY FrameType, MessagesAreReports DEF FrameLen
<1>2. /\ Len(more) = Len(frames) + 1 /\ more[Len(frames) + 1] = m
      /\ \A f \in 1 .. Len(frames) : more[f] = frames[f]
      /\ Len(frames) \in Nat /\ Len(t) \in Nat
  OBVIOUS
<1>3. /\ Len(u) = Len(t) + 13
      /\ \A k \in 1 .. Len(t) : u[k] = t[k]
      /\ \A k \in Len(t) + 1 .. Len(t) + 13 : u[k] = Frame(m)[k - Len(t)]
  <2> DEFINE F == Frame(m)
  <2>1. F \in Seq(Byte) /\ Len(F) = 13
    BY <1>1
  <2> HIDE DEF F
  <2>2. /\ Len(t \o F) = Len(t) + 13
        /\ \A k \in 1 .. Len(t) + 13 : (t \o F)[k] = IF k <= Len(t) THEN t[k] ELSE F[k - Len(t)]
    <3>1. /\ Len(t \o F) = Len(t) + Len(F)
          /\ \A k \in 1 .. Len(t) + Len(F) : (t \o F)[k] = IF k <= Len(t) THEN t[k] ELSE F[k - Len(t)]
      BY <2>1, ConcatProperties, Zenon
    <3> QED BY <2>1, <3>1
  <2>3. /\ Len(t \o F) = Len(t) + 13 /\ Len(t) \in Nat
        /\ \A k \in 1 .. Len(t) : (t \o F)[k] = t[k]
        /\ \A k \in Len(t) + 1 .. Len(t) + 13 : (t \o F)[k] = F[k - Len(t)]
    BY <2>2
  <2> QED BY <2>3 DEF F
<1> HIDE DEF more, u
<1>4. ASSUME NEW f \in 1 .. Len(more), NEW i \in 1 .. FrameLen, NEW k \in 1 .. Len(u),
             FrameLen * (f - 1) + i - n = k
      PROVE  u[k] = Frame(more[f])[i]
  <2>1. CASE f = Len(frames) + 1
    <3>1. k = Len(t) + i
      BY <1>2, <1>4, <2>1 DEF FrameLen
    <3>2. k \in Len(t) + 1 .. Len(t) + 13 /\ k - Len(t) = i
      BY <1>2, <3>1 DEF FrameLen
    <3> QED BY <1>2, <1>3, <2>1, <3>2
  <2>2. CASE f \in 1 .. Len(frames)
    <3>1. k \in 1 .. Len(t)
      BY <1>2, <1>4, <2>2 DEF FrameLen
    <3>2. t[k] = Frame(frames[f])[i]
      <4>1. FrameLen * (f - 1) + i - n = k
        BY <1>4
      <4>2. i \in 1 .. FrameLen
        BY <1>4
      <4> QED BY <2>2, <3>1, <4>1, <4>2, ByteOfFrame
    <3> QED BY <1>2, <1>3, <2>2, <3>1, <3>2
  <2> QED BY <1>2, <2>1, <2>2
<1>5. ContinuesAt(more, n, u)
  BY <1>4 DEF ContinuesAt
<1> QED BY <1>5 DEF more, u

\* A frame more says nothing new of bytes that end before it.
LEMMA SentBehind ==
  ASSUME NEW frames \in Seq(Messages), NEW m \in Messages, NEW n \in Nat, NEW s \in Seq(Byte),
         n + Len(s) <= FrameLen * Len(frames), ContinuesAt(frames, n, s)
  PROVE  ContinuesAt(Append(frames, m), n, s)
<1> DEFINE more == Append(frames, m)
<1>1. /\ Len(more) = Len(frames) + 1 /\ Len(frames) \in Nat /\ Len(s) \in Nat
      /\ \A f \in 1 .. Len(frames) : more[f] = frames[f]
  OBVIOUS
<1> HIDE DEF more
<1>2. ASSUME NEW f \in 1 .. Len(more), NEW i \in 1 .. FrameLen, NEW k \in 1 .. Len(s),
             FrameLen * (f - 1) + i - n = k
      PROVE  s[k] = Frame(more[f])[i]
  <2>1. f # Len(frames) + 1
    <3> SUFFICES ASSUME f = Len(frames) + 1 PROVE FALSE
      OBVIOUS
    <3>1. k = 13 * Len(frames) + i - n
      BY <1>1, <1>2 DEF FrameLen
    <3> QED BY <1>1, <3>1 DEF FrameLen
  <2>2. s[k] = Frame(frames[f])[i]
    <3>1. f \in 1 .. Len(frames)
      BY <1>1, <2>1
    <3> QED BY <1>2, <3>1, ByteOfFrame
  <2> QED BY <1>1, <2>1, <2>2
<1>3. ContinuesAt(more, n, s)
  BY <1>2 DEF ContinuesAt
<1> QED BY <1>3 DEF more

---------------------------------------------------------------------------
(* The invariant.                                                          *)

LEMMA InitIInv == Init => IInv
<1> SUFFICES ASSUME Init PROVE IInv
  OBVIOUS
<1>1. TypeOK
  <2>1. wire \in Seq(Byte) /\ buffer \in Seq(Byte) /\ shown \in Seq(Report) /\ sent \in Seq(Messages)
    BY DEF Init
  <2>2. connected \in BOOLEAN /\ frozen \in BOOLEAN /\ regular \in BOOLEAN
    BY DEF Init
  <2>3. clicks \in 0 .. MaxClicks /\ pieces \in Nat
    BY ReceiveBoundsAssumption DEF Init
  <2> QED BY <2>1, <2>2, <2>3 DEF TypeOK
<1>2. Gone = 0 /\ Len(sent) = 0 /\ Len(buffer) = 0 /\ Len(wire) = 0 /\ Len(shown) = 0
  BY DEF Init, Gone, FrameLen
<1>3. StreamOK
  BY <1>2 DEF Init, StreamOK, ContinuesAt
<1>4. ShownIsGone
  <2> DEFINE from == [i \in DOMAIN shown |-> 0]
  <2>1. DOMAIN shown = {} /\ from \in [DOMAIN shown -> DOMAIN sent]
    BY DEF Init
  <2> QED BY <2>1 DEF ShownIsGone
<1>5. PiecesOK /\ RegularOK
  BY <1>2 DEF Init, PiecesOK, RegularOK
<1> QED BY <1>1, <1>3, <1>4, <1>5 DEF IInv

\* What the lengths say.
LEMMA Lengths ==
  ASSUME IInv
  PROVE  /\ Gone \in Nat /\ Len(buffer) \in Nat /\ Len(wire) \in Nat /\ Len(sent) \in Nat
         /\ Gone + Len(buffer) + Len(wire) = FrameLen * Len(sent)
  BY DEF IInv, TypeOK, StreamOK, Gone, FrameLen

\* A step that leaves the stream and the history of what was shown behind.
LEMMA ShownKept ==
  ASSUME TypeOK, ShownIsGone, UNCHANGED <<shown, sent>>, Gone \in Nat, Gone' \in Nat, Gone' >= Gone
  PROVE  ShownIsGone'
<1>1. PICK from \in [DOMAIN shown -> DOMAIN sent] :
        /\ \A i, j \in DOMAIN shown : i < j => from[i] < from[j]
        /\ \A i \in DOMAIN shown : shown[i] = sent[from[i]] /\ FrameLen * from[i] <= Gone
  BY DEF ShownIsGone
<1>2. ASSUME NEW i \in DOMAIN shown PROVE FrameLen * from[i] <= Gone'
  <2>1. from[i] \in Int /\ FrameLen * from[i] <= Gone
    BY <1>1 DEF TypeOK
  <2> QED BY <2>1 DEF FrameLen
<1> QED BY <1>1, <1>2 DEF ShownIsGone

LEMMA SendIInv == ASSUME IInv, NEW m \in Messages, Send(m) PROVE IInv'
<1> USE DEF IInv
<1>1. Frame(m) \in Seq(Byte) /\ Len(Frame(m)) = FrameLen
  BY FrameType, MessagesAreReports
<1>2. /\ wire' = wire \o Frame(m) /\ sent' = Append(sent, m)
      /\ UNCHANGED <<buffer, connected, frozen, shown, clicks, pieces, regular>>
  BY DEF Send
<1>3. TypeOK'
  BY <1>1, <1>2 DEF TypeOK
<1>4. /\ Len(sent') = Len(sent) + 1 /\ \A f \in 1 .. Len(sent) : sent'[f] = sent[f]
      /\ Len(wire') = Len(wire) + FrameLen
  <2>1. Len(sent') = Len(sent) + 1 /\ \A f \in 1 .. Len(sent) : sent'[f] = sent[f]
    BY <1>2 DEF TypeOK
  <2>2. Len(wire') = Len(wire) + FrameLen
    BY <1>1, <1>2, ConcatProperties DEF TypeOK
  <2> QED BY <2>1, <2>2
<1>5. Gone' = Gone
  BY <1>2, <1>4, Lengths DEF Gone, FrameLen
<1>6. StreamOK'
  <2>1. ContinuesAt(sent', Gone, buffer)
    BY <1>2, Lengths, SentBehind DEF TypeOK, StreamOK
  <2>2. ContinuesAt(sent', Gone + Len(buffer), wire')
    <3>1. Gone + Len(buffer) \in Nat /\ Gone + Len(buffer) + Len(wire) = FrameLen * Len(sent)
      BY Lengths
    <3> QED BY <1>2, <3>1, Sent DEF TypeOK, StreamOK
  <2> QED BY <1>2, <1>5, <2>1, <2>2 DEF StreamOK
<1>7. ShownIsGone'
  <2>1. PICK from \in [DOMAIN shown -> DOMAIN sent] :
          /\ \A i, j \in DOMAIN shown : i < j => from[i] < from[j]
          /\ \A i \in DOMAIN shown : shown[i] = sent[from[i]] /\ FrameLen * from[i] <= Gone
    BY DEF ShownIsGone
  <2>2. DOMAIN sent = 1 .. Len(sent) /\ DOMAIN sent' = 1 .. Len(sent')
    BY <1>3 DEF TypeOK
  <2>3. from \in [DOMAIN shown -> DOMAIN sent']
    BY <1>4, <2>1, <2>2, Lengths
  <2>4. \A i \in DOMAIN shown : sent'[from[i]] = sent[from[i]]
    BY <1>4, <2>1, <2>2
  <2> QED BY <1>2, <1>5, <2>1, <2>3, <2>4 DEF ShownIsGone
<1>8. PiecesOK'
  BY <1>2, <1>5 DEF PiecesOK
<1>9. RegularOK'
  <2> SUFFICES ASSUME regular, connected
               PROVE  ~frozen /\ buffer = <<>> /\ Gone = FrameLen * pieces /\ shown = SubSeq(sent', 1, pieces)
    BY <1>2, <1>5 DEF RegularOK
  <2>1. ~frozen /\ buffer = <<>> /\ Gone = FrameLen * pieces /\ shown = SubSeq(sent, 1, pieces)
    BY DEF RegularOK
  <2>2. pieces \in Nat /\ pieces <= Len(sent)
    BY <2>1, Lengths DEF TypeOK, FrameLen
  <2>3. SubSeq(sent', 1, pieces) = SubSeq(sent, 1, pieces)
    BY <1>2, <2>2 DEF TypeOK
  <2> QED BY <2>1, <2>3
<1> QED BY <1>3, <1>6, <1>7, <1>8, <1>9

LEMMA ArriveIInv == ASSUME IInv, NEW k \in 1 .. Len(wire), Arrive(k) PROVE IInv'
<1> DEFINE front == SubSeq(wire, 1, k)
           piece == buffer \o front
<1>1. /\ TypeOK /\ StreamOK /\ ShownIsGone /\ PiecesOK /\ RegularOK
      /\ Gone \in Nat /\ Len(buffer) \in Nat /\ Len(wire) \in Nat /\ Len(sent) \in Nat
      /\ Gone + Len(buffer) + Len(wire) = FrameLen * Len(sent)
  BY Lengths DEF IInv
<1>2. /\ connected
      /\ IF frozen THEN buffer' = piece /\ UNCHANGED shown ELSE ReadData(piece)
      /\ wire' = SubSeq(wire, k + 1, Len(wire))
      /\ regular' = (regular /\ k = FrameLen)
      /\ pieces' = pieces + 1
      /\ UNCHANGED <<connected, frozen, clicks, sent>>
  BY DEF Arrive
<1>3. /\ front \in Seq(Byte) /\ Len(front) = k
      /\ wire' \in Seq(Byte) /\ Len(wire') = Len(wire) - k
  BY <1>1, <1>2 DEF TypeOK
<1>4. piece \in Seq(Byte) /\ Len(piece) = Len(buffer) + k
  BY <1>1, <1>3, ConcatProperties DEF TypeOK
<1>5. ContinuesAt(sent, Gone, piece) /\ ContinuesAt(sent, Gone + Len(piece), wire')
  <2>1. k \in 0 .. Len(wire) /\ Gone + Len(buffer) \in Nat
    BY <1>1
  <2>2. /\ ContinuesAt(sent, Gone + Len(buffer), front)
        /\ ContinuesAt(sent, (Gone + Len(buffer)) + k, wire')
    BY <1>1, <1>2, <2>1, Cut DEF TypeOK, StreamOK
  <2>3. (Gone + Len(buffer)) + k = Gone + Len(piece)
    BY <1>1, <1>4
  <2>4. ContinuesAt(sent, Gone, piece)
    BY <1>1, <1>3, <2>2, Joined DEF TypeOK, StreamOK
  <2> QED BY <2>2, <2>3, <2>4
<1>6. Gone + Len(piece) <= FrameLen * Len(sent) /\ pieces \in Nat
  BY <1>1, <1>4 DEF TypeOK
<1> HIDE DEF piece, front
<1>7. CASE frozen
  <2>1. buffer' = piece /\ shown' = shown /\ ~regular
    BY <1>1, <1>2, <1>7 DEF RegularOK
  <2>2. TypeOK'
    BY <1>1, <1>2, <1>3, <1>4, <2>1 DEF TypeOK
  <2>3. Gone' = Gone
    <3>1. Len(buffer') = Len(buffer) + k /\ Len(wire') = Len(wire) - k /\ sent' = sent
      BY <1>2, <1>3, <1>4, <2>1
    <3> QED BY <1>1, <3>1 DEF Gone, FrameLen
  <2>4. StreamOK'
    BY <1>1, <1>2, <1>5, <2>1, <2>3 DEF StreamOK
  <2>5. ShownIsGone'
    BY <1>1, <1>2, <2>1, <2>3, ShownKept
  <2>6. PiecesOK'
    BY <1>1, <1>2, <1>4, <1>6, <2>1, <2>3 DEF PiecesOK
  <2>7. RegularOK'
    BY <1>2, <2>1 DEF RegularOK
  <2> QED BY <2>2, <2>4, <2>5, <2>6, <2>7 DEF IInv
<1>8. CASE ~frozen
  <2>1. /\ shown' = IF IsFrame(piece) THEN Append(shown, Decoded(piece)) ELSE shown
        /\ buffer' = <<>>
    BY <1>2, <1>8 DEF ReadData
  <2>2. Gone' = Gone + Len(piece)
    <3>1. Len(buffer') = 0 /\ Len(wire') = Len(wire) - k /\ sent' = sent
      BY <1>2, <1>3, <2>1
    <3> QED BY <1>1, <1>4, <3>1 DEF Gone, FrameLen
  <2>3. StreamOK'
    <3>1. Gone' \in Nat
      BY <1>1, <1>4, <2>2
    <3>2. ContinuesAt(sent, Gone', <<>>)
      BY DEF ContinuesAt
    <3>3. ContinuesAt(sent, Gone' + Len(buffer'), wire')
      BY <1>5, <2>1, <2>2, <3>1
    <3> QED BY <1>2, <2>1, <3>1, <3>2, <3>3 DEF StreamOK
  <2>4. PiecesOK'
    BY <1>1, <1>2, <1>3, <1>4, <1>6, <2>1, <2>2 DEF PiecesOK
  <2>5. CASE IsFrame(piece)
    <3>1. PICK f \in 1 .. Len(sent) :
            Gone = FrameLen * (f - 1) /\ Len(piece) >= FrameLen /\ Decoded(piece) = sent[f]
      BY <1>1, <1>4, <1>5, <1>6, <2>5, PieceIsFrame DEF TypeOK
    <3>2. shown' = Append(shown, sent[f]) /\ sent[f] \in Report
      BY <1>1, <2>1, <2>5, <3>1, MessagesAreReports DEF TypeOK
    <3>3. TypeOK'
      BY <1>1, <1>2, <1>3, <2>1, <3>2 DEF TypeOK
    <3>4. ShownIsGone'
      <4>1. PICK from \in [DOMAIN shown -> DOMAIN sent] :
              /\ \A i, j \in DOMAIN shown : i < j => from[i] < from[j]
              /\ \A i \in DOMAIN shown : shown[i] = sent[from[i]] /\ FrameLen * from[i] <= Gone
        BY <1>1 DEF ShownIsGone
      <4> DEFINE n == Len(shown)
                 more == [i \in 1 .. n + 1 |-> IF i = n + 1 THEN f ELSE from[i]]
      <4>2. /\ n \in Nat /\ DOMAIN shown = 1 .. n /\ DOMAIN shown' = 1 .. n + 1
            /\ DOMAIN sent = 1 .. Len(sent)
            /\ \A i \in 1 .. n : shown'[i] = shown[i]
            /\ shown'[n + 1] = sent[f]
        BY <1>1, <3>2 DEF TypeOK
      <4> HIDE DEF n
      <4>3. ASSUME NEW i \in 1 .. n PROVE from[i] \in Nat /\ from[i] < f /\ FrameLen * from[i] <= Gone'
        <5>1. from[i] \in Nat /\ FrameLen * from[i] <= Gone
          <6>1. i \in DOMAIN shown
            BY <4>2, <4>3
          <6>2. from[i] \in 1 .. Len(sent) /\ FrameLen * from[i] <= Gone
            BY <4>1, <4>2, <6>1, Zenon
          <6> QED BY <1>1, <6>2
        <5>2. Gone \in Nat /\ Len(piece) \in Nat
          BY <1>1, <1>4
        <5>3. ASSUME NEW x \in Nat, FrameLen * x <= Gone
              PROVE  x < f /\ FrameLen * x <= Gone + Len(piece)
          <6>1. Gone = FrameLen * (f - 1)
            BY <3>1
          <6>2. x < f
            BY <5>3, <6>1 DEF FrameLen
          <6>3. FrameLen * x <= Gone + Len(piece)
            BY <5>2, <5>3 DEF FrameLen
          <6> QED BY <6>2, <6>3
        <5>4. from[i] < f /\ FrameLen * from[i] <= Gone + Len(piece)
          BY <5>1, <5>3
        <5> QED BY <2>2, <5>1, <5>4
      <4>4. FrameLen * f <= Gone'
        BY <1>1, <1>4, <2>2, <3>1 DEF FrameLen
      <4>5. more \in [DOMAIN shown' -> DOMAIN sent']
        BY <1>2, <4>1, <4>2
      <4>6. \A i, j \in DOMAIN shown' : i < j => more[i] < more[j]
        <5> SUFFICES ASSUME NEW i \in 1 .. n + 1, NEW j \in 1 .. n + 1, i < j PROVE more[i] < more[j]
          BY <4>2
        <5>1. i \in 1 .. n /\ more[i] = from[i]
          BY <4>2
        <5>2. CASE j = n + 1
          BY <4>2, <4>3, <5>1, <5>2
        <5>3. CASE j \in 1 .. n
          <6>1. more[j] = from[j]
            BY <4>2, <5>3
          <6>2. i \in DOMAIN shown /\ j \in DOMAIN shown
            BY <4>2, <5>1, <5>3
          <6>3. from[i] < from[j]
            BY <4>1, <6>2, Zenon
          <6> QED BY <5>1, <6>1, <6>3
        <5> QED BY <4>2, <5>2, <5>3
      <4>7. \A i \in DOMAIN shown' : shown'[i] = sent'[more[i]] /\ FrameLen * more[i] <= Gone'
        <5> SUFFICES ASSUME NEW i \in 1 .. n + 1
                     PROVE  shown'[i] = sent[more[i]] /\ FrameLen * more[i] <= Gone'
          BY <1>2, <4>2
        <5>1. CASE i = n + 1
          BY <4>2, <4>4, <5>1
        <5>2. CASE i \in 1 .. n
          BY <4>1, <4>2, <4>3, <5>2
        <5> QED BY <4>2, <5>1, <5>2
      <4> HIDE DEF more
      <4> QED BY <4>5, <4>6, <4>7 DEF ShownIsGone
    <3>5. RegularOK'
      <4> SUFFICES ASSUME regular, k = FrameLen
                   PROVE  Gone' = FrameLen * pieces' /\ shown' = SubSeq(sent, 1, pieces')
        BY <1>2, <1>8, <2>1 DEF RegularOK
      <4>1. buffer = <<>> /\ Gone = FrameLen * pieces /\ shown = SubSeq(sent, 1, pieces)
        BY <1>1, <1>2 DEF RegularOK
      <4>2. Gone' = FrameLen * pieces' /\ f = pieces + 1
        BY <1>1, <1>2, <1>4, <1>6, <2>2, <3>1, <4>1 DEF FrameLen
      <4>3. SubSeq(sent, 1, pieces + 1) = Append(SubSeq(sent, 1, pieces), sent[pieces + 1])
        BY <1>1, <1>6, <4>2 DEF TypeOK
      <4> QED BY <1>2, <3>2, <4>1, <4>2, <4>3
    <3> QED BY <2>3, <2>4, <3>3, <3>4, <3>5 DEF IInv
  <2>6. CASE ~IsFrame(piece)
    <3>1. shown' = shown
      BY <2>1, <2>6
    <3>2. TypeOK'
      BY <1>1, <1>2, <1>3, <2>1, <3>1 DEF TypeOK
    <3>3. ShownIsGone'
      BY <1>1, <1>2, <1>4, <2>2, <3>1, ShownKept
    <3>4. RegularOK'
      \* A whole frame is one.
      <4> SUFFICES ASSUME regular, k = FrameLen PROVE FALSE
        BY <1>2, <1>8, <2>1 DEF RegularOK
      <4>1. buffer = <<>> /\ Gone = FrameLen * pieces
        BY <1>1, <1>2 DEF RegularOK
      <4>2. Len(piece) = 13 /\ pieces + 1 \in 1 .. Len(sent)
        BY <1>1, <1>4, <1>6, <4>1 DEF FrameLen
      <4>3. ASSUME NEW j \in 1 .. 13 PROVE piece[j] = Frame(sent[pieces + 1])[j]
        <5> DEFINE f == pieces + 1
        <5>1. f \in 1 .. Len(sent) /\ j \in 1 .. FrameLen /\ j \in 1 .. Len(piece)
          BY <4>2 DEF FrameLen
        <5>2. FrameLen * (f - 1) + j - Gone = j
          BY <1>6, <4>1 DEF FrameLen
        <5> HIDE DEF f
        <5>3. piece[j] = Frame(sent[f])[j]
          BY <1>5, <5>1, <5>2, ByteOfFrame
        <5> QED BY <5>3 DEF f
      <4>4. IsFrame(piece)
        <5>1. piece[1] = Start /\ piece[12] = End1 /\ piece[13] = End2
          BY <4>3 DEF Frame
        <5> QED BY <4>2, <5>1 DEF IsFrame, At
      <4> QED BY <2>6, <4>4
    <3> QED BY <2>3, <2>4, <3>2, <3>3, <3>4 DEF IInv
  <2> QED BY <2>5, <2>6
<1> QED BY <1>7, <1>8

LEMMA ConnectIInv == ASSUME IInv, Connect PROVE IInv'
<1>1. /\ TypeOK /\ StreamOK /\ ShownIsGone /\ PiecesOK /\ buffer = <<>>
      /\ Gone \in Nat /\ Len(wire) \in Nat /\ Len(sent) \in Nat /\ Len(buffer) = 0
      /\ Gone + Len(wire) = FrameLen * Len(sent)
  BY Lengths DEF IInv, Connect, StreamOK
<1>2. PICK k \in 0 .. Len(wire) : wire' = SubSeq(wire, k + 1, Len(wire))
  BY DEF Connect
<1>3. /\ connected' = TRUE /\ regular' = (sent = <<>> /\ ~frozen)
      /\ clicks < MaxClicks /\ clicks' = clicks + 1
      /\ UNCHANGED <<buffer, frozen, shown, sent, pieces>>
  BY DEF Connect, Click
<1>4. wire' \in Seq(Byte) /\ Len(wire') = Len(wire) - k
  BY <1>1, <1>2 DEF TypeOK
<1>5. TypeOK'
  <2>1. clicks' \in 0 .. MaxClicks
    BY <1>1, <1>3, ReceiveBoundsAssumption DEF TypeOK
  <2>2. connected' \in BOOLEAN /\ regular' \in BOOLEAN /\ frozen' \in BOOLEAN
    BY <1>1, <1>3 DEF TypeOK
  <2> QED BY <1>1, <1>3, <1>4, <2>1, <2>2 DEF TypeOK
<1>6. Gone' = Gone + k /\ Gone' \in Nat
  BY <1>1, <1>3, <1>4 DEF Gone, FrameLen
<1>7. StreamOK'
  <2>1. ContinuesAt(sent, Gone', <<>>)
    BY DEF ContinuesAt
  <2>2. ContinuesAt(sent, Gone + k, wire')
    <3>1. ContinuesAt(sent, Gone, wire)
      BY <1>1 DEF StreamOK
    <3> QED BY <1>1, <1>2, <3>1, Cut DEF TypeOK
  <2>3. Gone' + Len(buffer') = Gone + k
    BY <1>1, <1>3, <1>6
  <2> QED BY <1>1, <1>3, <1>6, <2>1, <2>2, <2>3 DEF StreamOK
<1>8. ShownIsGone'
  BY <1>1, <1>3, <1>6, ShownKept
<1>9. PiecesOK'
  BY <1>1, <1>3, <1>6 DEF PiecesOK, TypeOK
<1>10. RegularOK'
  \* Before the first frame nothing came and nothing was shown.
  <2> SUFFICES ASSUME sent = <<>>, ~frozen
               PROVE  Gone' = FrameLen * pieces /\ shown = SubSeq(sent, 1, pieces)
    BY <1>1, <1>3 DEF RegularOK
  <2>1. Gone = 0 /\ Gone' = 0 /\ pieces = 0
    BY <1>1, <1>6 DEF FrameLen, PiecesOK, TypeOK
  <2>2. shown = <<>>
    <3>1. DOMAIN sent = {}
      OBVIOUS
    <3>2. DOMAIN shown = {}
      BY <1>1, <3>1 DEF ShownIsGone
    <3> QED BY <1>1, <3>2 DEF TypeOK
  <2> QED BY <2>1, <2>2 DEF FrameLen
<1> QED BY <1>5, <1>7, <1>8, <1>9, <1>10 DEF IInv

LEMMA DisconnectIInv == ASSUME IInv, Disconnect PROVE IInv'
<1>1. /\ TypeOK /\ StreamOK /\ ShownIsGone /\ PiecesOK
      /\ Gone \in Nat /\ Len(wire) \in Nat /\ Len(sent) \in Nat /\ Len(buffer) \in Nat
      /\ Gone + Len(buffer) + Len(wire) = FrameLen * Len(sent)
  BY Lengths DEF IInv
<1>2. /\ connected' = FALSE /\ buffer' = <<>> /\ regular' = FALSE
      /\ clicks < MaxClicks /\ clicks' = clicks + 1
      /\ UNCHANGED <<wire, frozen, shown, sent, pieces>>
  BY DEF Disconnect, Click
<1>3. TypeOK'
  <2>1. clicks' \in 0 .. MaxClicks
    BY <1>1, <1>2, ReceiveBoundsAssumption DEF TypeOK
  <2>2. connected' \in BOOLEAN /\ regular' \in BOOLEAN /\ frozen' \in BOOLEAN
    BY <1>1, <1>2 DEF TypeOK
  <2> QED BY <1>1, <1>2, <2>1, <2>2 DEF TypeOK
<1>4. Gone' = Gone + Len(buffer) /\ Gone' \in Nat /\ Len(buffer') = 0
  <2>1. Len(buffer') = 0 /\ Len(wire') = Len(wire) /\ sent' = sent
    BY <1>2
  <2> QED BY <1>1, <2>1 DEF Gone, FrameLen
<1>5. StreamOK'
  <2>1. ContinuesAt(sent, Gone', <<>>)
    BY DEF ContinuesAt
  <2>2. Gone' + Len(buffer') = Gone + Len(buffer)
    BY <1>1, <1>4
  <2> QED BY <1>1, <1>2, <1>4, <2>1, <2>2 DEF StreamOK
<1>6. ShownIsGone'
  BY <1>1, <1>2, <1>4, ShownKept
<1>7. PiecesOK'
  BY <1>1, <1>2, <1>4 DEF PiecesOK
<1>8. RegularOK'
  BY <1>2 DEF RegularOK
<1> QED BY <1>3, <1>5, <1>6, <1>7, <1>8 DEF IInv

\* Freezing and clearing leave the stream alone.
LEMMA FreezeIInv == ASSUME IInv, Freeze PROVE IInv'
<1>1. TypeOK /\ StreamOK /\ ShownIsGone /\ PiecesOK /\ Gone \in Nat
  BY Lengths DEF IInv
<1>2. /\ frozen' = ~frozen /\ regular' = FALSE
      /\ clicks < MaxClicks /\ clicks' = clicks + 1
      /\ UNCHANGED <<wire, buffer, connected, shown, sent, pieces>>
  BY DEF Freeze, Click
<1>3. TypeOK'
  <2>1. clicks' \in 0 .. MaxClicks
    BY <1>1, <1>2, ReceiveBoundsAssumption DEF TypeOK
  <2>2. connected' \in BOOLEAN /\ regular' \in BOOLEAN /\ frozen' \in BOOLEAN
    BY <1>1, <1>2 DEF TypeOK
  <2> QED BY <1>1, <1>2, <2>1, <2>2 DEF TypeOK
<1>4. Gone' = Gone
  BY <1>2 DEF Gone
<1>5. StreamOK' /\ PiecesOK'
  BY <1>1, <1>2, <1>4 DEF StreamOK, PiecesOK
<1>6. ShownIsGone'
  BY <1>1, <1>2, <1>4, ShownKept
<1>7. RegularOK'
  BY <1>2 DEF RegularOK
<1> QED BY <1>3, <1>5, <1>6, <1>7 DEF IInv

LEMMA ClearTextIInv == ASSUME IInv, ClearText PROVE IInv'
<1>1. TypeOK /\ StreamOK /\ PiecesOK
  BY DEF IInv
<1>2. /\ shown' = <<>> /\ regular' = FALSE
      /\ clicks < MaxClicks /\ clicks' = clicks + 1
      /\ UNCHANGED <<wire, buffer, connected, frozen, sent, pieces>>
  BY DEF ClearText, Click
<1>3. TypeOK'
  <2>1. clicks' \in 0 .. MaxClicks /\ shown' \in Seq(Report)
    BY <1>1, <1>2, ReceiveBoundsAssumption DEF TypeOK
  <2>2. connected' \in BOOLEAN /\ regular' \in BOOLEAN /\ frozen' \in BOOLEAN
    BY <1>1, <1>2 DEF TypeOK
  <2> QED BY <1>1, <1>2, <2>1, <2>2 DEF TypeOK
<1>4. Gone' = Gone
  BY <1>2 DEF Gone
<1>5. StreamOK' /\ PiecesOK'
  BY <1>1, <1>2, <1>4 DEF StreamOK, PiecesOK
<1>6. ShownIsGone'
  <2> DEFINE from == [i \in {} |-> 0]
  <2>1. DOMAIN shown' = {} /\ from \in [{} -> DOMAIN sent']
    BY <1>2
  <2> QED BY <2>1 DEF ShownIsGone
<1>7. RegularOK'
  BY <1>2 DEF RegularOK
<1> QED BY <1>3, <1>5, <1>6, <1>7 DEF IInv

LEMMA NextIInv == IInv /\ [Next]_vars => IInv'
<1> SUFFICES ASSUME IInv, [Next]_vars PROVE IInv'
  OBVIOUS
<1>1. CASE \E m \in Messages : Send(m)
  BY <1>1, SendIInv
<1>2. CASE \E k \in 1 .. Len(wire) : Arrive(k)
  BY <1>2, ArriveIInv
<1>3. CASE Connect
  BY <1>3, ConnectIInv
<1>4. CASE Disconnect
  BY <1>4, DisconnectIInv
<1>5. CASE Freeze
  BY <1>5, FreezeIInv
<1>6. CASE ClearText
  BY <1>6, ClearTextIInv
<1>7. CASE UNCHANGED vars
  BY <1>7 DEF vars, IInv, TypeOK, StreamOK, Gone, ShownIsGone, PiecesOK, RegularOK
<1> QED BY <1>1, <1>2, <1>3, <1>4, <1>5, <1>6, <1>7 DEF Next

THEOREM Invariance == Spec => []IInv
  BY InitIInv, NextIInv, PTL DEF Spec

---------------------------------------------------------------------------
(* The theorems.                                                           *)

\* The types, and the signed range of the numbers read_data makes of two bytes.
THEOREM TypeCorrect == Spec => []TypeOK
<1>1. IInv => TypeOK
  BY DEF IInv
<1> QED BY <1>1, Invariance, PTL

\* Whatever pieces the port delivers and whatever the operator does, every
\* line read_data shows is a message the autopilot sent, in the order it sent
\* them: for every set of messages without the end bytes in their data.
THEOREM ShownLinesWereSent == Spec => []ShownWasSent
<1>1. IInv => ShownWasSent
  BY DEF IInv, ShownIsGone, ShownWasSent
<1> QED BY <1>1, Invariance, PTL

\* With one frame to a piece and the port open from the start, every frame that
\* arrived is shown, and shown once.
THEOREM RegularLinkLosesNone == Spec => []RegularLinkShowsAll
<1>1. IInv => RegularLinkShowsAll
  BY DEF IInv, RegularOK, RegularLinkShowsAll
<1> QED BY <1>1, Invariance, PTL
=============================================================================
