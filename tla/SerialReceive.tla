--------------------------- MODULE SerialReceive ---------------------------
(***************************************************************************)
(* The receiving side of the serial link (dialog.cpp).  The autopilot      *)
(* sends frames of 13 bytes; the port delivers them in pieces of any       *)
(* length, and read_data takes every piece that comes with one readyRead   *)
(* for one frame: it looks for the start byte at the piece's beginning and *)
(* for the two end bytes at their places, shows what is in between, and    *)
(* drops the rest.  Freeze stops listening, so that pieces pile up in the  *)
(* port's buffer and are read as one.                                      *)
(***************************************************************************)
EXTENDS Integers, Sequences, FiniteSetsExt

CONSTANTS
  Messages,    (* what the autopilot reports: [x, y, height, pid]          *)
  MaxFrames,   (* bound on the frames it sends                             *)
  MaxClicks    (* bound on what the operator does                          *)

Start == 85            \* 0x55
End1  == 165           \* 0xA5
End2  == 170           \* 0xAA
FrameLen == 13

MaxByte == 255
MaxWord == 65535
MaxShort == 32767
Byte == 0 .. MaxByte
Word == 0 .. MaxWord
Short == -MaxShort - 1 .. MaxShort
Report == [x : Word, y : Word, height : Byte, pid : Short]

\* The frame, as far as read_data looks at it; the autopilot is not part of
\* the repository.
High(n) == (n % 65536) \div 256
Low(n) == n % 256
Frame(m) ==
  <<Start, 0, 0, 0, High(m.x), Low(m.x), High(m.y), Low(m.y), m.height,
    High(m.pid), Low(m.pid), End1, End2>>

\* No frame holds the two end bytes in a row but at its end.
ASSUME MessagesAssumption ==
  /\ Messages \subseteq Report
  /\ \A m \in Messages, i \in 1 .. FrameLen - 2 : ~(Frame(m)[i] = End1 /\ Frame(m)[i + 1] = End2)
ASSUME ReceiveBoundsAssumption == MaxFrames \in Nat /\ MaxClicks \in Nat

VARIABLES
  wire,        (* bytes sent and not yet delivered                         *)
  buffer,      (* bytes the open port holds                                *)
  connected,   (* the port is open; pBarLoadComConnect says "connected"    *)
  frozen,      (* the button says "Unfreeze"; readyRead is disconnected    *)
  shown,       (* the lines of txtRecievedData with the height of each     *)
  clicks,      (* operator actions so far; bounded by MaxClicks            *)
  sent,        (* history: the messages sent                               *)
  pieces,      (* history: pieces delivered                                *)
  regular      (* history: the port was open and listened to before the    *)
               (*   first frame, and every piece since was one frame       *)

vars == <<wire, buffer, connected, frozen, shown, clicks, sent, pieces, regular>>

Init ==
  /\ wire = <<>> /\ buffer = <<>>
  /\ connected = FALSE
  /\ frozen = FALSE
  /\ shown = <<>>
  /\ clicks = 0
  /\ sent = <<>> /\ pieces = 0 /\ regular = TRUE

---------------------------------------------------------------------------
(* Reading.                                                                *)

\* Past its end QByteArray answers 0.
At(bytes, i) == IF i < Len(bytes) THEN bytes[i + 1] ELSE 0

Unsigned(bytes, i) == At(bytes, i) * 256 + At(bytes, i + 1)
SignedAsUnsigned(bytes, i) == Unsigned(bytes, i)          \* mutant
Signed(bytes, i) ==
  LET n == Unsigned(bytes, i) IN IF n < 32768 THEN n ELSE n - 65536

Decoded(bytes) ==
  [x |-> Unsigned(bytes, 4), y |-> Unsigned(bytes, 6), height |-> At(bytes, 8),
   pid |-> Signed(bytes, 9)]

IsFrameByStart(bytes) == At(bytes, 0) = Start             \* mutant
IsFrame(bytes) ==
  /\ At(bytes, 0) = Start
  /\ At(bytes, 11) = End1 /\ At(bytes, 12) = End2

ReadDataAgain(piece) ==                                   \* mutant
  /\ shown' = IF IsFrame(piece) THEN Append(shown, Decoded(piece)) ELSE shown
  /\ buffer' = piece

\* read_data and allocate: the piece is interpreted once and then gone.
ReadData(piece) ==
  /\ shown' = IF IsFrame(piece) THEN Append(shown, Decoded(piece)) ELSE shown
  /\ buffer' = <<>>

\* The port delivers k bytes and, unless frozen, the slot reads all it holds.
Arrive(k) ==
  /\ connected
  /\ k \in 1 .. Len(wire)
  /\ LET piece == buffer \o SubSeq(wire, 1, k)
     IN  IF frozen THEN buffer' = piece /\ UNCHANGED shown
                   ELSE ReadData(piece)
  /\ wire' = SubSeq(wire, k + 1, Len(wire))
  /\ regular' = (regular /\ k = FrameLen)
  /\ pieces' = pieces + 1
  /\ UNCHANGED <<connected, frozen, clicks, sent>>

---------------------------------------------------------------------------
Send(m) ==
  /\ Len(sent) < MaxFrames
  /\ wire' = wire \o Frame(m)
  /\ sent' = Append(sent, m)
  /\ UNCHANGED <<buffer, connected, frozen, shown, clicks, pieces, regular>>

Click == clicks < MaxClicks /\ clicks' = clicks + 1

\* What arrived while the port was closed is cleared; the rest of a frame
\* that is on its way still comes.
Connect ==
  /\ Click
  /\ ~connected
  /\ connected' = TRUE
  /\ \E k \in 0 .. Len(wire) : wire' = SubSeq(wire, k + 1, Len(wire))
  /\ regular' = (sent = <<>> /\ ~frozen)
  /\ UNCHANGED <<buffer, frozen, shown, sent, pieces>>

Disconnect ==
  /\ Click
  /\ connected
  /\ connected' = FALSE
  /\ buffer' = <<>>
  /\ regular' = FALSE
  /\ UNCHANGED <<wire, frozen, shown, sent, pieces>>

\* Both directions of the Freeze button, which needs an open port.
Freeze ==
  /\ Click
  /\ connected
  /\ frozen' = ~frozen
  /\ regular' = FALSE
  /\ UNCHANGED <<wire, buffer, connected, shown, sent, pieces>>

ClearText ==
  /\ Click
  /\ shown' = <<>>
  /\ regular' = FALSE
  /\ UNCHANGED <<wire, buffer, connected, frozen, sent, pieces>>

Next ==
  \/ \E m \in Messages : Send(m)
  \/ \E k \in 1 .. Len(wire) : Arrive(k)
  \/ Connect \/ Disconnect \/ Freeze \/ ClearText

Spec == Init /\ [][Next]_vars

---------------------------------------------------------------------------
(* Properties.                                                             *)

TypeOK ==
  /\ wire \in Seq(Byte)
  /\ buffer \in Seq(Byte)
  /\ connected \in BOOLEAN /\ frozen \in BOOLEAN /\ regular \in BOOLEAN
  /\ shown \in Seq(Report)
  /\ clicks \in 0 .. MaxClicks
  /\ sent \in Seq(Messages)
  /\ pieces \in Nat

\* Whatever pieces the frames come in, what is shown was sent, in the order it
\* was sent: pieces that are cut or run together lose frames and never make
\* one up, although no checksum is looked at.
ShownWasSent ==
  \E from \in [DOMAIN shown -> DOMAIN sent] :
    /\ \A i, j \in DOMAIN shown : i < j => from[i] < from[j]
    /\ \A i \in DOMAIN shown : shown[i] = sent[from[i]]

\* A link that is open all the time and delivers every frame as one piece
\* loses none and shows what was sent, negative numbers included.
RegularLinkShowsAll ==
  regular /\ connected => shown = SubSeq(sent, 1, pieces)
=============================================================================
