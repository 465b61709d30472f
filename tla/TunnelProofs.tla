---------------------------- MODULE TunnelProofs ----------------------------
(* The RDP-UDP tunnel.  A sequence number is recovered from the low part that *)
(* is sent of it, for every width.  The tasks of a tunnel lose no wake-up,    *)
(* keep their buffers within bounds and their writes in order, for every size *)
(* of the buffers.                                                            *)
(*                                                                            *)
(* None of the last three is inductive by itself.  That a sleeping task is    *)
(* woken when something comes up needs the waker it left (WakersKept).  That  *)
(* read_buf keeps its bound needs what has_room says in the select.  The      *)
(* order of the writes is proved place by place; that the write pump finds    *)
(* something to write when it wants to needs the order itself, since the last *)
(* of a message is a multiple of Pieces.                                      *)
EXTENDS UdpStream, SeqNumbers, TLAPS

(* A sequence cut in two.                                                     *)
LEMMA Cut ==
    ASSUME NEW b \in Seq(Nat), NEW n \in 1 .. Len(b)
    PROVE  /\ SubSeq(b, 1, n) \in Seq(Nat) /\ Len(SubSeq(b, 1, n)) = n
           /\ \A i \in 1 .. n : SubSeq(b, 1, n)[i] = b[i]
           /\ SubSeq(b, n + 1, Len(b)) \in Seq(Nat)
           /\ Len(SubSeq(b, n + 1, Len(b))) = Len(b) - n
           /\ \A i \in 1 .. Len(b) - n : SubSeq(b, n + 1, Len(b))[i] = b[n + i]
<1>1. Len(b) \in Nat /\ n \in Nat /\ n <= Len(b) /\ n >= 1
  OBVIOUS
<1>2. /\ SubSeq(b, 1, n) \in Seq(Nat) /\ Len(SubSeq(b, 1, n)) = n
      /\ \A i \in 1 .. n : SubSeq(b, 1, n)[i] = b[i]
  BY <1>1
<1> DEFINE m == n + 1
           d == SubSeq(b, m, Len(b))
<1>3. m \in Nat /\ m >= 1 /\ m <= Len(b) + 1 /\ Len(b) - m + 1 = Len(b) - n
  BY <1>1
<1> HIDE DEF m
<1>4. d \in Seq(Nat) /\ Len(d) = Len(b) - m + 1
  BY <1>1, <1>3, SMTT(30)
<1>5. \A i \in 1 .. Len(b) - m + 1 : d[i] = b[m + i - 1]
  BY <1>1, <1>3, SMTT(30)
<1>7. ASSUME NEW i \in 1 .. Len(b) - n PROVE d[i] = b[n + i]
  <2>1. i \in 1 .. Len(b) - m + 1 /\ m + i - 1 = n + i
    BY <1>1 DEF m
  <2>2. d[i] = b[m + i - 1]
    BY <1>5, <2>1, Zenon
  <2> QED
    BY <2>1, <2>2, Zenon
<1> QED
  BY <1>2, <1>3, <1>4, <1>7, Zenon DEF m

(* A number is a multiple of Wire and its low part.                           *)
LEMMA LowPart ==
    ASSUME NEW n \in Nat
    PROVE  /\ n \div Wire \in Nat
           /\ n % Wire \in 0 .. Wire - 1
           /\ n = (n \div Wire) * Wire + (n % Wire)
BY WireAssumption

(* Multiples of Wire that differ, differ by at least Wire.                    *)
LEMMA Multiples ==
    ASSUME NEW p \in Nat, NEW q \in Nat
    PROVE  /\ p * Wire \in Nat
           /\ p > q => p * Wire >= q * Wire + Wire
           /\ p > q + 1 => p * Wire >= q * Wire + 2 * Wire
<1>. Wire \in Nat /\ Wire > 0  BY WireAssumption, Zenon
<1>1. p * Wire \in Nat  OBVIOUS
<1>2. ASSUME p > q PROVE p * Wire >= q * Wire + Wire
  <2>1. PICK d \in Nat : p = q + 1 + d  BY <1>2, p - q - 1 \in Nat
  <2>2. p * Wire = q * Wire + Wire + d * Wire  BY <2>1
  <2>3. d * Wire >= 0  OBVIOUS
  <2>. QED  BY <2>2, <2>3
<1>3. ASSUME p > q + 1 PROVE p * Wire >= q * Wire + 2 * Wire
  <2>1. PICK d \in Nat : p = q + 2 + d  BY <1>3, p - q - 2 \in Nat
  <2>2. p * Wire = q * Wire + 2 * Wire + d * Wire  BY <2>1
  <2>3. d * Wire >= 0  OBVIOUS
  <2>. QED  BY <2>2, <2>3
<1>. QED  BY <1>1, <1>2, <1>3, Zenon

(* reconstruct_seq gives back the full number whenever it lies less than half *)
(* the range from the reference the receiver uses, on either side of it and   *)
(* across every wrap of the low part; the windows of RDP-UDP stay within.     *)
THEOREM ReconstructExact ==
    ASSUME NEW full \in Nat, NEW ref \in Nat,
           full - ref < Wire \div 2, ref - full < Wire \div 2
    PROVE  reconstruct_seq(truncate_seq(full), ref) = full
<1>. DEFINE p == full \div Wire  f == full % Wire
            q == ref \div Wire   r == ref % Wire
            half == Wire \div 2
            candidate == (ref - r) + f
<1>1. Wire \in Nat /\ Wire > 0 /\ half \in Nat /\ Wire = 2 * half  BY WireAssumption
<1>2. /\ p \in Nat /\ q \in Nat /\ f \in 0 .. Wire - 1 /\ r \in 0 .. Wire - 1
      /\ full = p * Wire + f /\ ref = q * Wire + r
  BY LowPart, Zenon
<1>3. p * Wire \in Nat /\ q * Wire \in Nat  BY <1>2, Multiples, Zenon
<1>4. candidate = q * Wire + f  BY <1>1, <1>2, <1>3
<1>5. ~(p > q + 1) /\ ~(q > p + 1)
  <2>1. p > q + 1 => p * Wire >= q * Wire + 2 * Wire  BY <1>2, Multiples, Zenon
  <2>2. q > p + 1 => q * Wire >= p * Wire + 2 * Wire  BY <1>2, Multiples, Zenon
  <2>. HIDE DEF p, q, f, r, half
  <2>. QED  BY <1>1, <1>2, <1>3, <2>1, <2>2 DEF half
<1>6. reconstruct_seq(truncate_seq(full), ref) =
        IF candidate > ref
        THEN IF candidate - ref > half /\ candidate >= Wire
             THEN candidate - Wire ELSE candidate
        ELSE IF ref - candidate > half THEN candidate + Wire ELSE candidate
  BY Zenon DEF reconstruct_seq, truncate_seq
<1>7. CASE p = q
  <2>1. candidate = full  BY <1>2, <1>4, <1>7, Zenon
  <2>. QED  BY <1>1, <1>6, <2>1
<1>8. CASE p = q + 1
  <2>1. p * Wire = q * Wire + Wire  BY <1>1, <1>2, <1>8
  <2>2. candidate = full - Wire  BY <1>1, <1>2, <1>3, <1>4, <2>1
  <2>. HIDE DEF candidate
  <2>. QED  BY <1>1, <1>6, <2>2
<1>9. CASE q = p + 1
  <2>1. q * Wire = p * Wire + Wire  BY <1>1, <1>2, <1>9
  <2>2. candidate = full + Wire  BY <1>1, <1>2, <1>3, <1>4, <2>1
  <2>. HIDE DEF candidate
  <2>. QED  BY <1>1, <1>6, <2>2
<1>. QED  BY <1>2, <1>5, <1>7, <1>8, <1>9

(* A channel number is never one whose low part is zero, the number every     *)
(* peer steps over, and the next one lies at most two further on.             *)
THEOREM ChannelSkipsZero ==
    ASSUME NEW c \in Nat, Wire > 2
    PROVE  /\ next_channel_seq(c) \in c + 1 .. c + 2
           /\ truncate_seq(next_channel_seq(c)) # 0
<1>1. Wire \in Nat /\ Wire > 0  BY WireAssumption, Zenon
<1>2. CASE (c + 1) % Wire = 0
  <2>1. (c + 2) % Wire = 1
    <3>. DEFINE q == (c + 1) \div Wire
    <3>0. c + 1 \in Nat /\ c + 2 \in Nat  OBVIOUS
    <3>a. q \in Nat /\ c + 1 = q * Wire + ((c + 1) % Wire)  BY <3>0, LowPart, Zenon
    <3>1. q \in Nat /\ c + 1 = q * Wire
      <4>. HIDE DEF q
      <4>. QED  BY <1>1, <1>2, <3>a
    <3>2. c + 2 = q * Wire + 1  BY <3>1
    <3>. DEFINE p == (c + 2) \div Wire
    <3>3. p \in Nat /\ (c + 2) % Wire \in 0 .. Wire - 1 /\ c + 2 = p * Wire + ((c + 2) % Wire)
      BY <3>0, LowPart, Zenon
    <3>. HIDE DEF p, q
    <3>4. ~(p > q) /\ ~(q > p)  BY <1>1, <3>1, <3>2, <3>3, Multiples
    <3>. QED  BY <1>1, <3>1, <3>2, <3>3, <3>4
  <2>. QED  BY <1>2, <2>1 DEF next_channel_seq, truncate_seq
<1>3. CASE (c + 1) % Wire # 0
  BY <1>3 DEF next_channel_seq, truncate_seq
<1>. QED  BY <1>2, <1>3, Zenon

-----------------------------------------------------------------------------
(* The tasks.                                                                 *)

(* What the argument needs of the types.                                      *)
Sets == readBuf \in Nat /\ held \in Nat /\ wakers \subseteq Wakers /\ awake \subseteq Tasks
        /\ inbox \in Nat /\ acks \in Nat

(* The inductive invariant.                                                   *)
IInv == Sets /\ NoLostWakeup /\ WakersKept

(* A close leaves nobody asleep who left a waker.                             *)
LEMMA CloseWakes ==
    ASSUME IInv, close
    PROVE  /\ \A t \in Tasks : t \in awake => t \in awake'
           /\ dpc \in {"select"} /\ (~hasRoom \/ pending = <<>>) => "driver" \in awake'
           /\ rpc = "read" => "reader" \in awake'
           /\ wpc \in {"write", "flush"} => "writer" \in awake'
BY Zenon DEF IInv, Sets, WakersKept, close, Wake, Woken, Leaves, Wakers, Tasks

(* Waking some wakers puts nobody to sleep, takes only those, and wakes the   *)
(* tasks that left them.                                                      *)
LEMMA WakeWakes ==
    ASSUME Sets, NEW ws \in SUBSET Wakers, Wake(ws)
    PROVE  /\ wakers' \subseteq Wakers /\ awake' \subseteq Tasks
           /\ awake \subseteq awake'
           /\ \A w \in Wakers : w \in wakers /\ w \notin ws => w \in wakers'
           /\ "read" \in ws /\ "read" \in wakers => "reader" \in awake'
           /\ "drained" \in ws /\ "drained" \in wakers => "driver" \in awake'
           /\ "write" \in ws /\ "write" \in wakers => "driver" \in awake'
           /\ "flush" \in ws /\ "flush" \in wakers => "writer" \in awake'
           /\ "room" \in ws /\ "room" \in wakers => "writer" \in awake'
BY Zenon DEF Sets, Wake, Woken, Leaves, Wakers, Tasks

LEMMA InitIInv == Init => IInv
BY DEF Init, IInv, Sets, NoLostWakeup, WakersKept, Tasks, Wakers

LEMMA NextIInv == IInv /\ [Next]_vars => IInv'
<1> SUFFICES ASSUME IInv, [Next]_vars PROVE IInv'
  BY Zenon
<1> USE RoomAssumption DEF IInv, Sets, NoLostWakeup, WakersKept, Tasks,
        DrainedReady, SocketReady, WriteReady, Driver, Writer,
        shared, driver, pumps, world
<1>1. CASE read_buf_has_room
  BY <1>1, Zenon DEF read_buf_has_room
<1>2. CASE ReadBufDrained
  BY <1>2, Zenon DEF ReadBufDrained
<1>3. CASE DataReceived
  <2>0. /\ dpc' = "after" /\ "driver" \in awake /\ inbox' \in Nat /\ held' \in Nat
        /\ UNCHANGED <<writeBuf, error, closed, hasRoom, pending, rpc, wpc, acks>>
    BY <1>3 DEF DataReceived
  <2>1. CASE UNCHANGED <<readBuf, wakers, awake>>
    BY <2>0, <2>1, Zenon
  <2>2. CASE (\E n \in 1 .. held + 1 : readBuf' = readBuf + n /\ held' = held + 1 - n)
             /\ Wake({"read"})
    <3>1. PICK n \in 1 .. held + 1 : readBuf' = readBuf + n
      BY <2>2, Zenon
    <3>2. readBuf' \in Nat
      BY <3>1
    <3>3. rpc = "read" => "reader" \in awake'
      BY <2>2, WakeWakes, {"read"} \in SUBSET Wakers, Zenon DEF Wakers
    <3> QED
      BY <2>0, <2>2, <3>2, <3>3, WakeWakes, {"read"} \in SUBSET Wakers, Zenon DEF Wakers
  <2> QED
    BY <1>3, <2>1, <2>2, Zenon DEF DataReceived
<1>4. CASE AckReceived
  BY <1>4 DEF AckReceived
<1>5. CASE WriteDataReady
  <2>1. CASE writeBuf = <<>>
    <3>1. /\ close /\ dpc' = "release" /\ writeBuf' = <<>> /\ "driver" \in awake
          /\ UNCHANGED <<readBuf, error, hasRoom, inbox, held, acks, rpc, wpc>>
      BY <1>5, <2>1, Zenon DEF WriteDataReady
    <3>2. closed' = TRUE /\ wakers' \subseteq Wakers /\ awake' \subseteq Tasks /\ awake \subseteq awake'
      BY <3>1, WakeWakes, Wakers \in SUBSET Wakers, Zenon DEF close
    <3> QED
      BY <3>1, <3>2, CloseWakes, Zenon
  <2>2. CASE writeBuf # <<>>
    <3>1. /\ Wake({"flush", "room"}) /\ dpc' = "after" /\ writeBuf' = <<>> /\ "driver" \in awake
          /\ UNCHANGED <<readBuf, error, closed, hasRoom, inbox, held, acks, rpc, wpc>>
      BY <1>5, <2>2, Zenon DEF WriteDataReady
    <3>2. wpc \in {"write", "flush"} => "writer" \in awake'
      BY <3>1, WakeWakes, {"flush", "room"} \in SUBSET Wakers, Zenon DEF Wakers
    <3> QED
      BY <3>1, <3>2, WakeWakes, {"flush", "room"} \in SUBSET Wakers, Zenon DEF Wakers
  <2> QED BY <2>1, <2>2, Zenon
<1>6. CASE Idle
  BY <1>6, Zenon DEF Idle, Woken, Leaves, Wakers
<1>7. CASE Pending
  BY <1>7, Zenon DEF Pending, Park, Wakers
<1>8. CASE flush_pending_write
  BY <1>8, Zenon DEF flush_pending_write
<1>9. CASE is_closed
  BY <1>9, CloseWakes, WakeWakes, Wakers \in SUBSET Wakers, Zenon DEF is_closed, close
<1>10. CASE release_stream
  BY <1>10, CloseWakes, WakeWakes, Wakers \in SUBSET Wakers, Zenon DEF release_stream, close
<1>11. CASE SocketFails
  BY <1>11, Zenon DEF SocketFails
<1>12. CASE poll_read
  <2>1. CASE Wake({"drained"}) /\ \E n \in 1 .. readBuf : readBuf' = readBuf - n
    <3>1. /\ "reader" \in awake
          /\ UNCHANGED <<writeBuf, error, closed, dpc, hasRoom, pending, wpc, inbox, held, acks>>
      BY <1>12, Zenon DEF poll_read
    <3>2. PICK n \in 1 .. readBuf : readBuf' = readBuf - n
      BY <2>1, Zenon
    <3>3. readBuf' \in Nat
      BY <3>2
    <3>4. dpc = "select" /\ ~hasRoom => "driver" \in awake'
      BY <2>1, WakeWakes, {"drained"} \in SUBSET Wakers, Zenon DEF Wakers
    <3>5. /\ wakers' \subseteq Wakers /\ awake' \subseteq Tasks /\ awake \subseteq awake'
          /\ \A w \in Wakers : w \in wakers /\ w # "drained" => w \in wakers'
      BY <2>1, WakeWakes, {"drained"} \in SUBSET Wakers, Zenon DEF Wakers
    <3> QED
      BY <3>1, <3>3, <3>4, <3>5, Zenon DEF Wakers
  <2>2. CASE UNCHANGED <<wakers, awake, readBuf>>
    BY <1>12, <2>2, Zenon DEF poll_read
  <2>3. CASE Park("reader", {"read"}) /\ UNCHANGED readBuf /\ readBuf = 0 /\ ~error /\ ~closed
    BY <1>12, <2>3, Zenon DEF poll_read, Park, Wakers
  <2> QED BY <1>12, <2>1, <2>2, <2>3, Zenon DEF poll_read
<1>13. CASE write_pump
  BY <1>13, Zenon DEF write_pump
<1>14. CASE poll_write
  BY <1>14, WakeWakes, {"write"} \in SUBSET Wakers, Zenon DEF poll_write, Park, Wakers
<1>15. CASE poll_flush
  BY <1>15, Zenon DEF poll_flush, Park, Wakers
<1>16. CASE send
  BY <1>16, Zenon DEF send
<1>17. CASE shutdown
  <2>1. close /\ UNCHANGED <<readBuf, writeBuf, error, driver, rpc, wpc, world>>
    BY <1>17, Zenon DEF shutdown, Shutdown
  <2>2. closed' = TRUE /\ wakers' \subseteq Wakers /\ awake' \subseteq Tasks /\ awake \subseteq awake'
    BY <2>1, WakeWakes, Wakers \in SUBSET Wakers, Zenon DEF close
  <2> QED
    BY <2>1, <2>2, CloseWakes, Zenon
<1>18. CASE AwaitReader
  BY <1>18, Zenon DEF AwaitReader, Shutdown
<1>19. CASE AwaitWriter
  BY <1>19, Zenon DEF AwaitWriter, Shutdown
<1>20. CASE AbortDriver
  <2>1. CASE dpc = "done"
    BY <1>20, <2>1, Zenon DEF AbortDriver, Abort, Shutdown
  <2>2. CASE dpc # "done"
    BY <1>20, <2>2, CloseWakes, WakeWakes, Wakers \in SUBSET Wakers, Zenon DEF AbortDriver, Abort, Shutdown, close
  <2> QED BY <2>1, <2>2, Zenon
<1>21. CASE PeerSends
  BY <1>21 DEF PeerSends, Arrive
<1>22. CASE PeerAcks
  BY <1>22 DEF PeerAcks, Arrive
<1>23. CASE PeerLost
  BY <1>23, Zenon DEF PeerLost
<1>24. CASE UNCHANGED vars
  BY <1>24, Zenon DEF vars
<1> QED
  BY <1>1, <1>2, <1>3, <1>4, <1>5, <1>6, <1>7, <1>8, <1>9, <1>10, <1>11, <1>12, <1>13,
     <1>14, <1>15, <1>16, <1>17, <1>18, <1>19, <1>20, <1>21, <1>22, <1>23, <1>24, Zenon
  DEF Next, Run, Shut, IdleSilent, IdleThrottled

(* No task of the tunnel ever sleeps through something it waits for: the      *)
(* driver in its select, the read pump in poll_read and the write pump in     *)
(* poll_write or poll_flush, for every size of the buffers.                   *)
THEOREM WakeupsKept == Spec => []NoLostWakeup
<1>1. IInv => NoLostWakeup
  BY Zenon DEF IInv
<1> QED
  BY <1>1, InitIInv, NextIInv, PTL DEF Spec

(* A sleeping task is always due again through a waker it left.               *)
THEOREM WakersStay == Spec => []WakersKept
<1>1. IInv => WakersKept
  BY Zenon DEF IInv
<1> QED
  BY <1>1, InitIInv, NextIInv, PTL DEF Spec

-----------------------------------------------------------------------------
(* Types, bounds and order.                                                   *)

(* What the driver knows of read_buf in its select.                           *)
RoomSeen == dpc = "select" /\ hasRoom => readBuf < ReadMark

(* The writes in the place of each buffer.                                    *)
Placed ==
    /\ \A i \in 1 .. Len(handed) : handed[i] = i
    /\ \A i \in 1 .. Len(pending) : pending[i] = Len(handed) + i
    /\ \A i \in 1 .. Len(writeBuf) : writeBuf[i] = Len(handed) + Len(pending) + i
    /\ \A i \in 1 .. Len(queue) :
          queue[i] = Len(handed) + Len(pending) + Len(writeBuf) + i
    /\ Len(handed) + Len(pending) + Len(writeBuf) + Len(queue) = next * Pieces

(* The write pump wants to write only what is there.                          *)
Fed == wpc = "write" => queue # <<>>

OInv == TypeOK /\ RoomSeen /\ Placed /\ Fed

(* TypeOK by groups of variables.                                             *)
SleepType == wakers \subseteq Wakers /\ awake \subseteq Tasks

FlagType ==
    /\ error \in BOOLEAN /\ closed \in BOOLEAN /\ hasRoom \in BOOLEAN /\ peer \in BOOLEAN
    /\ dpc \in {"loop", "select", "after", "release", "fail", "done"}
    /\ conn \in {"open", "closed"}
    /\ rpc \in {"read", "done"} /\ wpc \in {"recv", "write", "flush", "done", "failed"}
    /\ spc \in {"no", "reader", "writer", "driver", "done"}

CountType ==
    /\ readBuf \in Nat /\ readBuf <= ReadMark + RecvWindow
    /\ held \in Nat /\ held <= RecvWindow
    /\ inbox \in Nat /\ inbox <= sentIn /\ sentIn \in Nat /\ sentIn <= MaxIn
    /\ next \in Nat /\ next <= MaxOut
    /\ RoomSeen

BufferType ==
    /\ writeBuf \in Seq(Nat) /\ Len(writeBuf) <= WriteMark - 1 + MaxWrite
    /\ pending \in Seq(Nat) /\ handed \in Seq(Nat) /\ queue \in Seq(Nat)
    /\ backlog \in Nat /\ backlog <= SendRoom /\ acks \in Nat /\ acks <= backlog

LEMMA Marks ==
    /\ ReadMark \in Nat /\ ReadMark > 0 /\ WriteMark \in Nat /\ WriteMark > 0
    /\ RecvWindow \in Nat /\ MaxWrite \in Nat /\ MaxWrite > 0 /\ MaxSocket \in Nat
    /\ Pieces \in Nat /\ Pieces > 0 /\ MaxIn \in Nat /\ MaxOut \in Nat
    /\ SendRoom \in Nat
BY RoomAssumption

LEMMA Groups ==
    TypeOK /\ RoomSeen <=> SleepType /\ FlagType /\ CountType /\ BufferType
<1>1. TypeOK /\ RoomSeen => SleepType /\ FlagType
  BY Zenon DEF TypeOK, SleepType, FlagType
<1>2. TypeOK /\ RoomSeen => CountType /\ BufferType
  BY Marks DEF TypeOK, CountType, BufferType
<1>3. SleepType /\ FlagType /\ CountType /\ BufferType => RoomSeen
  BY Zenon DEF CountType
<1>4. ASSUME SleepType, FlagType, CountType, BufferType PROVE TypeOK
  <2>2. {error, closed, hasRoom, peer} \subseteq BOOLEAN
    BY <1>4, Zenon DEF FlagType
  <2>3. inbox \in 0 .. sentIn
    BY <1>4 DEF CountType
  <2> QED
    BY <1>4, <2>2, <2>3, Marks DEF TypeOK, SleepType, FlagType, CountType, BufferType
<1> QED
  BY <1>1, <1>2, <1>3, <1>4, Zenon

LEMMA SleepStep == SleepType /\ [Next]_vars => SleepType'
<1> SUFFICES ASSUME SleepType, [Next]_vars PROVE SleepType'
  BY Zenon
<1> USE DEF SleepType, Tasks, Wakers, shared, driver, pumps, world
<1>1. CASE read_buf_has_room
  BY <1>1, Zenon DEF read_buf_has_room
<1>2. CASE ReadBufDrained
  BY <1>2, Zenon DEF ReadBufDrained
<1>3. CASE DataReceived
  BY <1>3, Zenon DEF DataReceived, Wake, Woken
<1>4. CASE AckReceived
  BY <1>4, Zenon DEF AckReceived
<1>5. CASE WriteDataReady
  BY <1>5, Zenon DEF WriteDataReady, close, Wake, Woken
<1>6. CASE Idle
  BY <1>6, Zenon DEF Idle, Woken
<1>7. CASE Pending
  BY <1>7, Zenon DEF Pending, Park
<1>8. CASE flush_pending_write
  BY <1>8, Zenon DEF flush_pending_write
<1>9. CASE is_closed
  BY <1>9, Zenon DEF is_closed, close, Wake, Woken
<1>10. CASE SocketFails
  BY <1>10, Zenon DEF SocketFails
<1>11. CASE release_stream
  BY <1>11, Zenon DEF release_stream, close, Wake, Woken
<1>12. CASE poll_read
  BY <1>12, Zenon DEF poll_read, Wake, Woken, Park
<1>13. CASE write_pump
  BY <1>13, Zenon DEF write_pump
<1>14. CASE poll_write
  BY <1>14, Zenon DEF poll_write, Wake, Woken, Park
<1>15. CASE poll_flush
  BY <1>15, Zenon DEF poll_flush, Park
<1>16. CASE send
  BY <1>16, Zenon DEF send
<1>17. CASE shutdown
  BY <1>17, Zenon DEF shutdown, Shutdown, close, Wake, Woken
<1>18. CASE AwaitReader
  BY <1>18, Zenon DEF AwaitReader, Shutdown
<1>19. CASE AwaitWriter
  BY <1>19, Zenon DEF AwaitWriter, Shutdown
<1>20. CASE AbortDriver
  BY <1>20, Zenon DEF AbortDriver, Abort, Shutdown, close, Wake, Woken
<1>21. CASE PeerSends
  BY <1>21, Zenon DEF PeerSends, Arrive
<1>22. CASE PeerAcks
  BY <1>22, Zenon DEF PeerAcks, Arrive
<1>23. CASE PeerLost
  BY <1>23, Zenon DEF PeerLost
<1>24. CASE UNCHANGED vars
  BY <1>24, Zenon DEF vars
<1> QED
  BY <1>1, <1>2, <1>3, <1>4, <1>5, <1>6, <1>7, <1>8, <1>9, <1>10, <1>11, <1>12, <1>13,
     <1>14, <1>15, <1>16, <1>17, <1>18, <1>19, <1>20, <1>21, <1>22, <1>23, <1>24, Zenon
  DEF Next, Run, Shut, IdleSilent, IdleThrottled

LEMMA FlagStep == FlagType /\ [Next]_vars => FlagType'
<1> SUFFICES ASSUME FlagType, [Next]_vars PROVE FlagType'
  BY Zenon
<1> USE DEF FlagType, shared, driver, pumps, world
<1>1. CASE read_buf_has_room
  BY <1>1 DEF read_buf_has_room
<1>2. CASE ReadBufDrained
  BY <1>2, Zenon DEF ReadBufDrained
<1>3. CASE DataReceived
  BY <1>3, Zenon DEF DataReceived
<1>4. CASE AckReceived
  BY <1>4, Zenon DEF AckReceived
<1>5. CASE WriteDataReady
  BY <1>5, Zenon DEF WriteDataReady, close
<1>6. CASE Idle
  BY <1>6, Zenon DEF Idle
<1>7. CASE Pending
  BY <1>7 DEF Pending
<1>8. CASE flush_pending_write
  BY <1>8, Zenon DEF flush_pending_write
<1>9. CASE is_closed
  BY <1>9, Zenon DEF is_closed, close
<1>10. CASE SocketFails
  BY <1>10, Zenon DEF SocketFails
<1>11. CASE release_stream
  BY <1>11, Zenon DEF release_stream, close
<1>12. CASE poll_read
  BY <1>12 DEF poll_read
<1>13. CASE write_pump
  BY <1>13 DEF write_pump
<1>14. CASE poll_write
  BY <1>14 DEF poll_write
<1>15. CASE poll_flush
  BY <1>15 DEF poll_flush
<1>16. CASE send
  BY <1>16 DEF send
<1>17. CASE shutdown
  BY <1>17, Zenon DEF shutdown, Shutdown, close
<1>18. CASE AwaitReader
  BY <1>18, Zenon DEF AwaitReader, Shutdown
<1>19. CASE AwaitWriter
  BY <1>19 DEF AwaitWriter, Shutdown
<1>20. CASE AbortDriver
  BY <1>20, Zenon DEF AbortDriver, Abort, Shutdown, close
<1>21. CASE PeerSends
  BY <1>21 DEF PeerSends
<1>22. CASE PeerAcks
  BY <1>22 DEF PeerAcks
<1>23. CASE PeerLost
  <2>1. peer' \in BOOLEAN /\ UNCHANGED <<error, closed, hasRoom, dpc, conn, rpc, wpc, spc>>
    BY <1>23, Zenon DEF PeerLost
  <2>2. error' \in BOOLEAN /\ closed' \in BOOLEAN /\ hasRoom' \in BOOLEAN
    BY <2>1, Zenon
  <2>3. /\ dpc' \in {"loop", "select", "after", "release", "fail", "done"}
        /\ conn' \in {"open", "closed"}
        /\ rpc' \in {"read", "done"} /\ wpc' \in {"recv", "write", "flush", "done", "failed"}
        /\ spc' \in {"no", "reader", "writer", "driver", "done"}
    BY <2>1, Zenon
  <2> QED
    BY <2>1, <2>2, <2>3, Zenon
<1>24. CASE UNCHANGED vars
  BY <1>24 DEF vars
<1> QED
  BY <1>1, <1>2, <1>3, <1>4, <1>5, <1>6, <1>7, <1>8, <1>9, <1>10, <1>11, <1>12, <1>13,
     <1>14, <1>15, <1>16, <1>17, <1>18, <1>19, <1>20, <1>21, <1>22, <1>23, <1>24, Zenon
  DEF Next, Run, Shut, IdleSilent, IdleThrottled

LEMMA CountStep == FlagType /\ CountType /\ [Next]_vars => CountType'
<1> SUFFICES ASSUME FlagType, CountType, [Next]_vars PROVE CountType'
  BY Zenon
<1> USE Marks DEF FlagType, CountType, RoomSeen, Driver, shared, driver, pumps, world
<1>1. CASE read_buf_has_room
  BY <1>1, Zenon DEF read_buf_has_room
<1>2. CASE ReadBufDrained
  BY <1>2, Zenon DEF ReadBufDrained
<1>3. CASE DataReceived
  BY <1>3 DEF DataReceived
<1>4. CASE AckReceived
  BY <1>4, Zenon DEF AckReceived
<1>5. CASE WriteDataReady
  BY <1>5, Zenon DEF WriteDataReady
<1>6. CASE Idle
  BY <1>6, Zenon DEF Idle
<1>7. CASE Pending
  BY <1>7, Zenon DEF Pending
<1>8. CASE flush_pending_write
  BY <1>8, Zenon DEF flush_pending_write
<1>9. CASE is_closed
  BY <1>9, Zenon DEF is_closed
<1>10. CASE SocketFails
  BY <1>10, Zenon DEF SocketFails
<1>11. CASE release_stream
  BY <1>11, Zenon DEF release_stream
<1>12. CASE poll_read
  BY <1>12 DEF poll_read
<1>13. CASE write_pump
  BY <1>13, Zenon DEF write_pump
<1>14. CASE poll_write
  BY <1>14, Zenon DEF poll_write
<1>15. CASE poll_flush
  BY <1>15, Zenon DEF poll_flush
<1>16. CASE send
  BY <1>16 DEF send
<1>17. CASE shutdown
  BY <1>17, Zenon DEF shutdown, Shutdown
<1>18. CASE AwaitReader
  BY <1>18, Zenon DEF AwaitReader, Shutdown
<1>19. CASE AwaitWriter
  BY <1>19, Zenon DEF AwaitWriter, Shutdown
<1>20. CASE AbortDriver
  BY <1>20, Zenon DEF AbortDriver, Abort, Shutdown
<1>21. CASE PeerSends
  BY <1>21 DEF PeerSends
<1>22. CASE PeerAcks
  BY <1>22, Zenon DEF PeerAcks
<1>23. CASE PeerLost
  BY <1>23, Zenon DEF PeerLost
<1>24. CASE UNCHANGED vars
  BY <1>24, Zenon DEF vars
<1> QED
  BY <1>1, <1>2, <1>3, <1>4, <1>5, <1>6, <1>7, <1>8, <1>9, <1>10, <1>11, <1>12, <1>13,
     <1>14, <1>15, <1>16, <1>17, <1>18, <1>19, <1>20, <1>21, <1>22, <1>23, <1>24, Zenon
  DEF Next, Run, Shut, IdleSilent, IdleThrottled

(* A message's writes are a sequence, and the message count goes on.          *)
LEMMA MessageIsSeq ==
    ASSUME NEW n \in Nat
    PROVE  LET m == [i \in 1 .. Pieces |-> n * Pieces + i]
           IN  /\ n * Pieces \in Nat /\ (n + 1) * Pieces = n * Pieces + Pieces
               /\ m \in Seq(Nat) /\ Len(m) = Pieces
               /\ \A i \in 1 .. Pieces : m[i] = n * Pieces + i
<1>1. n * Pieces \in Nat /\ (n + 1) * Pieces = n * Pieces + Pieces
  BY Marks, SMT
<1> DEFINE m == [i \in 1 .. Pieces |-> n * Pieces + i]
<1>2. m \in [1 .. Pieces -> Nat]
  BY <1>1, Marks
<1>3. m \in Seq(Nat) /\ Len(m) = Pieces
  BY <1>2, Marks
<1> QED
  BY <1>1, <1>3, Zenon

(* What queue_write does with the writes it is given.                         *)
LEMMA QueueWrite ==
    ASSUME BufferType, NEW data \in Seq(Nat), queue_write(data), UNCHANGED acks
    PROVE  /\ pending' \in Seq(Nat) /\ handed' \in Seq(Nat)
           /\ backlog' \in Nat /\ backlog' <= SendRoom /\ acks' <= backlog'
<1>1. Len(data) \in Nat
  OBVIOUS
<1>2. CASE backlog + Len(data) <= SendRoom
  <2>1. handed' = handed \o data /\ backlog' = backlog + Len(data) /\ pending' = <<>>
    BY <1>2, Zenon DEF queue_write
  <2>2. handed \o data \in Seq(Nat)
    BY DEF BufferType
  <2> QED
    BY <1>1, <1>2, <2>1, <2>2 DEF BufferType
<1>3. CASE ~(backlog + Len(data) <= SendRoom)
  BY <1>3, Zenon DEF BufferType, queue_write
<1> QED
  BY <1>2, <1>3, Zenon

(* A write of n.                                                              *)
Moves(n) ==
    /\ n <= MaxWrite
    /\ writeBuf' = writeBuf \o SubSeq(queue, 1, n)
    /\ queue' = SubSeq(queue, n + 1, Len(queue))

LEMMA BufferFrame ==
    ASSUME BufferType, UNCHANGED <<writeBuf, pending, handed, queue, backlog, acks>>
    PROVE  BufferType'
BY Zenon DEF BufferType

LEMMA BufferStep == CountType /\ BufferType /\ Fed /\ [Next]_vars => BufferType'
<1> SUFFICES ASSUME CountType, BufferType, Fed, [Next]_vars PROVE BufferType'
  BY Zenon
<1> USE DEF shared, driver, pumps, world
<1>1. CASE read_buf_has_room
  BY <1>1, BufferFrame, Zenon DEF read_buf_has_room
<1>2. CASE ReadBufDrained
  BY <1>2, BufferFrame, Zenon DEF ReadBufDrained
<1>3. CASE DataReceived
  BY <1>3, BufferFrame, Zenon DEF DataReceived
<1>4. CASE AckReceived
  BY <1>4, Marks DEF AckReceived, BufferType
<1>5. CASE WriteDataReady
  <2>1. CASE writeBuf = <<>>
    BY <1>5, <2>1, BufferFrame, Zenon DEF WriteDataReady
  <2>2. CASE writeBuf # <<>>
    <3>1. queue_write(writeBuf) /\ writeBuf' = <<>> /\ UNCHANGED <<queue, acks>>
      BY <1>5, <2>2, Zenon DEF WriteDataReady
    <3> QED
      BY <3>1, QueueWrite, Marks DEF BufferType
  <2> QED BY <2>1, <2>2, Zenon
<1>6. CASE Idle
  BY <1>6, BufferFrame, Zenon DEF Idle
<1>7. CASE Pending
  BY <1>7, BufferFrame, Zenon DEF Pending
<1>8. CASE flush_pending_write
  <2>1. CASE pending = <<>>
    BY <1>8, <2>1, BufferFrame, Zenon DEF flush_pending_write
  <2>2. CASE pending # <<>>
    <3>1. queue_write(pending) /\ UNCHANGED <<writeBuf, queue, acks>>
      BY <1>8, <2>2, Zenon DEF flush_pending_write
    <3> QED
      BY <3>1, QueueWrite, Zenon DEF BufferType
  <2> QED BY <2>1, <2>2, Zenon
<1>9. CASE is_closed
  BY <1>9, BufferFrame, Zenon DEF is_closed
<1>10. CASE SocketFails
  BY <1>10, BufferFrame, Zenon DEF SocketFails
<1>11. CASE release_stream
  BY <1>11, BufferFrame, Zenon DEF release_stream
<1>12. CASE poll_read
  BY <1>12, BufferFrame, Zenon DEF poll_read
<1>13. CASE write_pump
  BY <1>13, BufferFrame, Zenon DEF write_pump
<1>14. CASE poll_write
  <2>1. CASE UNCHANGED <<writeBuf, queue>>
    BY <1>14, <2>1, BufferFrame, Zenon DEF poll_write
  <2>2. CASE Len(writeBuf) < WriteMark /\ \E n \in 1 .. Len(queue) : Moves(n)
    <3>1. PICK n \in 1 .. Len(queue) : Moves(n)
      BY <2>2, Zenon
    <3>2. UNCHANGED <<pending, handed, backlog, acks>>
      BY <1>14, Zenon DEF poll_write
    <3>3. /\ writeBuf' \in Seq(Nat) /\ queue' \in Seq(Nat)
          /\ Len(writeBuf') = Len(writeBuf) + n /\ n <= MaxWrite
      <4>1. /\ SubSeq(queue, 1, n) \in Seq(Nat) /\ Len(SubSeq(queue, 1, n)) = n
            /\ SubSeq(queue, n + 1, Len(queue)) \in Seq(Nat)
        BY Cut, Zenon DEF BufferType
      <4> QED
        BY <3>1, <4>1, SMTT(30) DEF BufferType, Moves
    <3>4. Len(writeBuf') <= WriteMark - 1 + MaxWrite
      BY <2>2, <3>3, Marks DEF BufferType
    <3> QED
      BY <3>2, <3>3, <3>4, Zenon DEF BufferType
  <2> QED BY <1>14, <2>1, <2>2, Zenon DEF poll_write, Moves
<1>15. CASE poll_flush
  BY <1>15, BufferFrame, Zenon DEF poll_flush
<1>16. CASE send
  <2>1. /\ queue' = queue \o [i \in 1 .. Pieces |-> next * Pieces + i]
        /\ UNCHANGED <<writeBuf, pending, handed, backlog, acks>>
    BY <1>16, Zenon DEF send
  <2>2. [i \in 1 .. Pieces |-> next * Pieces + i] \in Seq(Nat)
    BY MessageIsSeq, Zenon DEF CountType
  <2> QED
    BY <2>1, <2>2 DEF BufferType
<1>17. CASE shutdown
  BY <1>17, BufferFrame, Zenon DEF shutdown, Shutdown
<1>18. CASE AwaitReader
  BY <1>18, BufferFrame, Zenon DEF AwaitReader, Shutdown
<1>19. CASE AwaitWriter
  BY <1>19, BufferFrame, Zenon DEF AwaitWriter, Shutdown
<1>20. CASE AbortDriver
  BY <1>20, BufferFrame, Zenon DEF AbortDriver, Abort, Shutdown
<1>21. CASE PeerSends
  BY <1>21, BufferFrame, Zenon DEF PeerSends
<1>22. CASE PeerAcks
  BY <1>22, Marks DEF PeerAcks, BufferType
<1>23. CASE PeerLost
  BY <1>23, BufferFrame, Zenon DEF PeerLost
<1>24. CASE UNCHANGED vars
  BY <1>24, BufferFrame, Zenon DEF vars
<1> QED
  BY <1>1, <1>2, <1>3, <1>4, <1>5, <1>6, <1>7, <1>8, <1>9, <1>10, <1>11, <1>12, <1>13,
     <1>14, <1>15, <1>16, <1>17, <1>18, <1>19, <1>20, <1>21, <1>22, <1>23, <1>24, Zenon
  DEF Next, Run, Shut, IdleSilent, IdleThrottled

(* A run of writes that go on from k, continued.                              *)
LEMMA RunsJoin ==
    ASSUME NEW a \in Seq(Nat), NEW b \in Seq(Nat), NEW k \in Nat,
           \A i \in 1 .. Len(a) : a[i] = k + i,
           \A i \in 1 .. Len(b) : b[i] = k + Len(a) + i
    PROVE  /\ a \o b \in Seq(Nat) /\ Len(a \o b) = Len(a) + Len(b)
           /\ \A i \in 1 .. Len(a \o b) : (a \o b)[i] = k + i
<1>1. a \o b \in Seq(Nat) /\ Len(a \o b) = Len(a) + Len(b)
  OBVIOUS
<1>2. ASSUME NEW i \in 1 .. Len(a \o b) PROVE (a \o b)[i] = k + i
  <2>1. CASE i <= Len(a)
    BY <1>1, <2>1
  <2>2. CASE i > Len(a)
    <3>1. (a \o b)[i] = b[i - Len(a)]
      BY <1>1, <2>2
    <3>2. i - Len(a) \in 1 .. Len(b)
      BY <1>1, <2>2
    <3> QED
      BY <3>1, <3>2
  <2> QED BY <2>1, <2>2
<1> QED
  BY <1>1, <1>2, Zenon

LEMMA FirstRunsJoin ==
    ASSUME NEW a \in Seq(Nat), NEW b \in Seq(Nat),
           \A i \in 1 .. Len(a) : a[i] = i,
           \A i \in 1 .. Len(b) : b[i] = Len(a) + i
    PROVE  /\ a \o b \in Seq(Nat) /\ Len(a \o b) = Len(a) + Len(b)
           /\ \A i \in 1 .. Len(a \o b) : (a \o b)[i] = i
<1>1. Len(a) \in Nat
  OBVIOUS
<1>2. \A i \in 1 .. Len(a) : a[i] = 0 + i
  OBVIOUS
<1>3. \A i \in 1 .. Len(b) : b[i] = 0 + Len(a) + i
  BY <1>1
<1>4. /\ a \o b \in Seq(Nat) /\ Len(a \o b) = Len(a) + Len(b)
      /\ \A i \in 1 .. Len(a \o b) : (a \o b)[i] = 0 + i
  BY <1>2, <1>3, RunsJoin, 0 \in Nat, Zenon
<1> QED
  BY <1>4

(* The data in s goes on from k.                                              *)
Follows(s, k) == \A i \in 1 .. Len(s) : s[i] = k + i

(* A run of data that loses its first n to the end of the run before it.      *)
LEMMA RunMoves ==
    ASSUME NEW a \in Seq(Nat), NEW b \in Seq(Nat), NEW k \in Nat, NEW n \in 1 .. Len(b),
           Follows(a, k), Follows(b, k + Len(a))
    PROVE  LET c == a \o SubSeq(b, 1, n)
               d == SubSeq(b, n + 1, Len(b))
           IN  /\ Len(c) = Len(a) + n /\ Len(d) = Len(b) - n
               /\ Follows(c, k) /\ Follows(d, k + Len(a) + n)
<1> USE DEF Follows
<1> DEFINE e == SubSeq(b, 1, n)
           c == a \o e
           d == SubSeq(b, n + 1, Len(b))
<1>1. Len(a) \in Nat /\ Len(b) \in Nat /\ n \in Nat /\ n <= Len(b) /\ n >= 1
  OBVIOUS
<1>2. e \in Seq(Nat) /\ Len(e) = n /\ \A i \in 1 .. n : e[i] = b[i]
  BY Cut, Zenon
<1>3. \A i \in 1 .. Len(e) : e[i] = k + Len(a) + i
  BY <1>1, <1>2
<1>4. d \in Seq(Nat) /\ Len(d) = Len(b) - n /\ \A i \in 1 .. Len(b) - n : d[i] = b[n + i]
  BY Cut, Zenon
<1>5. ASSUME NEW i \in 1 .. Len(b) - n PROVE d[i] = k + Len(a) + n + i
  <2>1. n + i \in 1 .. Len(b) /\ k + Len(a) + (n + i) = k + Len(a) + n + i
    BY <1>1
  <2> QED
    BY <1>4, <2>1, Zenon
<1> HIDE DEF e, d
<1>6. /\ c \in Seq(Nat) /\ Len(c) = Len(a) + Len(e)
      /\ \A i \in 1 .. Len(c) : c[i] = k + i
  BY <1>2, <1>3, RunsJoin, Zenon
<1> QED
  BY <1>2, <1>4, <1>5, <1>6, Zenon DEF e, d

LEMMA PlacedFrame ==
    ASSUME Placed, UNCHANGED <<handed, pending, writeBuf, queue, next>>
    PROVE  Placed'
BY Zenon DEF Placed

LEMMA PlacedStep == CountType /\ BufferType /\ Placed /\ Fed /\ [Next]_vars => Placed'
<1> SUFFICES ASSUME CountType, BufferType, Placed, Fed, [Next]_vars PROVE Placed'
  BY Zenon
<1> USE DEF shared, driver, pumps, world
<1>1. CASE read_buf_has_room
  BY <1>1, PlacedFrame, Zenon DEF read_buf_has_room
<1>2. CASE ReadBufDrained
  BY <1>2, PlacedFrame, Zenon DEF ReadBufDrained
<1>3. CASE DataReceived
  BY <1>3, PlacedFrame, Zenon DEF DataReceived
<1>4. CASE AckReceived
  BY <1>4, PlacedFrame, Zenon DEF AckReceived
<1>5. CASE WriteDataReady
  <2>1. pending = <<>> /\ writeBuf' = <<>> /\ UNCHANGED <<queue, next>>
    BY <1>5, Zenon DEF WriteDataReady, WriteReady
  <2>2. CASE UNCHANGED <<handed, pending>> /\ writeBuf = <<>>
    BY <2>1, <2>2, PlacedFrame, Zenon
  <2>3. CASE handed' = handed \o writeBuf /\ pending' = <<>>
    <3>1. /\ Len(handed') = Len(handed) + Len(writeBuf) /\ Len(pending') = 0
          /\ Len(pending) = 0 /\ Len(writeBuf') = 0
          /\ \A i \in 1 .. Len(handed') : handed'[i] = 0 + i
      BY <2>1, <2>3, RunsJoin, 0 \in Nat DEF Placed, BufferType
    <3> QED
      BY <2>1, <3>1 DEF Placed, BufferType
  <2>4. CASE pending' = writeBuf /\ UNCHANGED handed
    BY <2>1, <2>4 DEF Placed, BufferType
  <2> QED BY <1>5, <2>2, <2>3, <2>4, Zenon DEF WriteDataReady, queue_write
<1>6. CASE Idle
  BY <1>6, PlacedFrame, Zenon DEF Idle
<1>7. CASE Pending
  BY <1>7, PlacedFrame, Zenon DEF Pending
<1>8. CASE flush_pending_write
  <2>1. UNCHANGED <<writeBuf, queue, next>>
    BY <1>8, Zenon DEF flush_pending_write
  <2>2. CASE UNCHANGED <<handed, pending>>
    BY <2>1, <2>2, PlacedFrame, Zenon
  <2>3. CASE handed' = handed \o pending /\ pending' = <<>>
    <3>1. /\ Len(handed') = Len(handed) + Len(pending) /\ Len(pending') = 0
          /\ \A i \in 1 .. Len(handed') : handed'[i] = 0 + i
      BY <2>3, RunsJoin, 0 \in Nat DEF Placed, BufferType
    <3> QED
      BY <2>1, <3>1 DEF Placed, BufferType
  <2> QED BY <1>8, <2>2, <2>3, Zenon DEF flush_pending_write, queue_write
<1>9. CASE is_closed
  BY <1>9, PlacedFrame, Zenon DEF is_closed
<1>10. CASE SocketFails
  BY <1>10, PlacedFrame, Zenon DEF SocketFails
<1>11. CASE release_stream
  BY <1>11, PlacedFrame, Zenon DEF release_stream
<1>12. CASE poll_read
  BY <1>12, PlacedFrame, Zenon DEF poll_read
<1>13. CASE write_pump
  BY <1>13, PlacedFrame, Zenon DEF write_pump
<1>14. CASE poll_write
  <2>1. UNCHANGED <<handed, pending, next>>
    BY <1>14, Zenon DEF poll_write
  <2>2. CASE UNCHANGED <<writeBuf, queue>>
    BY <2>1, <2>2, PlacedFrame, Zenon
  <2>3. CASE \E n \in 1 .. Len(queue) : Moves(n)
    <3> DEFINE k == Len(handed) + Len(pending)
    <3>1. k \in Nat /\ writeBuf \in Seq(Nat) /\ queue \in Seq(Nat)
      BY DEF BufferType
    <3>2. /\ \A i \in 1 .. Len(writeBuf) : writeBuf[i] = k + i
          /\ \A i \in 1 .. Len(queue) : queue[i] = k + Len(writeBuf) + i
      BY Zenon DEF Placed
    <3> HIDE DEF k
    <3>3. PICK n \in 1 .. Len(queue) : Moves(n)
      BY <2>3, Zenon
    <3>4. /\ Len(writeBuf') = Len(writeBuf) + n /\ Len(queue') = Len(queue) - n
          /\ \A i \in 1 .. Len(writeBuf) + n : writeBuf'[i] = k + i
          /\ \A i \in 1 .. Len(queue) - n : queue'[i] = k + Len(writeBuf) + n + i
      <4> DEFINE c == writeBuf \o SubSeq(queue, 1, n)
                 d == SubSeq(queue, n + 1, Len(queue))
      <4>1. /\ Len(c) = Len(writeBuf) + n /\ Len(d) = Len(queue) - n
            /\ \A i \in 1 .. Len(writeBuf) + n : c[i] = k + i
            /\ \A i \in 1 .. Len(queue) - n : d[i] = k + Len(writeBuf) + n + i
        <5>1. Follows(writeBuf, k) /\ Follows(queue, k + Len(writeBuf))
          BY <3>2, Zenon DEF Follows
        <5>2. /\ Follows(c, k) /\ Follows(d, k + Len(writeBuf) + n)
              /\ Len(c) = Len(writeBuf) + n /\ Len(d) = Len(queue) - n
          <6>1. \A m \in 1 .. Len(queue) :
                   LET e == writeBuf \o SubSeq(queue, 1, m)
                       f == SubSeq(queue, m + 1, Len(queue))
                   IN  /\ Len(e) = Len(writeBuf) + m /\ Len(f) = Len(queue) - m
                       /\ Follows(e, k) /\ Follows(f, k + Len(writeBuf) + m)
            BY <3>1, <5>1, RunMoves, Zenon
          <6>2. n \in 1 .. Len(queue)
            BY <3>3, Zenon
          <6> QED
            BY <6>1, <6>2, Zenon
        <5> QED
          BY <5>2, Zenon DEF Follows
      <4>2. writeBuf' = c /\ queue' = d
        BY <3>3, Zenon DEF Moves
      <4> HIDE DEF c, d
      <4> QED
        BY <4>1, <4>2, Zenon
    <3>5. n \in Nat /\ Len(writeBuf) \in Nat /\ Len(queue) \in Nat
      BY <3>1
    <3> QED
      BY <2>1, <3>1, <3>4, <3>5 DEF Placed, BufferType, k
  <2> QED BY <1>14, <2>2, <2>3, Zenon DEF poll_write, Moves
<1>15. CASE poll_flush
  BY <1>15, PlacedFrame, Zenon DEF poll_flush
<1>16. CASE send
  <2> DEFINE m == [i \in 1 .. Pieces |-> next * Pieces + i]
             k == Len(handed) + Len(pending) + Len(writeBuf)
  <2>1. queue' = queue \o m /\ next' = next + 1 /\ UNCHANGED <<handed, pending, writeBuf>>
    BY <1>16, Zenon DEF send
  <2>2. /\ next * Pieces \in Nat /\ next' * Pieces = next * Pieces + Pieces
        /\ m \in Seq(Nat) /\ Len(m) = Pieces
        /\ \A i \in 1 .. Pieces : m[i] = next * Pieces + i
    BY <2>1, MessageIsSeq, Zenon DEF CountType
  <2>3. k \in Nat /\ k + Len(queue) = next * Pieces /\ queue \in Seq(Nat)
    BY DEF Placed, BufferType
  <2>4. \A i \in 1 .. Len(queue) : queue[i] = k + i
    BY Zenon DEF Placed
  <2> HIDE DEF m, k
  <2>5. \A i \in 1 .. Len(m) : m[i] = k + Len(queue) + i
    BY <2>2, <2>3, Zenon
  <2>6. /\ Len(queue \o m) = Len(queue) + Len(m)
        /\ \A i \in 1 .. Len(queue \o m) : (queue \o m)[i] = k + i
    BY <2>2, <2>3, <2>4, <2>5, RunsJoin, Zenon
  <2> QED
    BY <2>1, <2>2, <2>3, <2>6 DEF Placed, k
<1>17. CASE shutdown
  BY <1>17, PlacedFrame, Zenon DEF shutdown, Shutdown
<1>18. CASE AwaitReader
  BY <1>18, PlacedFrame, Zenon DEF AwaitReader, Shutdown
<1>19. CASE AwaitWriter
  BY <1>19, PlacedFrame, Zenon DEF AwaitWriter, Shutdown
<1>20. CASE AbortDriver
  BY <1>20, PlacedFrame, Zenon DEF AbortDriver, Abort, Shutdown
<1>21. CASE PeerSends
  BY <1>21, PlacedFrame, Zenon DEF PeerSends
<1>22. CASE PeerAcks
  BY <1>22, PlacedFrame, Zenon DEF PeerAcks
<1>23. CASE PeerLost
  BY <1>23, PlacedFrame, Zenon DEF PeerLost
<1>24. CASE UNCHANGED vars
  BY <1>24, PlacedFrame, Zenon DEF vars
<1> QED
  BY <1>1, <1>2, <1>3, <1>4, <1>5, <1>6, <1>7, <1>8, <1>9, <1>10, <1>11, <1>12, <1>13,
     <1>14, <1>15, <1>16, <1>17, <1>18, <1>19, <1>20, <1>21, <1>22, <1>23, <1>24, Zenon
  DEF Next, Run, Shut, IdleSilent, IdleThrottled

(* The write pump goes on to the next write of a message only if there is     *)
(* one: the last one of the last message is a multiple of Pieces.             *)
LEMMA LastOfMessage ==
    ASSUME NEW n \in Nat
    PROVE  (n * Pieces) % Pieces = 0
<1> DEFINE a == n * Pieces
           q == a \div Pieces
           r == a % Pieces
<1>1. Pieces \in Nat /\ Pieces > 0 /\ a \in Nat
  BY Marks
<1>2. q \in Nat /\ r \in 0 .. Pieces - 1 /\ a = q * Pieces + r
  BY <1>1
<1> HIDE DEF q, r
<1>3. r = (n - q) * Pieces /\ n - q \in Int
  BY <1>1, <1>2
<1>4. CASE n - q <= 0
  BY <1>1, <1>2, <1>3, <1>4 DEF r
<1>5. CASE n - q >= 1
  <2>1. n - q - 1 \in Nat /\ (n - q) * Pieces = (n - q - 1) * Pieces + Pieces
    BY <1>1, <1>2, <1>5
  <2>2. (n - q - 1) * Pieces >= 0
    BY <1>1, <2>1
  <2> QED
    BY <1>1, <1>2, <1>3, <2>1, <2>2
<1> QED
  BY <1>3, <1>4, <1>5

LEMMA FedStep ==
    CountType /\ BufferType /\ Placed /\ Fed /\ [Next]_vars => Fed'
<1> SUFFICES ASSUME CountType, BufferType, Placed, Fed, [Next]_vars PROVE Fed'
  BY Zenon
<1>1. CASE poll_write
  <2>1. CASE wpc' # "write" \/ UNCHANGED <<queue, wpc>>
    BY <2>1, Zenon DEF Fed
  <2>2. CASE \E n \in 1 .. Len(queue) : queue[n] % Pieces # 0 /\ Moves(n)
    <3>1. PICK n \in 1 .. Len(queue) : queue[n] % Pieces # 0 /\ Moves(n)
      BY <2>2, Zenon
    <3>2. Len(queue) \in Nat /\ queue \in Seq(Nat)
      BY DEF BufferType
    <3>3. CASE n = Len(queue)
      <4>1. queue[n] = next * Pieces
        BY <3>2, <3>3, Zenon DEF Placed, BufferType
      <4> QED
        BY <3>1, <4>1, LastOfMessage, Zenon DEF CountType
    <3>4. CASE n < Len(queue)
      <4>1. Len(queue') = Len(queue) - n
        BY <3>1, <3>2 DEF Moves
      <4>2. Len(queue') # 0 /\ Len(<<>>) = 0
        BY <3>2, <3>4, <4>1
      <4>3. queue' # <<>>
        BY <4>2, Zenon
      <4> QED
        BY <4>3, Zenon DEF Fed
    <3> QED
      BY <3>2, <3>3, <3>4
  <2> QED
    BY <1>1, <2>1, <2>2, Zenon DEF poll_write, Moves
<1>2. CASE write_pump
  BY <1>2, Zenon DEF write_pump, Fed
<1>3. CASE send
  <2>1. [i \in 1 .. Pieces |-> next * Pieces + i] \in Seq(Nat)
    BY MessageIsSeq, Zenon DEF CountType
  <2>2. queue # <<>> => queue \o [i \in 1 .. Pieces |-> next * Pieces + i] # <<>>
    BY <2>1 DEF BufferType
  <2> QED
    BY <1>3, <2>2, Zenon DEF send, Fed
<1>4. CASE poll_flush
  BY <1>4, Zenon DEF poll_flush, Fed
<1>5. CASE UNCHANGED <<wpc, queue>>
  BY <1>5, Zenon DEF Fed
<1> QED
  BY <1>1, <1>2, <1>3, <1>4, <1>5, Zenon
  DEF Next, Run, Shut, IdleSilent, IdleThrottled, vars, shared, driver, pumps, world,
      read_buf_has_room, ReadBufDrained, DataReceived, AckReceived, WriteDataReady, Idle,
      Pending, flush_pending_write, is_closed, SocketFails, release_stream, poll_read,
      shutdown, AwaitReader, AwaitWriter, AbortDriver, PeerSends, PeerAcks, PeerLost

LEMMA InitOInv == Init => OInv
<1> SUFFICES ASSUME Init PROVE OInv
  BY Zenon
<1>1. SleepType /\ FlagType
  BY Zenon DEF Init, SleepType, FlagType, Tasks
<1>2. CountType /\ BufferType
  BY Marks DEF Init, CountType, BufferType, RoomSeen
<1>3. Placed /\ Fed
  BY Marks DEF Init, Placed, Fed
<1> QED
  BY <1>1, <1>2, <1>3, Groups, Zenon DEF OInv

LEMMA NextOInv == OInv /\ [Next]_vars => OInv'
<1> SUFFICES ASSUME OInv, [Next]_vars PROVE OInv'
  BY Zenon
<1>1. SleepType /\ FlagType /\ CountType /\ BufferType /\ Placed /\ Fed
  BY Groups, Zenon DEF OInv
<1>2. SleepType' /\ FlagType' /\ CountType' /\ BufferType' /\ Placed' /\ Fed'
  BY <1>1, SleepStep, FlagStep, CountStep, BufferStep, PlacedStep, FedStep, Zenon
<1>3. TypeOK' /\ RoomSeen'
  BY <1>2, Groups, PTL
<1> QED
  BY <1>2, <1>3, Zenon DEF OInv

(* The places together are the order of the whole stream.                     *)
LEMMA PlacedInOrder == OInv => OrderKept
<1> SUFFICES ASSUME OInv PROVE OrderKept
  BY Zenon
<1>1. BufferType /\ Placed
  BY Groups, Zenon DEF OInv
<1>2. handed \in Seq(Nat) /\ pending \in Seq(Nat) /\ writeBuf \in Seq(Nat) /\ queue \in Seq(Nat)
  BY <1>1, Zenon DEF BufferType
<1> DEFINE a == handed \o pending
           b == a \o writeBuf
<1>3. /\ a \in Seq(Nat) /\ Len(a) = Len(handed) + Len(pending)
      /\ \A i \in 1 .. Len(a) : a[i] = i
  <2>1. /\ \A i \in 1 .. Len(handed) : handed[i] = i
        /\ \A i \in 1 .. Len(pending) : pending[i] = Len(handed) + i
    BY <1>1, <1>2, Zenon DEF Placed
  <2> QED
    BY <1>2, <2>1, FirstRunsJoin, Zenon
<1> HIDE DEF a
<1>4. /\ b \in Seq(Nat) /\ Len(b) = Len(a) + Len(writeBuf)
      /\ \A i \in 1 .. Len(b) : b[i] = i
  <2>1. \A i \in 1 .. Len(writeBuf) : writeBuf[i] = Len(a) + i
    BY <1>1, <1>2, <1>3, Zenon DEF Placed
  <2> QED
    BY <1>2, <1>3, <2>1, FirstRunsJoin, Zenon
<1> HIDE DEF b
<1>5. /\ Len(b \o queue) = Len(b) + Len(queue)
      /\ \A i \in 1 .. Len(b \o queue) : (b \o queue)[i] = i
  <2>1. \A i \in 1 .. Len(queue) : queue[i] = Len(b) + i
    BY <1>1, <1>2, <1>3, <1>4, Zenon DEF Placed
  <2> QED
    BY <1>2, <1>4, <2>1, FirstRunsJoin, Zenon
<1>6. Len(b \o queue) = next * Pieces
  BY <1>1, <1>2, <1>3, <1>4, <1>5, Zenon DEF Placed
<1> QED
  BY <1>5, <1>6, Zenon DEF OrderKept, a, b

(* Every buffer of the tunnel keeps its bound, for every size of them and of  *)
(* the writes: read_buf its mark and what one datagram can release,           *)
(* write_buf its mark and one write, the send buffer its room.                *)
THEOREM BoundsKept == Spec => []TypeOK
<1>1. OInv => TypeOK
  BY Zenon DEF OInv
<1> QED
  BY <1>1, InitOInv, NextOInv, PTL DEF Spec

(* The stream down keeps its order and loses nothing, through refused writes, *)
(* full buffers and closes, for every size of the buffers and any number of   *)
(* messages and pieces.                                                       *)
THEOREM WritesInOrder == Spec => []OrderKept
<1> QED
  BY PlacedInOrder, InitOInv, NextOInv, PTL DEF Spec
=============================================================================
