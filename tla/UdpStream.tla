------------------------------ MODULE UdpStream ------------------------------
(* The tasks of one RDP-UDP tunnel and the state they share (SharedIo): the   *)
(* driver that owns the connection, the read and the write pump above the TLS *)
(* stream, and the shutdown of the transport.  A task that cannot go on       *)
(* leaves a waker and sleeps; it runs again only when that waker is used.     *)
(* The connection itself is reduced to the payloads it holds back for an      *)
(* earlier one, the room left in its send buffer and the moment it closes;    *)
(* TLS passes reads, writes and flushes through, and chooses how much of a    *)
(* message it writes at once.  Data is counted in payloads of a datagram.     *)
EXTENDS Integers, Sequences, FiniteSets

CONSTANTS ReadMark,   \* READ_BUF_HIGH_WATER, in payloads
          RecvWindow, \* the receive window of the connection
          WriteMark,  \* WRITE_BUF_HIGH_WATER
          MaxWrite,   \* the largest buffer TLS writes at once
          SendRoom,   \* the send buffer of the connection
          Pieces,     \* the length of a message, which a flush follows
          MaxSocket,  \* datagrams the socket keeps
          MaxIn,      \* payloads that arrive from the peer
          MaxOut      \* messages the server hands to the transport

(* The default window leaves room for the fullest write buffer; a smaller one *)
(* would let a write be refused forever.                                      *)
ASSUME RoomAssumption ==
    /\ {ReadMark, RecvWindow, WriteMark, MaxWrite, Pieces} \subseteq Nat \ {0}
    /\ {MaxSocket, MaxIn, MaxOut} \subseteq Nat
    /\ SendRoom \in Nat /\ SendRoom >= WriteMark - 1 + MaxWrite

Tasks  == {"driver", "reader", "writer"}
Wakers == {"read", "write", "flush", "drained", "room"}

VARIABLES
    readBuf,    \* payloads in read_buf
    writeBuf,   \* what is in write_buf
    wakers,     \* the wakers that are registered
    error,      \* whether SharedIo.error is set
    closed,     \* SharedIo.closed
    awake,      \* the tasks that are due to be polled
    dpc,        \* where the driver is
    hasRoom,    \* its has_room
    pending,    \* its pending_write
    conn,       \* "open" or "closed": the RdpeudpConnection
    backlog,    \* how much is in the connection's send buffer
    handed,     \* what the connection has accepted, in order
    rpc, wpc,   \* where the pumps are
    queue,      \* what waits for the write pump
    next,       \* messages handed to the transport so far
    spc,        \* where shutdown is
    peer,       \* whether the peer answers
    inbox,      \* payloads at the socket
    held,       \* payloads in the reorder buffer of the connection
    sentIn,     \* payloads that have arrived from the peer
    acks        \* acknowledgements at the socket

shared == <<readBuf, writeBuf, wakers, error, closed>>
driver == <<dpc, hasRoom, pending, conn, backlog, handed>>
pumps  == <<rpc, wpc, queue, next, spc>>
world  == <<peer, inbox, held, sentIn, acks>>
vars   == <<shared, awake, driver, pumps, world>>

(* The wakers each task leaves.                                               *)
Leaves(t) == IF t = "driver" THEN {"write", "drained"}
             ELSE IF t = "reader" THEN {"read"} ELSE {"flush", "room"}

Woken(ws) == {t \in Tasks : Leaves(t) \cap ws \cap wakers # {}}

(* The wakers ws are taken and their tasks due again; the task that does it   *)
(* goes on running.                                                           *)
Wake(ws) == wakers' = wakers \ ws /\ awake' = awake \cup Woken(ws)

(* Variant: closing forgets the driver that waits for its readers.            *)
close_Partly == closed' = TRUE /\ Wake(Wakers \ {"drained"})

close == closed' = TRUE /\ Wake(Wakers)

(* A poll that finds nothing leaves its wakers and sleeps.                    *)
Park(task, ws) == wakers' = wakers \cup ws /\ awake' = awake \ {task}

Init ==
    /\ readBuf = 0 /\ writeBuf = <<>> /\ wakers = {} /\ error = FALSE /\ closed = FALSE
    /\ awake = Tasks
    /\ dpc = "loop" /\ hasRoom = TRUE /\ pending = <<>> /\ conn = "open"
    /\ backlog = 0 /\ handed = <<>>
    /\ rpc = "read" /\ wpc = "recv" /\ queue = <<>> /\ next = 0 /\ spc = "no"
    /\ peer = TRUE /\ inbox = 0 /\ held = 0 /\ sentIn = 0 /\ acks = 0

-----------------------------------------------------------------------------
(* The driver.  Its select takes any branch that is ready; a branch that was  *)
(* polled in vain before it leaves a waker behind, which can only wake the    *)
(* driver once too often and is left out.                                     *)

Driver(pc) == dpc = pc /\ "driver" \in awake

(* The head of the loop, where has_room is read.                              *)
read_buf_has_room ==
    /\ Driver("loop")
    /\ hasRoom' = (readBuf < ReadMark) /\ dpc' = "select"
    /\ UNCHANGED <<shared, awake, pending, conn, backlog, handed, pumps, world>>

DrainedReady == ~hasRoom /\ (readBuf < ReadMark \/ closed)
SocketReady  == hasRoom /\ (inbox > 0 \/ acks > 0)
WriteReady   == pending = <<>> /\ (writeBuf # <<>> \/ closed)

ReadBufDrained ==
    /\ Driver("select") /\ DrainedReady
    /\ dpc' = "after"
    /\ UNCHANGED <<shared, awake, hasRoom, pending, conn, backlog, handed, pumps, world>>

(* A datagram with data.  A duplicate, or one the window has no slot for, is  *)
(* dropped.  Ahead of its turn it is held back; in its turn it releases those *)
(* behind it as well, up to the next gap: all of them reach read_buf,         *)
(* whatever room is left there, and the reader is woken.                      *)
DataReceived ==
    /\ Driver("select") /\ hasRoom /\ inbox > 0
    /\ inbox' = inbox - 1
    /\ \/ UNCHANGED <<readBuf, held, wakers, awake>>
       \/ /\ held < RecvWindow /\ held' = held + 1
          /\ UNCHANGED <<readBuf, wakers, awake>>
       \/ /\ \E n \in 1 .. held + 1 : readBuf' = readBuf + n /\ held' = held + 1 - n
          /\ Wake({"read"})
    /\ dpc' = "after"
    /\ UNCHANGED <<writeBuf, error, closed, hasRoom, pending, conn, backlog, handed,
                   pumps, peer, sentIn, acks>>

(* A datagram with an acknowledgement: the send buffer moves on.              *)
AckReceived ==
    /\ Driver("select") /\ hasRoom /\ acks > 0
    /\ acks' = acks - 1 /\ backlog' = backlog - 1 /\ dpc' = "after"
    /\ UNCHANGED <<shared, awake, hasRoom, pending, conn, handed, pumps, peer, inbox, held, sentIn>>

(* What the connection takes of data, and what it leaves to wait: all or      *)
(* nothing.                                                                   *)
queue_write(data) ==
    IF backlog + Len(data) <= SendRoom
    THEN handed' = handed \o data /\ backlog' = backlog + Len(data) /\ pending' = <<>>
    ELSE pending' = data /\ UNCHANGED <<handed, backlog>>

(* Variant: a write is taken while an older one still waits.                  *)
WriteDataReady_Eager ==
    /\ Driver("select") /\ (writeBuf # <<>> \/ closed)
    /\ writeBuf' = <<>>
    /\ IF writeBuf = <<>>
       THEN /\ conn' = "closed" /\ close /\ dpc' = "release"
            /\ UNCHANGED <<pending, backlog, handed>>
       ELSE /\ queue_write(writeBuf)
            /\ Wake({"flush", "room"}) /\ dpc' = "after"
            /\ UNCHANGED <<closed, conn>>
    /\ UNCHANGED <<readBuf, error, hasRoom, pumps, world>>

WriteDataReady ==
    /\ Driver("select") /\ WriteReady
    /\ writeBuf' = <<>>
    /\ IF writeBuf = <<>>
       THEN /\ conn' = "closed" /\ close /\ dpc' = "release"
            /\ UNCHANGED <<pending, backlog, handed>>
       ELSE /\ queue_write(writeBuf)
            /\ Wake({"flush", "room"}) /\ dpc' = "after"
            /\ UNCHANGED <<closed, conn>>
    /\ UNCHANGED <<readBuf, error, hasRoom, pumps, world>>

(* The idle timer: nothing was received for its time, because the peer is     *)
(* silent or because the driver does not read.  (The other timers change      *)
(* nothing here.)                                                             *)
Idle ==
    /\ dpc = "select"
    /\ conn' = "closed" /\ closed' = TRUE
    /\ wakers' = {} /\ awake' = awake \cup Woken(Wakers) \cup {"driver"}
    /\ dpc' = "after"
    /\ UNCHANGED <<readBuf, writeBuf, error, hasRoom, pending, backlog, handed, pumps, world>>

Silent == ~peer /\ inbox = 0 /\ acks = 0

IdleSilent    == Silent /\ Idle
IdleThrottled == ~hasRoom /\ Idle

(* No branch is ready.                                                        *)
Pending ==
    /\ Driver("select") /\ ~DrainedReady /\ ~SocketReady /\ ~WriteReady
    /\ Park("driver", (IF hasRoom THEN {} ELSE {"drained"})
                      \cup (IF pending = <<>> THEN {"write"} ELSE {}))
    /\ UNCHANGED <<readBuf, writeBuf, error, closed, driver, pumps, world>>

(* The end of the loop: a held write is tried again, and a closed connection  *)
(* closes the stream.  Variant: the held write is not tried again.            *)
flush_pending_write_Once ==
    /\ Driver("after") /\ conn = "open"
    /\ dpc' = "loop"
    /\ UNCHANGED <<shared, awake, hasRoom, pending, conn, backlog, handed, pumps, world>>

flush_pending_write ==
    /\ Driver("after") /\ conn = "open"
    /\ IF pending = <<>> THEN UNCHANGED <<handed, backlog, pending>> ELSE queue_write(pending)
    /\ dpc' = "loop"
    /\ UNCHANGED <<shared, awake, hasRoom, conn, pumps, world>>

(* Variant: the loop closes the stream and goes round again.                  *)
is_closed_Again ==
    /\ Driver("after") /\ conn = "closed"
    /\ close /\ dpc' = "loop"
    /\ UNCHANGED <<readBuf, writeBuf, error, hasRoom, pending, conn, backlog, handed, pumps, world>>

is_closed ==
    /\ Driver("after") /\ conn = "closed"
    /\ close /\ dpc' = "release"
    /\ UNCHANGED <<readBuf, writeBuf, error, hasRoom, pending, conn, backlog, handed, pumps, world>>

(* The socket fails under a send or a receive.                                *)
SocketFails ==
    /\ Driver("select")
    /\ dpc' = "fail"
    /\ UNCHANGED <<shared, awake, hasRoom, pending, conn, backlog, handed, pumps, world>>

release_stream ==
    /\ dpc \in {"release", "fail"} /\ "driver" \in awake
    /\ error' = (error \/ dpc = "fail")
    /\ close /\ dpc' = "done"
    /\ UNCHANGED <<readBuf, writeBuf, hasRoom, pending, conn, backlog, handed, pumps, world>>

-----------------------------------------------------------------------------
(* The read pump.                                                             *)

poll_read ==
    /\ rpc = "read" /\ "reader" \in awake
    /\ \/ \E n \in 1 .. readBuf :
            /\ readBuf' = readBuf - n
            /\ Wake({"drained"}) /\ UNCHANGED rpc
       \/ /\ readBuf = 0 /\ (error \/ closed) /\ rpc' = "done"
          /\ UNCHANGED <<readBuf, wakers, awake>>
       \/ /\ readBuf = 0 /\ ~error /\ ~closed /\ Park("reader", {"read"})
          /\ UNCHANGED <<readBuf, rpc>>
    /\ UNCHANGED <<writeBuf, error, closed, driver, wpc, queue, next, spc, world>>

(* The write pump: recv, then write_all, then flush.                          *)
write_pump ==
    /\ wpc = "recv"
    /\ \/ queue # <<>> /\ wpc' = "write"
       \/ queue = <<>> /\ spc # "no" /\ wpc' = "done"
    /\ awake' = awake \cup {"writer"}
    /\ UNCHANGED <<shared, driver, rpc, queue, next, spc, world>>

Writer(pc) == wpc = pc /\ "writer" \in awake

(* Below its mark write_buf takes the whole buffer it is given, the rest of   *)
(* the message or a part of it.                                               *)
poll_write ==
    /\ Writer("write")
    /\ \/ /\ error \/ closed
          /\ wpc' = "failed" /\ UNCHANGED <<writeBuf, queue, wakers, awake>>
       \/ /\ ~error /\ ~closed /\ Len(writeBuf) >= WriteMark
          /\ Park("writer", {"room"}) /\ UNCHANGED <<writeBuf, queue, wpc>>
       \/ /\ ~error /\ ~closed /\ Len(writeBuf) < WriteMark
          /\ \E n \in 1 .. Len(queue) :
                /\ n <= MaxWrite /\ \A i \in 1 .. n - 1 : queue[i] % Pieces # 0
                /\ writeBuf' = writeBuf \o SubSeq(queue, 1, n)
                /\ queue' = SubSeq(queue, n + 1, Len(queue))
                /\ wpc' = IF queue[n] % Pieces = 0 THEN "flush" ELSE "write"
          /\ Wake({"write"})
    /\ UNCHANGED <<readBuf, error, closed, driver, rpc, next, spc, world>>

poll_flush ==
    /\ Writer("flush")
    /\ \/ error /\ wpc' = "failed" /\ UNCHANGED <<wakers, awake>>
       \/ ~error /\ writeBuf = <<>> /\ wpc' = "recv" /\ UNCHANGED <<wakers, awake>>
       \/ ~error /\ writeBuf # <<>> /\ Park("writer", {"flush"}) /\ UNCHANGED wpc
    /\ UNCHANGED <<readBuf, writeBuf, error, closed, driver, rpc, queue, next, spc, world>>

-----------------------------------------------------------------------------
(* The handle of the transport.                                               *)

(* A message handed over to the write pump.                                   *)
send ==
    /\ spc = "no" /\ wpc \notin {"failed", "done"} /\ next < MaxOut
    /\ next' = next + 1
    /\ queue' = queue \o [i \in 1 .. Pieces |-> next * Pieces + i]
    /\ UNCHANGED <<shared, awake, driver, rpc, wpc, spc, world>>

Shutdown(from, to) == spc = from /\ spc' = to

shutdown ==
    /\ Shutdown("no", "reader")
    /\ close
    /\ UNCHANGED <<readBuf, writeBuf, error, driver, rpc, wpc, queue, next, world>>

(* It waits for the read pump and then for the write pump; a failure of the   *)
(* latter returns at once and drops the handles that are left.                *)
AwaitReader ==
    /\ Shutdown("reader", "writer") /\ rpc = "done"
    /\ UNCHANGED <<shared, awake, driver, rpc, wpc, queue, next, world>>

AwaitWriter ==
    /\ Shutdown("writer", "driver") /\ wpc \in {"done", "failed"}
    /\ UNCHANGED <<shared, awake, driver, rpc, wpc, queue, next, world>>

(* The driver is aborted at its next await; its Drop releases the stream if   *)
(* its run did not.                                                           *)
Abort ==
    IF dpc = "done"
    THEN UNCHANGED <<error, closed, wakers, awake, dpc>>
    ELSE error' = TRUE /\ close /\ dpc' = "done"

AbortDriver ==
    /\ Shutdown("driver", "done")
    /\ Abort
    /\ UNCHANGED <<readBuf, writeBuf, hasRoom, pending, conn, backlog, handed,
                   rpc, wpc, queue, next, world>>

-----------------------------------------------------------------------------
(* The peer and the socket.  A datagram that finds the socket full is lost;   *)
(* another makes the socket readable, and wakes the driver when it waits for  *)
(* the socket.                                                                *)

Arrive == /\ inbox + acks < MaxSocket
          /\ awake' = IF hasRoom THEN awake \cup {"driver"} ELSE awake

PeerSends ==
    /\ peer /\ sentIn < MaxIn
    /\ sentIn' = sentIn + 1 /\ inbox' = inbox + 1 /\ Arrive
    /\ UNCHANGED <<shared, driver, pumps, peer, held, acks>>

PeerAcks ==
    /\ peer /\ acks < backlog
    /\ acks' = acks + 1 /\ Arrive
    /\ UNCHANGED <<shared, driver, pumps, peer, inbox, held, sentIn>>

PeerLost ==
    /\ peer /\ peer' = FALSE
    /\ UNCHANGED <<shared, awake, driver, pumps, inbox, held, sentIn, acks>>

-----------------------------------------------------------------------------
Run == \/ read_buf_has_room \/ ReadBufDrained \/ DataReceived \/ AckReceived
       \/ WriteDataReady \/ IdleSilent \/ Pending
       \/ flush_pending_write \/ is_closed \/ release_stream

Shut == AwaitReader \/ AwaitWriter \/ AbortDriver

Next ==
    \/ Run \/ IdleThrottled \/ SocketFails
    \/ poll_read \/ write_pump \/ poll_write \/ poll_flush
    \/ send \/ shutdown \/ Shut
    \/ PeerSends \/ PeerAcks \/ PeerLost

Spec == Init /\ [][Next]_vars

(* Each task is scheduled while it is due, and a peer that is there           *)
(* acknowledges.  The select is not biased: a branch that is ready again and  *)
(* again is taken in the end, the timer among them, and the idle timer goes   *)
(* off once nothing is received for good.                                     *)
FairSpec ==
    /\ Spec
    /\ WF_vars(Run) /\ SF_vars(WriteDataReady)
    /\ SF_vars(IdleSilent) /\ SF_vars(IdleThrottled)
    /\ WF_vars(poll_read) /\ WF_vars(write_pump \/ poll_write \/ poll_flush)
    /\ WF_vars(Shut) /\ WF_vars(PeerAcks)

-----------------------------------------------------------------------------
(* Properties.                                                                *)

(* Everything keeps its type, and every buffer its bound, whatever the other  *)
(* side does: read_buf is past its mark by no more than what one datagram can *)
(* release, write_buf by no more than one write, and the send buffer of the   *)
(* connection never past its own.                                             *)
TypeOK ==
    /\ readBuf \in 0 .. ReadMark + RecvWindow /\ held \in 0 .. RecvWindow
    /\ writeBuf \in Seq(Nat) /\ Len(writeBuf) <= WriteMark - 1 + MaxWrite
    /\ wakers \subseteq Wakers /\ awake \subseteq Tasks
    /\ {error, closed, hasRoom, peer} \subseteq BOOLEAN
    /\ dpc \in {"loop", "select", "after", "release", "fail", "done"}
    /\ conn \in {"open", "closed"}
    /\ pending \in Seq(Nat) /\ handed \in Seq(Nat) /\ queue \in Seq(Nat)
    /\ backlog \in 0 .. SendRoom /\ acks \in 0 .. backlog
    /\ rpc \in {"read", "done"} /\ wpc \in {"recv", "write", "flush", "done", "failed"}
    /\ spc \in {"no", "reader", "writer", "driver", "done"}
    /\ next \in 0 .. MaxOut /\ sentIn \in 0 .. MaxIn /\ inbox \in 0 .. sentIn

(* No wake-up is lost: a task that sleeps could do nothing if it were polled. *)
(* The driver asleep in its select has no branch ready, the read pump asleep  *)
(* has neither data nor an end of stream to return, and the write pump asleep *)
(* really has no room, or something left to flush.                            *)
NoLostWakeup ==
    /\ dpc = "select" /\ "driver" \notin awake => ~DrainedReady /\ ~SocketReady /\ ~WriteReady
    /\ rpc = "read" /\ "reader" \notin awake => readBuf = 0 /\ ~error /\ ~closed
    /\ wpc = "write" /\ "writer" \notin awake => Len(writeBuf) >= WriteMark /\ ~error /\ ~closed
    /\ wpc = "flush" /\ "writer" \notin awake => writeBuf # <<>> /\ ~error

(* A sleeping task is always due again through a waker it left: only the      *)
(* driver sleeps outside a poll that leaves one.                              *)
WakersKept ==
    /\ dpc = "select" /\ "driver" \notin awake =>
          /\ ~hasRoom => "drained" \in wakers
          /\ pending = <<>> => "write" \in wakers
    /\ dpc \notin {"select", "done"} => "driver" \in awake
    /\ rpc = "read" /\ "reader" \notin awake => "read" \in wakers
    /\ wpc = "write" /\ "writer" \notin awake => "room" \in wakers
    /\ wpc = "flush" /\ "writer" \notin awake => "flush" \in wakers

(* The stream keeps its order and loses nothing on the way down: what the     *)
(* connection took, the write it refused and what is still in write_buf are   *)
(* together the data 1, 2, 3, ... and the queue goes on from there.           *)
OrderKept ==
    LET all == handed \o pending \o writeBuf \o queue
    IN  /\ Len(all) = next * Pieces
        /\ \A i \in 1 .. Len(all) : all[i] = i

(* A close reaches everyone: once the stream is closed the driver ends and so *)
(* does the read pump, whoever closed it and whatever they were waiting for.  *)
CloseSettles == closed ~> (dpc = "done" /\ rpc = "done")

(* What is written goes out: again and again every write made so far has been *)
(* handed to the connection, unless the tunnel closes.                        *)
WritesGoOut == []<>(closed \/ Len(handed) = next * Pieces)
=============================================================================
