---------------------------- MODULE SocketClient ----------------------------
(***************************************************************************)
(* imp_SocketClient (include/Backend/imp_SocketClient.hpp) in its libevent *)
(* build: connect and send run the event loop on the caller's thread until *)
(* a callback, or the lack of events, ends it.  libevent itself and the    *)
(* peer are modelled from how this code uses them.                         *)
(***************************************************************************)
EXTENDS Integers, Sequences

CONSTANT Chunks   \* how many bytes the kernel may take at once

ASSUME ChunksAssumption == Chunks \subseteq Nat \ {0}

VARIABLES
  connected,  \* the member
  sends,      \* the member: writes without their conn_writecb
  loop,       \* "idle", "once" (in connect) or "dispatch" (in send)
  loopexit,   \* event_base_loopexit was called and not yet obeyed
  canRead,    \* the read event of bev is pending
  canWrite,   \* bev may still write
  output,     \* bev's output buffer, a sequence of bytes
  sending,    \* the length that the current send was called with
  peer,       \* "open", or "closed": it closed or broke the connection
  handed      \* the bytes the kernel has taken

socketVars == <<connected, sends, loop, loopexit, canRead, canWrite, output,
                sending, peer, handed>>

SocketTypeOK ==
  /\ connected \in BOOLEAN /\ loopexit \in BOOLEAN
  /\ canRead \in BOOLEAN /\ canWrite \in BOOLEAN
  /\ sends \in Nat /\ sending \in Nat
  /\ loop \in {"idle", "once", "dispatch"}
  /\ peer \in {"open", "closed"}

SocketInit ==
  /\ connected = FALSE /\ loopexit = FALSE
  /\ canRead = FALSE /\ canWrite = FALSE
  /\ sends = 0 /\ sending = 0
  /\ loop = "idle"
  /\ output = <<>> /\ handed = <<>>
  /\ peer = "open"

-----------------------------------------------------------------------------
(* connect *)

\* closeSocket finds nothing to close; the bufferevent starts to connect, and
\* the loop waits for one event.
ConnectBegin ==
  /\ loop = "idle" /\ ~connected
  /\ loop' = "once"
  /\ UNCHANGED <<connected, sends, loopexit, canRead, canWrite, output, sending,
                 peer, handed>>

\* conn_eventcb: BEV_EVENT_CONNECTED, or BEV_EVENT_ERROR.
ConnectEvent(ok) ==
  /\ loop = "once"
  /\ ok => peer = "open"
  /\ loop' = "idle"
  /\ connected' = ok /\ canRead' = ok /\ canWrite' = ok
  /\ UNCHANGED <<sends, loopexit, output, sending, peer, handed>>

-----------------------------------------------------------------------------
(* send *)

\* bufferevent_write, ++sends and the start of the loop.  An empty buffer adds
\* no bytes, and without bytes no write event.
SendBegin(bytes) ==
  /\ loop = "idle" /\ connected
  /\ output' = output \o bytes
  /\ sending' = Len(bytes)
  /\ sends' = sends + 1
  /\ loop' = "dispatch"
  /\ UNCHANGED <<connected, loopexit, canRead, canWrite, peer, handed>>

\* Mutated Write: conn_writecb does not end the loop.
WriteNoExit ==
  /\ loop = "dispatch" /\ canWrite /\ output # <<>>
  /\ \E k \in Chunks :
       /\ k <= Len(output)
       /\ handed' = handed \o SubSeq(output, 1, k)
       /\ output' = SubSeq(output, k + 1, Len(output))
  /\ sends' = IF output' = <<>> THEN sends - 1 ELSE sends
  /\ UNCHANGED <<connected, loop, loopexit, canRead, canWrite, sending, peer>>

\* The socket is writable.  When the buffer is empty, conn_writecb: --sends,
\* and if no write is left, the loop is told to exit.
Write ==
  /\ loop = "dispatch" /\ canWrite /\ output # <<>>
  /\ \E k \in Chunks :
       /\ k <= Len(output)
       /\ handed' = handed \o SubSeq(output, 1, k)
       /\ output' = SubSeq(output, k + 1, Len(output))
  /\ sends' = IF output' = <<>> THEN sends - 1 ELSE sends
  /\ loopexit' = (loopexit \/ sends' = 0)
  /\ UNCHANGED <<connected, loop, canRead, canWrite, sending, peer>>

PeerCloses ==
  /\ peer = "open"
  /\ peer' = "closed"
  /\ UNCHANGED <<connected, sends, loop, loopexit, canRead, canWrite, output,
                 sending, handed>>

\* conn_eventcb: the write failed.
WriteError ==
  /\ loop = "dispatch" /\ canWrite /\ output # <<>> /\ peer = "closed"
  /\ connected' = FALSE
  /\ canWrite' = FALSE
  /\ UNCHANGED <<sends, loop, loopexit, canRead, output, sending, peer, handed>>

\* conn_eventcb: the end of the stream, or a broken connection.
ReadEvent ==
  /\ loop = "dispatch" /\ canRead /\ peer = "closed"
  /\ connected' = FALSE
  /\ canRead' = FALSE
  /\ UNCHANGED <<sends, loop, loopexit, canWrite, output, sending, peer, handed>>

\* event_base_dispatch returns when it was told to, or when no event is left.
LoopOver ==
  /\ loop = "dispatch"
  /\ loopexit \/ (~canRead /\ (output = <<>> \/ ~canWrite))

\* What send returns then: size or 0; an int fg of 0 is success.
SendResult == IF sends = 0 THEN sending ELSE 0

\* Mutated SendEnd: the request to exit is left for the next loop.
SendEndKeepsExit ==
  /\ LoopOver
  /\ loop' = "idle"
  /\ UNCHANGED <<connected, sends, loopexit, canRead, canWrite, output, sending, peer, handed>>

SendEnd ==
  /\ LoopOver
  /\ loop' = "idle"
  /\ loopexit' = FALSE
  /\ UNCHANGED <<connected, sends, canRead, canWrite, output, sending, peer, handed>>

-----------------------------------------------------------------------------

\* closeSocket, from the destructor.
CloseSocket ==
  /\ loop = "idle"
  /\ loopexit' = (loopexit \/ connected)
  /\ output' = IF connected THEN <<>> ELSE output
  /\ canRead' = (canRead /\ ~connected)
  /\ canWrite' = (canWrite /\ ~connected)
  /\ connected' = FALSE
  /\ UNCHANGED <<sends, loop, sending, peer, handed>>

\* What happens without a call of the client.
LoopNext == Write \/ WriteError \/ ReadEvent \/ PeerCloses

=============================================================================
