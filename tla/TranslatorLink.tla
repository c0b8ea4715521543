--------------------------- MODULE TranslatorLink ---------------------------
(***************************************************************************)
(* The line protocol between meeting-server and its translator: the        *)
(* server's one connection at a time (UnixLineDaemon of server.py), the    *)
(* proxy with a handler per connection and a lock around its native        *)
(* process (meeting-translator-daemon.py), and that process.               *)
(*                                                                         *)
(* A line is known by what asked for it, and a reply by the line it        *)
(* answers; what a reply says is left to its reader.  Nothing in the       *)
(* protocol carries that identity: a reader takes the next line there is.  *)
(***************************************************************************)
EXTENDS Naturals, Sequences

CONSTANTS
  Lines,           \* request lines
  NoLine,
  MaxConnections   \* bound: connections that either side still holds

ASSUME LinkAssumption == NoLine \notin Lines /\ MaxConnections \in Nat \ {0}

Connections == 1..MaxConnections

VARIABLES
  slow,        \* requests may time out and processes may exit
  connection,  \* the reader and writer of UnixLineDaemon, 0 for none
  holder,      \* the line whose ask() holds the lock, or NoLine
  daemon,      \* the proxy and its native process run, the socket is there
  handler,     \* per connection: the proxy's handler, or "none"
  taken,       \* the line the handler read
  requests,    \* lines written to the connection, unread by the proxy
  replies,     \* lines written to the connection, unread by the server
  native       \* lines given to the native process whose reply is not yet read

serverVars == <<connection, holder>>
proxyVars == <<daemon, handler, taken, native>>
linkVars == <<slow, serverVars, proxyVars, requests, replies>>

\* The server has connected already, or has not.
LinkInit ==
  /\ slow \in BOOLEAN /\ holder = NoLine
  /\ connection \in {0, 1}
  /\ daemon \in IF connection = 1 THEN {TRUE} ELSE BOOLEAN
  /\ handler = [c \in Connections |-> IF c = connection THEN "reading" ELSE "none"]
  /\ taken = [c \in Connections |-> NoLine]
  /\ requests = [c \in Connections |-> <<>>]
  /\ replies = [c \in Connections |-> <<>>]
  /\ native = <<>>
-----------------------------------------------------------------------------
(* UnixLineDaemon.                                                         *)

\* Connections that neither side holds.
Unused == {c \in Connections : handler[c] = "none" /\ connection # c}

\* start(): the proxy greets every connection that it accepts.
Connect ==
  /\ connection = 0 /\ daemon
  /\ \E c \in Unused :
       /\ \A d \in Unused : c <= d
       /\ connection' = c
       /\ handler' = [handler EXCEPT ![c] = "reading"]
       /\ requests' = [requests EXCEPT ![c] = <<>>]
       /\ replies' = [replies EXCEPT ![c] = <<>>]
  /\ UNCHANGED <<slow, holder, daemon, taken, native>>

\* ask() takes the lock and writes its line: its caller has just seen to it that
\* start() finds a connection.
Ask(line) ==
  /\ holder = NoLine /\ connection # 0
  /\ holder' = line
  /\ requests' = [requests EXCEPT ![connection] = Append(@, line)]
  /\ UNCHANGED <<slow, connection, proxyVars, replies>>

\* Seeded defect: the stream is kept, for the next request to use.
KeepConnection == UNCHANGED connection
\* _reset_connection.
ResetConnection == connection' = 0

\* The reply: the next line of the connection.
Answered ==
  /\ holder # NoLine /\ replies[connection] # <<>>
  /\ replies' = [replies EXCEPT ![connection] = Tail(@)]
  /\ holder' = NoLine
  /\ UNCHANGED <<slow, connection, proxyVars, requests>>

\* Neither a handler nor a line is left at the other end.
PeerGone(c) == handler[c] = "none" /\ replies[c] = <<>>

\* ask() raises: the request times out, or its stream ends.
AskRaises ==
  /\ holder # NoLine /\ (slow \/ PeerGone(connection))
  /\ ResetConnection /\ holder' = NoLine
  /\ UNCHANGED <<slow, proxyVars, requests, replies>>
-----------------------------------------------------------------------------
(* The proxy.                                                              *)

\* No handler holds request_lock.
LockFree == \A d \in Connections : handler[d] # "native"
NoneWaits == \A d \in Connections : handler[d] # "queued"

\* The handler of a connection reads a line, even one whose sender has left, and
\* passes it on if it gets the lock.
ReadLine(c) ==
  LET line == Head(requests[c])
      atOnce == LockFree /\ NoneWaits
  IN /\ handler[c] = "reading" /\ requests[c] # <<>>
     /\ taken' = [taken EXCEPT ![c] = line]
     /\ requests' = [requests EXCEPT ![c] = Tail(@)]
     /\ handler' = [handler EXCEPT ![c] = IF atOnce THEN "native" ELSE "queued"]
     /\ native' = IF atOnce THEN Append(native, line) ELSE native
     /\ UNCHANGED <<slow, serverVars, daemon, replies>>

GetLock(c) ==
  /\ handler[c] = "queued" /\ LockFree
  /\ native' = Append(native, taken[c])
  /\ handler' = [handler EXCEPT ![c] = "native"]
  /\ UNCHANGED <<slow, serverVars, daemon, taken, requests, replies>>

\* readline() of a connection that the server closed.
EndOfLines(c) ==
  /\ handler[c] = "reading" /\ requests[c] = <<>> /\ connection # c
  /\ handler' = [handler EXCEPT ![c] = "none"]
  /\ UNCHANGED <<slow, serverVars, daemon, taken, native, requests, replies>>

\* The native process answers its lines in their order.  The handler reads the next
\* answer, which unlocks, and writes it if there still is a server to read it.
Return(c) ==
  /\ handler[c] = "native" /\ native # <<>>
  /\ native' = Tail(native)
  /\ taken' = [taken EXCEPT ![c] = NoLine]
  /\ IF connection = c
     THEN /\ replies' = [replies EXCEPT ![c] = Append(@, Head(native))]
          /\ handler' = [handler EXCEPT ![c] = "reading"]
     ELSE /\ handler' = [handler EXCEPT ![c] = "none"]
          /\ UNCHANGED replies
  /\ UNCHANGED <<slow, serverVars, daemon, requests>>

\* The native process exits or is too slow (os._exit, and the end of run()): every
\* handler ends, the server's own perhaps with an error line.
ProxyExits ==
  /\ slow /\ daemon
  /\ daemon' = FALSE
  /\ handler' = [c \in Connections |-> "none"]
  /\ taken' = [c \in Connections |-> NoLine]
  /\ native' = <<>>
  /\ \/ UNCHANGED replies
     \/ \E c \in Connections :
          /\ handler[c] \in {"queued", "native"} /\ connection = c
          /\ replies' = [replies EXCEPT ![c] = Append(@, taken[c])]
  /\ UNCHANGED <<slow, serverVars, requests>>

\* systemd starts it again (Restart=on-failure), or not.
ProxyStarts ==
  /\ ~daemon
  /\ daemon' = TRUE
  /\ UNCHANGED <<slow, serverVars, handler, taken, native, requests, replies>>

Proxy ==
  \/ \E c \in Connections : ReadLine(c) \/ GetLock(c) \/ EndOfLines(c) \/ Return(c)
  \/ ProxyExits \/ ProxyStarts
-----------------------------------------------------------------------------
LinkTypeOK ==
  /\ slow \in BOOLEAN
  /\ connection \in 0..MaxConnections
  /\ holder \in Lines \cup {NoLine}
  /\ daemon \in BOOLEAN
  /\ handler \in [Connections -> {"none", "reading", "queued", "native"}]
  /\ taken \in [Connections -> Lines \cup {NoLine}]
  /\ requests \in [Connections -> Seq(Lines)]
  /\ replies \in [Connections -> Seq(Lines)]
  /\ native \in Seq(Lines)

\* What an ask reads is the answer to its own line: no late reply of a request that
\* timed out or was abandoned reaches another ("preserving strict request/response
\* synchronization"), although nothing on the wire says which request a line
\* answers.
ReplyAnswersRequest ==
  connection # 0 /\ replies[connection] # <<>> =>
    holder # NoLine /\ replies[connection] = <<holder>>
=============================================================================
