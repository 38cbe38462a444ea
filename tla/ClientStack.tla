----------------------------- MODULE ClientStack -----------------------------
(***************************************************************************)
(* The network clients that httpclient and rtspclient are built on: the    *)
(* states of a connection (GNet::SimpleClient), the timers and the delayed *)
(* deletion (GNet::Client, GNet::HeapClient), the thread that looks up the *)
(* host's name (GNet::Resolver), and the holder that makes a new client    *)
(* when the last one ends (Gv::ClientHolder, GNet::ClientPtr).             *)
(*                                                                         *)
(* An action is one callback of the event loop.  The event loop serves     *)
(* sockets and timers in any order; only that a timer of zero goes off     *)
(* some time is used.  Left out: SOCKS, TLS, synchronous lookups, and a    *)
(* request that does not fit into the socket.                              *)
(***************************************************************************)
EXTENDS Naturals, Sequences, FiniteSets

CONSTANTS
  Clients,    \* bound: the client objects that exist at a time
  MaxQueue,   \* bound: what is sent on a connection before it is read
  Options,    \* what the program may be run as
  None        \* no client: a model value

ASSUME StackAssumption ==
  /\ Clients \subseteq Nat /\ Clients # {} /\ None \notin Clients
  /\ MaxQueue \in Nat
  /\ Options \subseteq
       [program : {"http", "rtsp"}, named : BOOLEAN, auth : BOOLEAN,
        once : BOOLEAN, watchdog : BOOLEAN, timeout : BOOLEAN]

VARIABLES
  option,     \* the program and its options
  m_state,    \* per client: "none" when there is no such object
  handlers,   \* per client: the events that its socket is registered for
  timers,     \* per client: the timers that are running
  thread,     \* per client: the thread of its resolver
  m_done,     \* per client: whether the done signal has been emitted
  m_ptr,      \* the client that the holder points to
  reconnect,  \* whether the holder's timer is running
  m_once_connected,
  quit,       \* whether the event loop has been told to quit
  peer,       \* per client: the other end of its connection
  inbox       \* per client: what has been sent to it and not been read

session == <<timers, m_done, m_ptr, reconnect, quit>>
sockets == <<m_state, handlers, thread, peer, inbox>>

StackTypeOK ==
  /\ option \in Options
  /\ m_state \in [Clients -> {"none", "idle", "resolving", "connecting", "connected"}]
  /\ handlers \in [Clients -> SUBSET {"read", "write"}]
  /\ timers \in [Clients -> SUBSET {"connect", "on-connect", "connection",
                                    "delete", "watchdog", "request"}]
  /\ thread \in [Clients -> {"none", "running", "sent", "joined"}]
  /\ m_done \in [Clients -> BOOLEAN]
  /\ m_ptr \in Clients \union {None}
  /\ reconnect \in BOOLEAN /\ m_once_connected \in BOOLEAN /\ quit \in BOOLEAN
  /\ peer \in [Clients -> {"none", "up", "silent", "closed"}]
  /\ \A c \in Clients : inbox[c] # <<>> => m_state[c] = "connected"

\* Mutant of Retryable: a client that takes too long to connect is replaced.
RetriesTimeouts == {"watchdog timeout", "peer disconnected", "connect failure",
                    "connection timeout"}

(* The reasons after which the programs go on; with --retry=0 there are    *)
(* none, and the program is over with its first client.                    *)
Retryable ==
  IF option.program = "http"
  THEN {"watchdog timeout", "peer disconnected", "connect failure"}
  ELSE {"peer disconnected", "connect failure"}

-----------------------------------------------------------------------------
(* Deletion *)

(* The timers of a client that is being deleted: the connection timers are *)
(* cancelled, those of the program itself are not.                         *)
Deleting(running) == (running \ {"connect", "connection"}) \union {"delete"}

(* onDone(): quit, or a new client after a while. *)
OnDone(reason) ==
  LET ends == (option.once /\ m_once_connected') \/ reason \notin Retryable
  IN /\ quit' = ends
     /\ reconnect' = (reconnect \/ ~ends)

(* doDelete(): the caller says which timers are running, and has set       *)
(* m_once_connected'.  The done signal is emitted once; the pointer is     *)
(* cleared and the slots disconnected before the holder is told.           *)
DoDelete(c, running, reason) ==
  /\ timers' = [timers EXCEPT ![c] = Deleting(running)]
  /\ m_done' = [m_done EXCEPT ![c] = TRUE]
  /\ IF ~m_done[c] /\ m_ptr = c
     THEN m_ptr' = None /\ OnDone(reason)
     ELSE UNCHANGED <<m_ptr, reconnect, quit>>

(* A callback that returns.  One that throws is the same as doDelete():    *)
(* EventLoop gives the exception to HeapClient::onException(), and that    *)
(* deletes the client with the exception's text as the reason.             *)
GoesOn(c, running) ==
  /\ timers' = [timers EXCEPT ![c] = running]
  /\ UNCHANGED <<m_done, m_ptr, reconnect, quit>>

(* onDeletionTimeout(): `delete this', with the socket, the timers and the *)
(* resolver.  The destructor of a resolver that is busy would leave the    *)
(* thread behind or wait for it; Lifetimes in NetClient says that there is *)
(* no such thing in these programs.                                        *)
OnDeletionTimeout(c) ==
  /\ "delete" \in timers[c]
  /\ m_state' = [m_state EXCEPT ![c] = "none"]
  /\ handlers' = [handlers EXCEPT ![c] = {}]
  /\ thread' = [thread EXCEPT ![c] = IF @ = "running" THEN @ ELSE "none"]
  /\ peer' = [peer EXCEPT ![c] = "none"]
  /\ inbox' = [inbox EXCEPT ![c] = <<>>]
  /\ UNCHANGED <<option, m_once_connected>>
  /\ GoesOn(c, {})

-----------------------------------------------------------------------------
(* Connecting *)

(* startConnecting(): the socket is connecting, or connected at once, or   *)
(* has failed, is closed, and the state is idle again.                     *)
StartConnecting(c, running) ==
  \/ /\ m_state' = [m_state EXCEPT ![c] = "connecting"]
     /\ handlers' = [handlers EXCEPT ![c] = {"write"}]
     /\ GoesOn(c, running)
  \/ /\ m_state' = [m_state EXCEPT ![c] = "connecting"]
     /\ UNCHANGED handlers
     /\ GoesOn(c, running \union {"on-connect"})
  \/ /\ m_state' = [m_state EXCEPT ![c] = "idle"]
     /\ UNCHANGED handlers
     /\ DoDelete(c, running, "connect failure")

(* HeapClient::onConnectionTimeout(): the zero timer that the constructor  *)
(* starts.  An address is connected to, a name is given to the thread.     *)
OnConnectTimer(c) ==
  /\ "connect" \in timers[c] /\ m_state[c] = "idle"
  /\ UNCHANGED <<option, m_once_connected, peer, inbox>>
  /\ LET running == timers[c] \ {"connect"} IN
     IF option.named
     THEN /\ m_state' = [m_state EXCEPT ![c] = "resolving"]
          /\ thread' = [thread EXCEPT ![c] = "running"]
          /\ UNCHANGED handlers
          /\ GoesOn(c, running)
     ELSE UNCHANGED thread /\ StartConnecting(c, running)

(* The worker thread: getaddrinfo() and one datagram to the event loop. *)
ThreadEnds(c) ==
  /\ thread[c] = "running"
  /\ thread' = [thread EXCEPT ![c] = "sent"]
  /\ UNCHANGED <<option, m_once_connected, session, m_state, handlers, peer, inbox>>

(* onFutureEvent(): the thread is joined, and the name is known or not. *)
OnFutureEvent(c) ==
  /\ thread[c] = "sent"
  /\ thread' = [thread EXCEPT ![c] = "joined"]
  /\ UNCHANGED <<option, m_once_connected, peer, inbox>>
  /\ \/ StartConnecting(c, timers[c])
     \/ /\ m_state' = [m_state EXCEPT ![c] = "idle"]
        /\ UNCHANGED handlers
        /\ DoDelete(c, timers[c], "dns error")

(* onWriteable() of a connecting socket, by its event or by the timer for  *)
(* an immediate connection, up to the program's onConnect().               *)
ConnectEvent(c) ==
  m_state[c] = "connecting" /\ ("write" \in handlers[c] \/ "on-connect" \in timers[c])

(* Connected: the connection timer is cancelled, the holder told, and the  *)
(* program's onConnect() follows with the timers that are left.  The other *)
(* end may have gone again by then.                                        *)
HasPeer(c, other) ==
  /\ other \in {"up", "closed"}
  /\ ConnectEvent(c)
  /\ handlers' = [handlers EXCEPT ![c] = {"read"}]
  /\ m_state' = [m_state EXCEPT ![c] = "connected"]
  /\ peer' = [peer EXCEPT ![c] = other]
  /\ m_once_connected' = (m_once_connected \/ m_ptr = c)
  /\ UNCHANGED <<option, thread, inbox>>

AfterConnect(c) == timers[c] \ {"on-connect", "connection"}

OnConnectFailure(c) ==
  /\ ConnectEvent(c)
  /\ handlers' = [handlers EXCEPT ![c] = {}]
  /\ UNCHANGED <<option, m_once_connected, m_state, thread, peer, inbox>>
  /\ DoDelete(c, timers[c] \ {"on-connect"}, "connect failure")

(* Client::onConnectionTimeout() *)
OnConnectionTimeout(c) ==
  /\ "connection" \in timers[c]
  /\ UNCHANGED <<option, m_once_connected, sockets>>
  /\ DoDelete(c, timers[c] \ {"connection"}, "connection timeout")

-----------------------------------------------------------------------------
(* The socket *)

(* rawReadEvent(): some of what there is, or the end of it. *)
Reads(c, items) ==
  /\ "read" \in handlers[c]
  /\ items <= Len(inbox[c])
  /\ inbox' = [inbox EXCEPT ![c] = SubSeq(@, items + 1, Len(@))]
  /\ UNCHANGED <<option, m_once_connected, m_state, handlers, thread, peer>>

ReadEnd(c) ==
  /\ "read" \in handlers[c] /\ peer[c] = "closed" /\ inbox[c] = <<>>
  /\ UNCHANGED <<option, m_once_connected, sockets>>
  /\ DoDelete(c, timers[c], "peer disconnected")

(* The other end sends, goes away, or is there but sends nothing any more. *)
Delivers(c, item) ==
  /\ peer[c] = "up" /\ Len(inbox[c]) < MaxQueue
  /\ inbox' = [inbox EXCEPT ![c] = Append(@, item)]
  /\ UNCHANGED <<option, m_once_connected, session, m_state, handlers, thread, peer>>

PeerLeaves(c) ==
  /\ peer[c] = "up"
  /\ \E how \in {"closed", "silent"} : peer' = [peer EXCEPT ![c] = how]
  /\ UNCHANGED <<option, m_once_connected, session, m_state, handlers, thread, inbox>>

-----------------------------------------------------------------------------
(* The holder *)

NewTimers == {"connect"} \union (IF option.timeout THEN {"connection"} ELSE {})

Free(c) == m_state[c] = "none" /\ thread[c] = "none"

(* ClientHolder::onTimeout(): reset() with a client from the factory; a    *)
(* client that the pointer still held would be deleted.                    *)
OnReconnect(c) ==
  /\ reconnect /\ reconnect' = FALSE
  /\ Free(c) /\ \A d \in Clients : Free(d) => c <= d   \* names are used again
  /\ m_ptr' = c
  /\ m_state' = [m_state EXCEPT ![c] = "idle"]
  /\ timers' = [d \in Clients |-> IF d = c THEN NewTimers
                                  ELSE IF d = m_ptr THEN Deleting(timers[d])
                                  ELSE timers[d]]
  /\ m_done' = [d \in Clients |-> d # c /\ (m_done[d] \/ d = m_ptr)]
  /\ UNCHANGED <<option, m_once_connected, quit, handlers, thread, peer, inbox>>

StackInit ==
  /\ option \in Options
  /\ \E first \in Clients :
       /\ \A d \in Clients : first <= d
       /\ m_state = [c \in Clients |-> IF c = first THEN "idle" ELSE "none"]
       /\ timers = [c \in Clients |-> IF c = first THEN NewTimers ELSE {}]
       /\ m_ptr = first
  /\ handlers = [c \in Clients |-> {}]
  /\ thread = [c \in Clients |-> "none"]
  /\ m_done = [c \in Clients |-> FALSE]
  /\ reconnect = FALSE
  /\ m_once_connected = FALSE /\ quit = FALSE
  /\ peer = [c \in Clients |-> "none"]
  /\ inbox = [c \in Clients |-> <<>>]

=============================================================================
