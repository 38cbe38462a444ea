-------------------------- MODULE ReceptionProofs --------------------------
(* Theorems about what receives images over the network.  The two client  *)
(* programs: for any number of client objects, any options, and any order *)
(* of the event loop's callbacks.  RTP: whatever packets of however many  *)
(* cameras arrive, in whatever order, what the stream hands over is a     *)
(* whole unit as far as numbers and timestamps can tell, and a unit that  *)
(* arrives in order is handed over.                                       *)
EXTENDS NetClient, RtpServer, SequenceTheorems, FiniteSetTheorems, TLAPS

-----------------------------------------------------------------------------
(* The clients *)

(* The types of the stack's variables; the flags apart. *)

StackTyped ==
  /\ option \in Options /\ m_ptr \in Clients \union {None}
  /\ m_state \in [Clients -> {"none", "idle", "resolving", "connecting", "connected"}]
  /\ handlers \in [Clients -> SUBSET {"read", "write"}]
  /\ timers \in [Clients -> SUBSET {"connect", "on-connect", "connection",
                                    "delete", "watchdog", "request"}]
  /\ thread \in [Clients -> {"none", "running", "sent", "joined"}]
  /\ peer \in [Clients -> {"none", "up", "silent", "closed"}]

FlagsTyped ==
  /\ m_done \in [Clients -> BOOLEAN]
  /\ reconnect \in BOOLEAN /\ m_once_connected \in BOOLEAN /\ quit \in BOOLEAN

(* What the timers, the done signals and the holder agree upon. *)

SessionAt(c) ==
  /\ ~Exists(c) => timers[c] = {}
  /\ Exists(c) => (Dying(c) <=> m_ptr # c) /\ (Dying(c) <=> m_done[c])
  /\ Dying(c) => "connect" \notin timers[c] /\ "connection" \notin timers[c]

HolderKnows ==
  /\ m_ptr # None => Exists(m_ptr)
  /\ m_ptr = None <=> (reconnect \/ quit)
  /\ ~(reconnect /\ quit)

SessionInvariant == HolderKnows /\ \A c \in Clients : SessionAt(c)

(* What the socket, its events and the resolver's thread agree upon.  A    *)
(* client is looked up by a thread as long as it is in that state, and     *)
(* what is deleted meanwhile is the last of the program.                   *)

SocketAt(c) ==
  /\ ~Exists(c) => handlers[c] = {} /\ thread[c] = "none"
  /\ thread[c] \in {"running", "sent"} <=> m_state[c] = "resolving"
  /\ Dying(c) /\ m_state[c] = "resolving" => quit
  /\ m_state[c] # "connected" =>
       /\ peer[c] = "none" /\ "read" \notin handlers[c]
       /\ "watchdog" \notin timers[c] /\ "request" \notin timers[c]

SocketInvariant == \A c \in Clients : SocketAt(c)

StackInvariant ==
  StackTyped /\ FlagsTyped /\ SessionInvariant /\ SocketInvariant

-----------------------------------------------------------------------------
(* The stack's own variables. *)

(* An action on one client leaves the others alone. *)
Apart(c) ==
  \A d \in Clients \ {c} :
    /\ m_state'[d] = m_state[d] /\ timers'[d] = timers[d]
    /\ handlers'[d] = handlers[d] /\ thread'[d] = thread[d]
    /\ peer'[d] = peer[d] /\ (m_done'[d] <=> m_done[d])

LEMMA RunningTimers ==
  ASSUME StackTyped, NEW c \in Clients,
         NEW r \in SUBSET {"connect", "on-connect", "connection", "delete",
                           "watchdog", "request"},
         timers' = [timers EXCEPT ![c] = r]
  PROVE  /\ timers' \in [Clients -> SUBSET {"connect", "on-connect", "connection",
                                            "delete", "watchdog", "request"}]
         /\ timers'[c] = r
         /\ \A d \in Clients \ {c} : timers'[d] = timers[d]
BY DEF StackTyped

(* A callback that returns leaves the session in order. *)
LEMMA GoesOnSession ==
  ASSUME StackInvariant, NEW c \in Clients, Exists(c), m_state'[c] # "none",
         \A d \in Clients \ {c} : m_state'[d] = m_state[d],
         NEW r \in SUBSET {"connect", "on-connect", "connection", "delete",
                           "watchdog", "request"},
         "delete" \in r <=> Dying(c),
         "connect" \in r => "connect" \in timers[c],
         "connection" \in r => "connection" \in timers[c],
         GoesOn(c, r)
  PROVE  /\ timers' \in [Clients -> SUBSET {"connect", "on-connect", "connection",
                                            "delete", "watchdog", "request"}]
         /\ timers'[c] = r /\ \A d \in Clients \ {c} : timers'[d] = timers[d]
         /\ UNCHANGED <<m_done, m_ptr, reconnect, quit>>
         /\ SessionInvariant'
<1>1. /\ timers' \in [Clients -> SUBSET {"connect", "on-connect", "connection",
                                         "delete", "watchdog", "request"}]
      /\ timers'[c] = r /\ \A d \in Clients \ {c} : timers'[d] = timers[d]
      /\ UNCHANGED <<m_done, m_ptr, reconnect, quit>>
  BY RunningTimers DEF GoesOn, StackInvariant
<1>2. ASSUME NEW d \in Clients PROVE SessionAt(d)'
  BY <1>1 DEF StackInvariant, SessionInvariant, SessionAt, Exists, Dying
<1>3. HolderKnows'
  BY <1>1 DEF StackInvariant, SessionInvariant, HolderKnows, Exists, StackTyped
<1> QED  BY <1>1, <1>2, <1>3 DEF SessionInvariant

(* So does a deletion, which tells the holder the first time. *)
LEMMA DeleteSession ==
  ASSUME StackInvariant, ~quit, NEW c \in Clients, Exists(c), m_state'[c] # "none",
         \A d \in Clients \ {c} : m_state'[d] = m_state[d],
         NEW r \in SUBSET {"connect", "on-connect", "connection", "delete",
                           "watchdog", "request"},
         NEW reason, DoDelete(c, r, reason)
  PROVE  /\ timers' \in [Clients -> SUBSET {"connect", "on-connect", "connection",
                                            "delete", "watchdog", "request"}]
         /\ timers'[c] = Deleting(r) /\ \A d \in Clients \ {c} : timers'[d] = timers[d]
         /\ \A d \in Clients \ {c} : m_done'[d] <=> m_done[d]
         /\ m_ptr' \in Clients \union {None}
         /\ m_done' \in [Clients -> BOOLEAN] /\ reconnect' \in BOOLEAN /\ quit' \in BOOLEAN
         /\ reason \notin Retryable /\ ~Dying(c) => quit'
         /\ SessionInvariant'
<1>1. /\ timers' \in [Clients -> SUBSET {"connect", "on-connect", "connection",
                                         "delete", "watchdog", "request"}]
      /\ timers'[c] = Deleting(r) /\ \A d \in Clients \ {c} : timers'[d] = timers[d]
  <2>1. Deleting(r) \in SUBSET {"connect", "on-connect", "connection", "delete",
                                "watchdog", "request"}
    BY DEF Deleting
  <2> QED  BY <2>1, RunningTimers DEF DoDelete, StackInvariant
<1>2. m_done'[c] /\ \A d \in Clients \ {c} : m_done'[d] <=> m_done[d]
  BY DEF DoDelete, StackInvariant, FlagsTyped
<1>3. "delete" \in Deleting(r) /\ "connect" \notin Deleting(r)
      /\ "connection" \notin Deleting(r)
  BY DEF Deleting
<1>4. \/ /\ ~m_done[c] /\ m_ptr = c /\ m_ptr' = None
         /\ (quit' /\ ~reconnect') \/ (~quit' /\ reconnect')
         /\ reason \notin Retryable => quit'
      \/ m_done[c] /\ UNCHANGED <<m_ptr, reconnect, quit>>
  <2>1. m_done[c] \/ m_ptr = c
    BY DEF StackInvariant, SessionInvariant, SessionAt
  <2>2. CASE ~m_done[c] /\ m_ptr = c
    <3>1. ~reconnect
      BY <2>2, StackAssumption DEF StackInvariant, SessionInvariant, HolderKnows
    <3> QED  BY <2>2, <3>1 DEF DoDelete, OnDone
  <2> QED  BY <2>1, <2>2 DEF DoDelete
<1>5. ASSUME NEW d \in Clients PROVE SessionAt(d)'
  <2>1. CASE d = c
    <3>1. m_ptr' # c
      BY <1>4, StackAssumption DEF StackInvariant, SessionInvariant, SessionAt
    <3> QED  BY <1>1, <1>2, <1>3, <2>1, <3>1 DEF SessionAt, Exists, Dying
  <2>2. CASE d # c
    <3>1. m_ptr' = d <=> m_ptr = d
      BY <1>4, <2>2, StackAssumption
    <3> QED
      BY <1>1, <1>2, <2>2, <3>1
         DEF StackInvariant, SessionInvariant, SessionAt, Exists, Dying
  <2> QED  BY <2>1, <2>2
<1>6. HolderKnows'
  <2>1. m_ptr # None /\ m_ptr' = m_ptr => Exists(m_ptr)'
    BY DEF StackInvariant, SessionInvariant, HolderKnows, Exists, StackTyped
  <2> QED
    BY <1>4, <2>1 DEF StackInvariant, SessionInvariant, HolderKnows
<1>7. ~Dying(c) => ~m_done[c]
  BY DEF StackInvariant, SessionInvariant, SessionAt
<1>8. m_done' \in [Clients -> BOOLEAN] /\ reconnect' \in BOOLEAN /\ quit' \in BOOLEAN
  <2>1. m_done' \in [Clients -> BOOLEAN]
    BY DEF DoDelete, StackInvariant, FlagsTyped
  <2>2. reconnect' \in BOOLEAN /\ quit' \in BOOLEAN
    BY DEF DoDelete, OnDone, StackInvariant, FlagsTyped
  <2> QED  BY <2>1, <2>2
<1> QED
  BY <1>1, <1>2, <1>4, <1>5, <1>6, <1>7, <1>8
     DEF SessionInvariant, StackInvariant, StackTyped

(* The sockets of the other clients are not concerned. *)
LEMMA OtherSockets ==
  ASSUME StackInvariant, quit => quit', NEW c \in Clients, SocketAt(c)',
         \A d \in Clients \ {c} :
           /\ m_state'[d] = m_state[d] /\ timers'[d] = timers[d]
           /\ handlers'[d] = handlers[d] /\ thread'[d] = thread[d] /\ peer'[d] = peer[d]
  PROVE  SocketInvariant'
<1>1. ASSUME NEW d \in Clients, d # c PROVE SocketAt(d)'
  BY <1>1 DEF StackInvariant, SocketInvariant, SocketAt, Exists, Dying
<1> QED  BY <1>1 DEF SocketInvariant

(* Connecting, from the timer or with the address that was looked up. *)
LEMMA StartConnectingStack ==
  ASSUME StackInvariant, ~quit, NEW c \in Clients, m_state[c] \in {"idle", "resolving"},
         NEW r \in SUBSET timers[c],
         "delete" \in r <=> Dying(c), ~Dying(c),
         UNCHANGED <<option, m_once_connected, peer>>,
         thread' \in [Clients -> {"none", "running", "sent", "joined"}],
         thread'[c] \notin {"running", "sent"},
         \A d \in Clients \ {c} : thread'[d] = thread[d],
         StartConnecting(c, r)
  PROVE  StackInvariant'
<1>1. /\ r \in SUBSET {"connect", "on-connect", "connection", "delete", "watchdog", "request"}
      /\ "watchdog" \notin r /\ "request" \notin r /\ Exists(c)
      /\ peer[c] = "none" /\ "read" \notin handlers[c]
  BY DEF StackInvariant, StackTyped, SocketInvariant, SocketAt, Exists
<1> DEFINE go == r \union {"on-connect"}
<1>2. CASE m_state' = [m_state EXCEPT ![c] = "connecting"] /\ GoesOn(c, r)
           /\ handlers' = [handlers EXCEPT ![c] = {"write"}]
  <2>1. /\ m_state' \in [Clients -> {"none", "idle", "resolving", "connecting", "connected"}]
        /\ handlers' \in [Clients -> SUBSET {"read", "write"}]
        /\ m_state'[c] = "connecting" /\ handlers'[c] = {"write"}
        /\ \A d \in Clients \ {c} : m_state'[d] = m_state[d] /\ handlers'[d] = handlers[d]
    BY <1>2 DEF StackInvariant, StackTyped
  <2>2. /\ timers' \in [Clients -> SUBSET {"connect", "on-connect", "connection",
                                            "delete", "watchdog", "request"}]
        /\ timers'[c] = r /\ \A d \in Clients \ {c} : timers'[d] = timers[d]
        /\ UNCHANGED <<m_done, m_ptr, reconnect, quit>> /\ SessionInvariant'
    BY <1>1, <1>2, <2>1, GoesOnSession
  <2>3. SocketAt(c)'
    BY <1>1, <2>1, <2>2 DEF SocketAt, Exists, Dying
  <2>4. SocketInvariant'
    BY <2>1, <2>2, <2>3, OtherSockets
  <2> QED  BY <2>1, <2>2, <2>4 DEF StackInvariant, StackTyped, FlagsTyped
<1>3. CASE m_state' = [m_state EXCEPT ![c] = "connecting"] /\ GoesOn(c, go)
           /\ UNCHANGED handlers
  <2>1. /\ m_state' \in [Clients -> {"none", "idle", "resolving", "connecting", "connected"}]
        /\ m_state'[c] = "connecting"
        /\ \A d \in Clients \ {c} : m_state'[d] = m_state[d]
    BY <1>3 DEF StackInvariant, StackTyped
  <2>2. /\ timers' \in [Clients -> SUBSET {"connect", "on-connect", "connection",
                                            "delete", "watchdog", "request"}]
        /\ timers'[c] = go /\ \A d \in Clients \ {c} : timers'[d] = timers[d]
        /\ UNCHANGED <<m_done, m_ptr, reconnect, quit>> /\ SessionInvariant'
    BY <1>1, <1>3, <2>1, GoesOnSession
  <2>3. SocketAt(c)'
    BY <1>1, <1>3, <2>1, <2>2 DEF SocketAt, Exists, Dying
  <2>4. SocketInvariant'
    BY <1>3, <2>1, <2>2, <2>3, OtherSockets
  <2> QED  BY <1>3, <2>1, <2>2, <2>4 DEF StackInvariant, StackTyped, FlagsTyped
<1>4. CASE m_state' = [m_state EXCEPT ![c] = "idle"] /\ UNCHANGED handlers
           /\ DoDelete(c, r, "connect failure")
  <2>1. /\ m_state' \in [Clients -> {"none", "idle", "resolving", "connecting", "connected"}]
        /\ m_state'[c] = "idle"
        /\ \A d \in Clients \ {c} : m_state'[d] = m_state[d]
    BY <1>4 DEF StackInvariant, StackTyped
  <2>2. /\ timers' \in [Clients -> SUBSET {"connect", "on-connect", "connection",
                                            "delete", "watchdog", "request"}]
        /\ timers'[c] = Deleting(r) /\ \A d \in Clients \ {c} : timers'[d] = timers[d]
        /\ m_ptr' \in Clients \union {None}
        /\ m_done' \in [Clients -> BOOLEAN] /\ reconnect' \in BOOLEAN /\ quit' \in BOOLEAN
        /\ SessionInvariant'
    BY <1>1, <1>4, <2>1, DeleteSession
  <2>3. SocketAt(c)'
    BY <1>1, <1>4, <2>1, <2>2 DEF SocketAt, Exists, Dying, Deleting
  <2>4. SocketInvariant'
    BY <1>4, <2>1, <2>2, <2>3, OtherSockets
  <2> QED  BY <1>4, <2>1, <2>2, <2>4 DEF StackInvariant, StackTyped, FlagsTyped
<1> QED  BY <1>2, <1>3, <1>4 DEF StartConnecting

(* Callbacks that leave the connection in its state: they return, ... *)
LEMMA GoesOnStack ==
  ASSUME StackInvariant, ~quit, NEW c \in Clients, Exists(c),
         UNCHANGED <<option, m_once_connected, m_state, handlers, thread, peer>>,
         NEW r \in SUBSET {"connect", "on-connect", "connection", "delete",
                           "watchdog", "request"},
         "delete" \in r <=> Dying(c),
         "connect" \in r => "connect" \in timers[c],
         "connection" \in r => "connection" \in timers[c],
         m_state[c] = "connected" \/ r \subseteq timers[c],
         GoesOn(c, r)
  PROVE  StackInvariant'
<1>1. /\ timers' \in [Clients -> SUBSET {"connect", "on-connect", "connection",
                                          "delete", "watchdog", "request"}]
      /\ timers'[c] = r /\ \A d \in Clients \ {c} : timers'[d] = timers[d]
      /\ UNCHANGED <<m_done, m_ptr, reconnect, quit>> /\ SessionInvariant'
  BY GoesOnSession DEF Exists
<1>2. SocketAt(c)'
  BY <1>1 DEF SocketAt, Exists, Dying, StackInvariant, SocketInvariant
<1>3. SocketInvariant'
  BY <1>1, <1>2, OtherSockets
<1> QED  BY <1>1, <1>3 DEF StackInvariant, StackTyped, FlagsTyped

(* ... or the client is to be deleted. *)
LEMMA DeleteStack ==
  ASSUME StackInvariant, ~quit, NEW c \in Clients, Exists(c),
         UNCHANGED <<option, m_once_connected, m_state, thread, peer>>,
         handlers' \in [Clients -> SUBSET {"read", "write"}],
         handlers'[c] \subseteq handlers[c],
         \A d \in Clients \ {c} : handlers'[d] = handlers[d],
         NEW r \in SUBSET {"connect", "on-connect", "connection", "delete",
                           "watchdog", "request"},
         m_state[c] = "connected" \/ r \subseteq timers[c],
         NEW reason, m_state[c] = "resolving" => reason \notin Retryable,
         DoDelete(c, r, reason)
  PROVE  StackInvariant'
<1>1. /\ timers' \in [Clients -> SUBSET {"connect", "on-connect", "connection",
                                          "delete", "watchdog", "request"}]
      /\ timers'[c] = Deleting(r) /\ \A d \in Clients \ {c} : timers'[d] = timers[d]
      /\ m_ptr' \in Clients \union {None}
      /\ m_done' \in [Clients -> BOOLEAN] /\ reconnect' \in BOOLEAN /\ quit' \in BOOLEAN
      /\ reason \notin Retryable /\ ~Dying(c) => quit'
      /\ SessionInvariant'
  BY DeleteSession DEF Exists
<1>2. SocketAt(c)
  BY DEF StackInvariant, SocketInvariant
<1>3. m_state[c] = "resolving" => quit'
  BY <1>1, <1>2 DEF SocketAt
<1>4. SocketAt(c)'
  BY <1>1, <1>2, <1>3 DEF SocketAt, Exists, Dying, Deleting
<1>5. SocketInvariant'
  BY <1>1, <1>4, OtherSockets
<1> QED  BY <1>1, <1>5 DEF StackInvariant, StackTyped, FlagsTyped

(* A new connection, with the client alive or not any more, on which the   *)
(* program's first request is sent or not.                                 *)
LEMMA HasPeerStack ==
  ASSUME StackInvariant, ~quit, NEW c \in Clients, NEW other, HasPeer(c, other),
         GoesOn(c, AfterConnect(c)) \/ DoDelete(c, AfterConnect(c), "peer disconnected")
  PROVE  StackInvariant'
<1>1. /\ m_state[c] = "connecting" /\ Exists(c)
      /\ m_state' \in [Clients -> {"none", "idle", "resolving", "connecting", "connected"}]
      /\ handlers' \in [Clients -> SUBSET {"read", "write"}]
      /\ peer' \in [Clients -> {"none", "up", "silent", "closed"}]
      /\ m_state'[c] = "connected" /\ handlers'[c] = {"read"}
      /\ \A d \in Clients \ {c} :
           m_state'[d] = m_state[d] /\ handlers'[d] = handlers[d] /\ peer'[d] = peer[d]
      /\ UNCHANGED <<option, thread>>
  BY DEF HasPeer, ConnectEvent, Exists, StackInvariant, StackTyped
<1>2. m_once_connected' \in BOOLEAN
  BY DEF HasPeer, StackInvariant, FlagsTyped
<1>3. /\ AfterConnect(c) \in SUBSET {"connect", "on-connect", "connection", "delete",
                                     "watchdog", "request"}
      /\ AfterConnect(c) \subseteq timers[c]
      /\ "delete" \in AfterConnect(c) <=> Dying(c)
  BY DEF AfterConnect, Dying, StackInvariant, StackTyped
<1>4. /\ timers' \in [Clients -> SUBSET {"connect", "on-connect", "connection",
                                          "delete", "watchdog", "request"}]
      /\ \A d \in Clients \ {c} : timers'[d] = timers[d]
      /\ m_ptr' \in Clients \union {None} /\ SessionInvariant'
      /\ m_done' \in [Clients -> BOOLEAN] /\ reconnect' \in BOOLEAN /\ quit' \in BOOLEAN
  <2>1. CASE GoesOn(c, AfterConnect(c))
    <3>1. /\ timers' \in [Clients -> SUBSET {"connect", "on-connect", "connection",
                                              "delete", "watchdog", "request"}]
          /\ \A d \in Clients \ {c} : timers'[d] = timers[d]
          /\ UNCHANGED <<m_done, m_ptr, reconnect, quit>> /\ SessionInvariant'
      BY <1>1, <1>3, <2>1, GoesOnSession
    <3> QED  BY <3>1 DEF StackInvariant, StackTyped, FlagsTyped
  <2>2. CASE DoDelete(c, AfterConnect(c), "peer disconnected")
    BY <1>1, <1>3, <2>2, DeleteSession
  <2> QED  BY <2>1, <2>2
<1>5. SocketAt(c)'
  BY <1>1, <1>4 DEF SocketAt, Exists, StackInvariant, SocketInvariant
<1>6. SocketInvariant'
  BY <1>1, <1>4, <1>5, OtherSockets
<1> QED  BY <1>1, <1>2, <1>4, <1>6 DEF StackInvariant, StackTyped, FlagsTyped

-----------------------------------------------------------------------------
(* The actions. *)

LEMMA ConnectTimerStack ==
  ASSUME StackInvariant, NEW c \in Clients, ConnectTimer(c)
  PROVE  StackInvariant'
<1> DEFINE timersLeft == timers[c] \ {"connect"}
<1>1. /\ ~quit /\ "connect" \in timers[c] /\ m_state[c] = "idle" /\ Exists(c) /\ ~Dying(c)
      /\ UNCHANGED <<option, m_once_connected, peer>>
  BY DEF ConnectTimer, Running, OnConnectTimer, Exists, Dying,
         StackInvariant, SessionInvariant, SessionAt
<1>2. /\ timersLeft \in SUBSET timers[c] /\ "delete" \notin timersLeft
      /\ timersLeft \in SUBSET {"connect", "on-connect", "connection", "delete",
                             "watchdog", "request"}
  BY <1>1 DEF Dying, StackInvariant, StackTyped
<1>3. thread[c] \notin {"running", "sent"}
  BY <1>1 DEF StackInvariant, SocketInvariant, SocketAt
<1>4. CASE option.named
  <2>1. /\ m_state' = [m_state EXCEPT ![c] = "resolving"]
        /\ thread' = [thread EXCEPT ![c] = "running"]
        /\ UNCHANGED handlers /\ GoesOn(c, timersLeft)
    BY <1>4 DEF ConnectTimer, OnConnectTimer
  <2>2. /\ m_state' \in [Clients -> {"none", "idle", "resolving", "connecting", "connected"}]
        /\ thread' \in [Clients -> {"none", "running", "sent", "joined"}]
        /\ m_state'[c] = "resolving" /\ thread'[c] = "running"
        /\ \A d \in Clients \ {c} : m_state'[d] = m_state[d] /\ thread'[d] = thread[d]
    BY <2>1 DEF StackInvariant, StackTyped
  <2>3. /\ timers' \in [Clients -> SUBSET {"connect", "on-connect", "connection",
                                            "delete", "watchdog", "request"}]
        /\ timers'[c] = timersLeft /\ \A d \in Clients \ {c} : timers'[d] = timers[d]
        /\ UNCHANGED <<m_done, m_ptr, reconnect, quit>> /\ SessionInvariant'
    BY <1>1, <1>2, <2>1, <2>2, GoesOnSession DEF Dying
  <2>4. SocketAt(c)'
    BY <1>1, <2>1, <2>2, <2>3 DEF SocketAt, Exists, Dying, StackInvariant, SocketInvariant
  <2>5. SocketInvariant'
    BY <1>1, <2>1, <2>2, <2>3, <2>4, OtherSockets
  <2> QED  BY <1>1, <2>1, <2>2, <2>3, <2>5 DEF StackInvariant, StackTyped, FlagsTyped
<1>5. CASE ~option.named
  <2>1. UNCHANGED thread /\ StartConnecting(c, timersLeft)
    BY <1>5 DEF ConnectTimer, OnConnectTimer
  <2>2. thread' \in [Clients -> {"none", "running", "sent", "joined"}]
    BY <2>1 DEF StackInvariant, StackTyped
  <2> QED
    BY <1>1, <1>2, <1>3, <2>1, <2>2, StartConnectingStack DEF Dying
<1> QED  BY <1>4, <1>5

LEMMA FutureEventStack ==
  ASSUME StackInvariant, NEW c \in Clients, FutureEvent(c)
  PROVE  StackInvariant'
<1>1. /\ ~quit /\ thread[c] = "sent" /\ thread' = [thread EXCEPT ![c] = "joined"]
      /\ UNCHANGED <<option, m_once_connected, peer>>
  BY DEF FutureEvent, Running, OnFutureEvent
<1>2. m_state[c] = "resolving" /\ Exists(c) /\ ~Dying(c)
  BY <1>1 DEF Exists, StackInvariant, SocketInvariant, SocketAt
<1>3. /\ thread' \in [Clients -> {"none", "running", "sent", "joined"}]
      /\ thread'[c] = "joined" /\ \A d \in Clients \ {c} : thread'[d] = thread[d]
  BY <1>1 DEF StackInvariant, StackTyped
<1>4. CASE StartConnecting(c, timers[c])
  BY <1>1, <1>2, <1>3, <1>4, StartConnectingStack DEF Dying
<1>5. CASE /\ m_state' = [m_state EXCEPT ![c] = "idle"] /\ UNCHANGED handlers
           /\ DoDelete(c, timers[c], "dns error")
  <2>1. /\ m_state' \in [Clients -> {"none", "idle", "resolving", "connecting", "connected"}]
        /\ m_state'[c] = "idle"
        /\ \A d \in Clients \ {c} : m_state'[d] = m_state[d]
        /\ timers[c] \in SUBSET {"connect", "on-connect", "connection", "delete",
                                 "watchdog", "request"}
    BY <1>5 DEF StackInvariant, StackTyped
  <2>2. /\ timers' \in [Clients -> SUBSET {"connect", "on-connect", "connection",
                                            "delete", "watchdog", "request"}]
        /\ timers'[c] = Deleting(timers[c]) /\ \A d \in Clients \ {c} : timers'[d] = timers[d]
        /\ m_ptr' \in Clients \union {None}
        /\ m_done' \in [Clients -> BOOLEAN] /\ reconnect' \in BOOLEAN /\ quit' \in BOOLEAN
        /\ SessionInvariant'
    BY <1>1, <1>2, <1>5, <2>1, DeleteSession
  <2>3. SocketAt(c)'
    BY <1>1, <1>2, <1>3, <1>5, <2>1, <2>2
       DEF SocketAt, Exists, Dying, Deleting, StackInvariant, SocketInvariant
  <2>4. SocketInvariant'
    BY <1>1, <1>3, <1>5, <2>1, <2>2, <2>3, OtherSockets
  <2> QED
    BY <1>1, <1>3, <1>5, <2>1, <2>2, <2>4 DEF StackInvariant, StackTyped, FlagsTyped
<1> QED  BY <1>4, <1>5 DEF FutureEvent, OnFutureEvent

LEMMA ConnectStack ==
  ASSUME StackInvariant, NEW c \in Clients, Connect(c)
  PROVE  StackInvariant'
<1>1. ~quit /\ \E other \in {"up", "closed"} : HasPeer(c, other)
  BY DEF Connect, Running, HttpOnConnect, RtspOnConnect
<1>2. GoesOn(c, AfterConnect(c)) \/ DoDelete(c, AfterConnect(c), "peer disconnected")
  BY DEF Connect, HttpOnConnect, Asks, RtspOnConnect, Requests
<1> QED  BY <1>1, <1>2, HasPeerStack

LEMMA ConnectFailureStack ==
  ASSUME StackInvariant, NEW c \in Clients, ConnectFailure(c)
  PROVE  StackInvariant'
<1> DEFINE timersLeft == timers[c] \ {"on-connect"}
<1>1. /\ ~quit /\ m_state[c] = "connecting" /\ Exists(c)
      /\ handlers' = [handlers EXCEPT ![c] = {}]
      /\ UNCHANGED <<option, m_once_connected, m_state, thread, peer>>
      /\ DoDelete(c, timersLeft, "connect failure")
  BY DEF ConnectFailure, Running, OnConnectFailure, ConnectEvent, Exists
<1>2. /\ handlers' \in [Clients -> SUBSET {"read", "write"}]
      /\ handlers'[c] \subseteq handlers[c]
      /\ \A d \in Clients \ {c} : handlers'[d] = handlers[d]
      /\ timersLeft \in SUBSET {"connect", "on-connect", "connection", "delete",
                             "watchdog", "request"}
      /\ timersLeft \subseteq timers[c]
  BY <1>1 DEF StackInvariant, StackTyped
<1> HIDE DEF timersLeft
<1> QED  BY <1>1, <1>2, DeleteStack

LEMMA ConnectionTimeoutStack ==
  ASSUME StackInvariant, NEW c \in Clients, ConnectionTimeout(c)
  PROVE  StackInvariant'
<1> DEFINE timersLeft == timers[c] \ {"connection"}
<1>1. /\ ~quit /\ "connection" \in timers[c]
      /\ UNCHANGED <<option, m_once_connected, m_state, handlers, thread, peer>>
      /\ DoDelete(c, timersLeft, "connection timeout")
  BY DEF ConnectionTimeout, Running, OnConnectionTimeout, sockets
<1>2. Exists(c)
  BY <1>1 DEF StackInvariant, SessionInvariant, SessionAt
<1>3. /\ handlers' \in [Clients -> SUBSET {"read", "write"}]
      /\ handlers'[c] \subseteq handlers[c]
      /\ \A d \in Clients \ {c} : handlers'[d] = handlers[d]
      /\ timersLeft \in SUBSET {"connect", "on-connect", "connection", "delete",
                             "watchdog", "request"}
      /\ timersLeft \subseteq timers[c]
  BY <1>1 DEF StackInvariant, StackTyped
<1>4. "connection timeout" \notin Retryable
  BY DEF Retryable
<1> HIDE DEF timersLeft
<1> QED  BY <1>1, <1>2, <1>3, <1>4, DeleteStack

LEMMA ReconnectStack ==
  ASSUME StackInvariant, NEW c \in Clients, Reconnect(c)
  PROVE  StackInvariant'
<1>1. /\ ~quit /\ reconnect /\ reconnect' = FALSE /\ m_state[c] = "none" /\ thread[c] = "none"
      /\ m_ptr' = c /\ m_state' = [m_state EXCEPT ![c] = "idle"]
      /\ UNCHANGED <<option, m_once_connected, quit, handlers, thread, peer>>
  BY DEF Reconnect, Running, OnReconnect, Free
<1>2. m_ptr = None
  BY <1>1 DEF StackInvariant, SessionInvariant, HolderKnows
<1>3. /\ timers' = [timers EXCEPT ![c] = NewTimers]
      /\ NewTimers \in SUBSET {"connect", "on-connect", "connection", "delete",
                               "watchdog", "request"}
      /\ NewTimers \subseteq {"connect", "connection"}
  <2>1. \A d \in Clients : d # m_ptr
    BY <1>2, StackAssumption
  <2> QED  BY <2>1 DEF Reconnect, OnReconnect, NewTimers, StackInvariant, StackTyped
<1>4. /\ timers' \in [Clients -> SUBSET {"connect", "on-connect", "connection",
                                          "delete", "watchdog", "request"}]
      /\ timers'[c] = NewTimers /\ \A d \in Clients \ {c} : timers'[d] = timers[d]
  BY <1>3, RunningTimers DEF StackInvariant
<1>5. /\ m_done' \in [Clients -> BOOLEAN] /\ ~m_done'[c]
      /\ \A d \in Clients \ {c} : m_done'[d] <=> m_done[d]
  <2>1. m_done' = [d \in Clients |-> d # c /\ (m_done[d] \/ d = m_ptr)]
    BY DEF Reconnect, OnReconnect
  <2>2. \A d \in Clients : d # m_ptr
    BY <1>2, StackAssumption
  <2> QED  BY <2>1, <2>2 DEF StackInvariant, FlagsTyped
<1>6. /\ m_state' \in [Clients -> {"none", "idle", "resolving", "connecting", "connected"}]
      /\ m_state'[c] = "idle" /\ \A d \in Clients \ {c} : m_state'[d] = m_state[d]
  BY <1>1 DEF StackInvariant, StackTyped
<1>7. ASSUME NEW d \in Clients PROVE SessionAt(d)'
  <2>1. CASE d = c
    BY <1>1, <1>3, <1>4, <1>5, <1>6, <2>1 DEF SessionAt, Exists, Dying
  <2>2. CASE d # c
    <3>1. m_ptr' # d /\ m_ptr # d
      BY <1>1, <1>2, <2>2, StackAssumption
    <3> QED
      BY <1>4, <1>5, <1>6, <2>2, <3>1
         DEF SessionAt, Exists, Dying, StackInvariant, SessionInvariant
  <2> QED  BY <2>1, <2>2
<1>8. HolderKnows'
  BY <1>1, <1>6, StackAssumption DEF HolderKnows, Exists
<1>9. SocketAt(c)'
  BY <1>1, <1>3, <1>4, <1>6 DEF SocketAt, Exists, Dying, StackInvariant, SocketInvariant
<1>10. SocketInvariant'
  BY <1>1, <1>4, <1>6, <1>9, OtherSockets
<1>11. StackTyped'
  BY <1>1, <1>4, <1>6 DEF StackInvariant, StackTyped
<1>12. FlagsTyped'
  BY <1>1, <1>5 DEF StackInvariant, FlagsTyped
<1> QED
  BY <1>7, <1>8, <1>10, <1>11, <1>12 DEF StackInvariant, SessionInvariant

LEMMA DeletionTimeoutStack ==
  ASSUME StackInvariant, NEW c \in Clients, DeletionTimeout(c)
  PROVE  StackInvariant'
<1>1. /\ ~quit /\ "delete" \in timers[c]
      /\ m_state' = [m_state EXCEPT ![c] = "none"]
      /\ handlers' = [handlers EXCEPT ![c] = {}]
      /\ thread' = [thread EXCEPT ![c] = IF @ = "running" THEN @ ELSE "none"]
      /\ peer' = [peer EXCEPT ![c] = "none"]
      /\ timers' = [timers EXCEPT ![c] = {}]
      /\ UNCHANGED <<option, m_once_connected, m_done, m_ptr, reconnect, quit>>
  BY DEF DeletionTimeout, Running, OnDeletionTimeout, GoesOn
<1>2. Exists(c) /\ m_ptr # c /\ thread[c] # "running"
  BY <1>1
     DEF StackInvariant, SessionInvariant, SessionAt, SocketInvariant, SocketAt, Exists, Dying
<1>3. /\ m_state' \in [Clients -> {"none", "idle", "resolving", "connecting", "connected"}]
      /\ handlers' \in [Clients -> SUBSET {"read", "write"}]
      /\ timers' \in [Clients -> SUBSET {"connect", "on-connect", "connection",
                                          "delete", "watchdog", "request"}]
      /\ m_state'[c] = "none" /\ handlers'[c] = {} /\ timers'[c] = {}
      /\ \A d \in Clients \ {c} : /\ m_state'[d] = m_state[d] /\ handlers'[d] = handlers[d]
                                 /\ timers'[d] = timers[d]
  BY <1>1 DEF StackInvariant, StackTyped
<1>4. /\ thread' \in [Clients -> {"none", "running", "sent", "joined"}]
      /\ peer' \in [Clients -> {"none", "up", "silent", "closed"}]
      /\ thread'[c] = "none" /\ peer'[c] = "none"
      /\ \A d \in Clients \ {c} : thread'[d] = thread[d] /\ peer'[d] = peer[d]
  BY <1>1, <1>2 DEF StackInvariant, StackTyped
<1>5. ASSUME NEW d \in Clients PROVE SessionAt(d)'
  BY <1>1, <1>3 DEF SessionAt, Exists, Dying, StackInvariant, SessionInvariant
<1>6. HolderKnows'
  BY <1>1, <1>2, <1>3
     DEF HolderKnows, Exists, StackInvariant, SessionInvariant, StackTyped
<1>7. SocketAt(c)'
  BY <1>1, <1>3, <1>4 DEF SocketAt, Exists, Dying
<1>8. SocketInvariant'
  BY <1>1, <1>3, <1>4, <1>7, OtherSockets
<1> QED
  BY <1>1, <1>3, <1>4, <1>5, <1>6, <1>8
     DEF StackInvariant, StackTyped, FlagsTyped, SessionInvariant

(* A callback of a client that is connected. *)
LEMMA ConnectedGoesOn ==
  ASSUME StackInvariant, ~quit, NEW c \in Clients, m_state[c] = "connected",
         UNCHANGED <<option, m_once_connected, m_state, handlers, thread, peer>>,
         NEW r, GoesOn(c, r),
         r \subseteq timers[c] \union {"watchdog", "request"},
         "delete" \in timers[c] => "delete" \in r
  PROVE  StackInvariant'
<1>1. r \in SUBSET {"connect", "on-connect", "connection", "delete",
                    "watchdog", "request"}
  BY DEF StackInvariant, StackTyped
<1> QED  BY <1>1, GoesOnStack DEF Exists, Dying

LEMMA ConnectedDelete ==
  ASSUME StackInvariant, ~quit, NEW c \in Clients, m_state[c] = "connected",
         UNCHANGED <<option, m_once_connected, m_state, handlers, thread, peer>>,
         NEW r, NEW reason, DoDelete(c, r, reason),
         r \subseteq timers[c] \union {"watchdog", "request"}
  PROVE  StackInvariant'
<1>1. /\ r \in SUBSET {"connect", "on-connect", "connection", "delete",
                       "watchdog", "request"}
      /\ handlers' \in [Clients -> SUBSET {"read", "write"}]
      /\ handlers'[c] \subseteq handlers[c]
      /\ \A d \in Clients \ {c} : handlers'[d] = handlers[d]
  BY DEF StackInvariant, StackTyped
<1> QED  BY <1>1, DeleteStack DEF Exists

(* What the programs do with what they read. *)
LEMMA HttpOnDataSteps ==
  ASSUME NEW c \in Clients, HttpOnData(c)
  PROVE  \E r \in {Watched(c), Watched(c) \union {"request"}} :
           GoesOn(c, r) \/ \E reason : DoDelete(c, r, reason)
<1>1. PICK items \in 1 .. Len(inbox[c]) :
        \E data \in {m_parser[c] \o SubSeq(inbox[c], 1, items)} :
          ProcessData(c, data, Watched(c))
  BY DEF HttpOnData
<1>2. PICK data : ProcessData(c, data, Watched(c))
  BY <1>1
<1>3. CASE Unauthorised(c, data, Watched(c))
  BY <1>3 DEF Unauthorised, Fails, Asks
<1> QED  BY <1>2, <1>3 DEF ProcessData, Fails

LEMMA RtspOnDataSteps ==
  ASSUME NEW c \in Clients, RtspOnData(c)
  PROVE  GoesOn(c, timers[c]) \/ \E reason : DoDelete(c, timers[c], reason)
<1>1. CASE Refuses(c, Head(inbox[c]))
  BY <1>1 DEF Refuses
<1>2. CASE Accepts(c, Head(inbox[c]))
  BY <1>2 DEF Accepts, Requests
<1> QED  BY <1>1, <1>2 DEF RtspOnData

LEMMA ReadStack ==
  ASSUME StackInvariant, NEW c \in Clients, Read(c)
  PROVE  StackInvariant'
<1>1. /\ ~quit /\ "read" \in handlers[c]
      /\ UNCHANGED <<option, m_once_connected, m_state, handlers, thread, peer>>
  BY DEF Read, Running, HttpOnData, RtspOnData, Reads, ReadEnd, sockets
<1>2. m_state[c] = "connected"
  BY <1>1 DEF StackInvariant, SocketInvariant, SocketAt
<1>3. CASE HttpOnData(c)
  <2>1. PICK r \in {Watched(c), Watched(c) \union {"request"}} :
          GoesOn(c, r) \/ \E reason : DoDelete(c, r, reason)
    BY <1>3, HttpOnDataSteps
  <2>2. /\ r \subseteq timers[c] \union {"watchdog", "request"}
        /\ "delete" \in timers[c] => "delete" \in r
    BY DEF Watched
  <2>3. CASE GoesOn(c, r)
    BY <1>1, <1>2, <2>2, <2>3, ConnectedGoesOn
  <2>4. ASSUME NEW reason, DoDelete(c, r, reason) PROVE StackInvariant'
    BY <1>1, <1>2, <2>2, <2>4, ConnectedDelete
  <2> QED  BY <2>1, <2>3, <2>4
<1>4. CASE RtspOnData(c)
  <2>1. GoesOn(c, timers[c]) \/ \E reason : DoDelete(c, timers[c], reason)
    BY <1>4, RtspOnDataSteps
  <2>2. timers[c] \subseteq timers[c] \union {"watchdog", "request"}
    OBVIOUS
  <2>3. CASE GoesOn(c, timers[c])
    BY <1>1, <1>2, <2>2, <2>3, ConnectedGoesOn
  <2>4. ASSUME NEW reason, DoDelete(c, timers[c], reason) PROVE StackInvariant'
    BY <1>1, <1>2, <2>2, <2>4, ConnectedDelete
  <2> QED  BY <2>1, <2>3, <2>4
<1>5. CASE ReadEnd(c)
  <2>1. DoDelete(c, timers[c], "peer disconnected")
    BY <1>5 DEF ReadEnd
  <2>2. timers[c] \subseteq timers[c] \union {"watchdog", "request"}
    OBVIOUS
  <2> QED  BY <1>1, <1>2, <2>1, <2>2, ConnectedDelete
<1> QED  BY <1>3, <1>4, <1>5 DEF Read

LEMMA TimeoutsStack ==
  ASSUME StackInvariant, NEW c \in Clients, RequestTimeout(c) \/ WatchdogTimeout(c)
  PROVE  StackInvariant'
<1>1. /\ ~quit
      /\ "request" \in timers[c] \/ "watchdog" \in timers[c]
      /\ UNCHANGED <<option, m_once_connected, m_state, handlers, thread, peer>>
  BY DEF RequestTimeout, WatchdogTimeout, Running, OnRequestTimeout, OnWatchdogTimeout, sockets
<1>2. m_state[c] = "connected"
  BY <1>1 DEF StackInvariant, SocketInvariant, SocketAt
<1>3. PICK r \in {timers[c] \ {"request"}, timers[c] \ {"watchdog"}} :
        GoesOn(c, r) \/ \E reason : DoDelete(c, r, reason)
  BY DEF RequestTimeout, WatchdogTimeout, OnRequestTimeout, OnWatchdogTimeout, Asks
<1>4. /\ r \subseteq timers[c] \union {"watchdog", "request"}
      /\ "delete" \in timers[c] => "delete" \in r
  OBVIOUS
<1>5. CASE GoesOn(c, r)
  BY <1>1, <1>2, <1>4, <1>5, ConnectedGoesOn
<1>6. ASSUME NEW reason, DoDelete(c, r, reason) PROVE StackInvariant'
  BY <1>1, <1>2, <1>4, <1>6, ConnectedDelete
<1> QED  BY <1>3, <1>5, <1>6

LEMMA LookupStack ==
  ASSUME StackInvariant, NEW c \in Clients, Lookup(c)
  PROVE  StackInvariant'
<1>1. /\ thread[c] = "running" /\ thread' = [thread EXCEPT ![c] = "sent"]
      /\ UNCHANGED <<option, m_once_connected, session, m_state, handlers, peer>>
  BY DEF Lookup, ThreadEnds
<1>2. /\ thread' \in [Clients -> {"none", "running", "sent", "joined"}]
      /\ thread'[c] = "sent" /\ \A d \in Clients \ {c} : thread'[d] = thread[d]
  BY <1>1 DEF StackInvariant, StackTyped
<1>3. SocketAt(c)'
  BY <1>1, <1>2 DEF SocketAt, Exists, Dying, StackInvariant, SocketInvariant, session
<1>4. SocketInvariant'
  BY <1>1, <1>2, <1>3, OtherSockets DEF session
<1>5. SessionInvariant'
  BY <1>1
     DEF session, StackInvariant, SessionInvariant, SessionAt, HolderKnows, Exists, Dying
<1> QED  BY <1>1, <1>2, <1>4, <1>5 DEF session, StackInvariant, StackTyped, FlagsTyped

LEMMA ServerStack ==
  ASSUME StackInvariant, NEW c \in Clients, Server(c)
  PROVE  StackInvariant'
<1>1. /\ peer[c] = "up"
      /\ UNCHANGED <<option, m_once_connected, session, m_state, handlers, thread>>
      /\ UNCHANGED peer
         \/ \E how \in {"closed", "silent"} : peer' = [peer EXCEPT ![c] = how]
  BY DEF Server, HttpServes, RtspServes, Delivers, PeerLeaves
<1>2. /\ peer' \in [Clients -> {"none", "up", "silent", "closed"}]
      /\ \A d \in Clients \ {c} : peer'[d] = peer[d]
  BY <1>1 DEF StackInvariant, StackTyped
<1>3. SocketAt(c)'
  BY <1>1, <1>2 DEF SocketAt, Exists, Dying, StackInvariant, SocketInvariant, session
<1>4. SocketInvariant'
  BY <1>1, <1>2, <1>3, OtherSockets DEF session
<1>5. SessionInvariant'
  BY <1>1
     DEF session, StackInvariant, SessionInvariant, SessionAt, HolderKnows, Exists, Dying
<1> QED  BY <1>1, <1>2, <1>4, <1>5 DEF session, StackInvariant, StackTyped, FlagsTyped

LEMMA StackKept ==
  ASSUME StackInvariant, [Next]_vars
  PROVE  StackInvariant'
<1>1. CASE UNCHANGED vars
  BY <1>1
     DEF vars, session, sockets, StackInvariant, StackTyped, FlagsTyped, SessionInvariant,
         SessionAt, HolderKnows, SocketInvariant, SocketAt, Exists, Dying
<1>2. ASSUME NEW c \in Clients, Callback(c) \/ Lookup(c) \/ Server(c)
      PROVE  StackInvariant'
  BY <1>2, ConnectTimerStack, FutureEventStack, ConnectStack, ConnectFailureStack,
     ConnectionTimeoutStack, ReconnectStack, DeletionTimeoutStack, ReadStack,
     TimeoutsStack, LookupStack, ServerStack DEF Callback, Connecting
<1> QED  BY <1>1, <1>2 DEF Next

LEMMA StackStarts ==
  ASSUME Init
  PROVE  StackInvariant
<1>1. PICK first \in Clients :
        /\ m_state = [c \in Clients |-> IF c = first THEN "idle" ELSE "none"]
        /\ timers = [c \in Clients |-> IF c = first THEN NewTimers ELSE {}]
        /\ m_ptr = first
  BY DEF Init, StackInit
<1>2. /\ handlers = [c \in Clients |-> {}]
      /\ thread = [c \in Clients |-> "none"]
      /\ peer = [c \in Clients |-> "none"]
      /\ option \in Options
  BY DEF Init, StackInit
<1>3. /\ m_done = [c \in Clients |-> FALSE] /\ ~reconnect /\ ~quit
      /\ reconnect \in BOOLEAN /\ m_once_connected \in BOOLEAN /\ quit \in BOOLEAN
  BY DEF Init, StackInit
<1>4. NewTimers \subseteq {"connect", "connection"}
  BY DEF NewTimers
<1>5. StackTyped
  BY <1>1, <1>2, <1>4 DEF StackTyped
<1>6. FlagsTyped
  BY <1>3 DEF FlagsTyped
<1>7. HolderKnows
  BY <1>1, <1>3, StackAssumption DEF HolderKnows, Exists
<1>8. \A c \in Clients : SessionAt(c) /\ SocketAt(c)
  BY <1>1, <1>2, <1>3, <1>4 DEF SessionAt, SocketAt, Exists, Dying
<1> QED
  BY <1>5, <1>6, <1>7, <1>8 DEF StackInvariant, SessionInvariant, SocketInvariant

-----------------------------------------------------------------------------
(* The data of a connection: what the parser keeps and what follows it. *)

HttpItem == [kind : Answers \union {"part"}, n : Nat]
Data(c)  == m_parser[c] \o inbox[c]

(* There is one answer at most, at the head; a stream's parts follow it.   *)
(* The numbers rise up to the last, and are all above what has been shown, *)
(* the head of a stream excepted.                                          *)
DataOK(data, last, seen) ==
  /\ data \in Seq(HttpItem) /\ seen \in Seq(Nat)
  /\ data # <<>> => data[1].kind \in Answers
  /\ \A i \in DOMAIN data : i > 1 => data[i].kind = "part" /\ data[1].kind = "stream"
  /\ \A i, j \in DOMAIN data : i < j => data[i].n < data[j].n
  /\ \A i \in DOMAIN data : data[i].n <= last
  /\ \A i \in DOMAIN data : data[i].kind # "stream" =>
       \A j \in DOMAIN seen : seen[j] < data[i].n
  /\ \A i, j \in DOMAIN seen : i < j => seen[i] < seen[j]
  /\ \A j \in DOMAIN seen : seen[j] <= last

LEMMA ConcatAt ==
  ASSUME NEW S, NEW s \in Seq(S), NEW t \in Seq(S)
  PROVE  /\ s \o t \in Seq(S) /\ Len(s \o t) = Len(s) + Len(t)
         /\ \A i \in 1 .. Len(s) : (s \o t)[i] = s[i]
         /\ \A i \in 1 .. Len(t) : (s \o t)[Len(s) + i] = t[i]
         /\ Len(s) \in Nat /\ Len(t) \in Nat
<1>1. Len(s) \in Nat /\ Len(t) \in Nat
  BY LenProperties
<1>2. /\ s \o t \in Seq(S) /\ Len(s \o t) = Len(s) + Len(t)
      /\ \A i \in 1 .. Len(s) + Len(t) :
           (s \o t)[i] = IF i <= Len(s) THEN s[i] ELSE t[i - Len(s)]
  BY ConcatProperties
<1> QED  BY <1>1, <1>2

LEMMA ConcatDomain ==
  ASSUME NEW S, NEW s \in Seq(S), NEW t \in Seq(S)
  PROVE  /\ \A i \in DOMAIN s : i \in DOMAIN (s \o t) /\ (s \o t)[i] = s[i]
         /\ \A i \in DOMAIN t : /\ Len(s) + i \in DOMAIN (s \o t)
                               /\ (s \o t)[Len(s) + i] = t[i]
<1>1. /\ s \o t \in Seq(S) /\ Len(s \o t) = Len(s) + Len(t)
      /\ Len(s) \in Nat /\ Len(t) \in Nat
  BY ConcatAt
<1>2. /\ \A i \in 1 .. Len(s) : (s \o t)[i] = s[i]
      /\ \A i \in 1 .. Len(t) : (s \o t)[Len(s) + i] = t[i]
  BY ConcatAt
<1>3. DOMAIN (s \o t) = 1 .. Len(s) + Len(t) /\ DOMAIN s = 1 .. Len(s) /\ DOMAIN t = 1 .. Len(t)
  BY <1>1, LenProperties
<1>4. \A i \in 1 .. Len(s) : i \in 1 .. Len(s) + Len(t)
  BY <1>1
<1>5. \A i \in 1 .. Len(t) : Len(s) + i \in 1 .. Len(s) + Len(t)
  BY <1>1
<1> QED  BY <1>2, <1>3, <1>4, <1>5

LEMMA EmptyDomain ==
  ASSUME NEW S, NEW s \in Seq(S), DOMAIN s = {}
  PROVE  s = <<>>
<1>1. Len(s) \in Nat /\ 1 .. Len(s) = {}
  BY LenProperties
<1>2. 1 \notin 1 .. Len(s)
  BY <1>1
<1>3. ~(Len(s) >= 1)
  BY <1>1, <1>2
<1> QED  BY <1>1, <1>3, EmptySeq

(* However much of it is read, the data stay what they are. *)
LEMMA ReadPart ==
  ASSUME NEW S, NEW p \in Seq(S), NEW q \in Seq(S), NEW k \in 1 .. Len(q)
  PROVE  /\ p \o SubSeq(q, 1, k) \in Seq(S) /\ SubSeq(q, k + 1, Len(q)) \in Seq(S)
         /\ Len(p \o SubSeq(q, 1, k)) >= 1
         /\ (p \o SubSeq(q, 1, k)) \o SubSeq(q, k + 1, Len(q)) = p \o q
<1> DEFINE first == SubSeq(q, 1, k)
           rest == SubSeq(q, k + 1, Len(q))
<1>1. Len(q) \in Nat /\ Len(p) \in Nat /\ k \in Nat /\ k + 1 \in Int /\ Len(q) \in Int
      /\ \A i \in 1 .. Len(q) : q[i] \in S
  BY LenProperties, ElementOfSeq
<1>2. /\ first \in Seq(S) /\ Len(first) = k
      /\ \A i \in 1 .. k : first[i] = q[i]
  <2>1. \A i \in 1 .. k : q[i] \in S
    BY <1>1
  <2> QED  BY <1>1, <2>1, SubSeqProperties
<1>3. /\ rest \in Seq(S) /\ Len(rest) = Len(q) - k
      /\ \A i \in 1 .. Len(q) - k : rest[i] = q[k + i]
  <2>1. \A i \in k + 1 .. Len(q) : q[i] \in S
    BY <1>1
  <2>2. /\ rest \in Seq(S) /\ Len(rest) = IF k + 1 <= Len(q) THEN Len(q) - (k + 1) + 1 ELSE 0
        /\ \A i \in 1 .. Len(q) - (k + 1) + 1 : rest[i] = q[k + 1 + i - 1]
    BY <1>1, <2>1, SubSeqProperties
  <2> QED  BY <1>1, <2>2
<1> HIDE DEF first, rest
<1> DEFINE data == p \o first
<1>4. /\ data \in Seq(S) /\ Len(data) = Len(p) + k
      /\ \A i \in 1 .. Len(p) : data[i] = p[i]
      /\ \A i \in 1 .. k : data[Len(p) + i] = q[i]
  <2>1. first \in Seq(S)
    BY <1>2
  <2>2. /\ data \in Seq(S) /\ Len(data) = Len(p) + Len(first)
        /\ \A i \in 1 .. Len(p) : data[i] = p[i]
        /\ \A i \in 1 .. Len(first) : data[Len(p) + i] = first[i]
    BY <2>1, ConcatAt
  <2> HIDE DEF data
  <2> QED  BY <1>2, <2>2
<1> HIDE DEF data
<1>5. /\ data \o rest \in Seq(S) /\ Len(data \o rest) = Len(p) + k + Len(rest)
      /\ \A i \in 1 .. Len(data) : (data \o rest)[i] = data[i]
      /\ \A i \in 1 .. Len(rest) : (data \o rest)[Len(data) + i] = rest[i]
  <2>1. data \in Seq(S) /\ rest \in Seq(S)
    BY <1>3, <1>4
  <2>2. /\ data \o rest \in Seq(S) /\ Len(data \o rest) = Len(data) + Len(rest)
        /\ \A i \in 1 .. Len(data) : (data \o rest)[i] = data[i]
        /\ \A i \in 1 .. Len(rest) : (data \o rest)[Len(data) + i] = rest[i]
    BY <2>1, ConcatAt
  <2> QED  BY <1>4, <2>2
<1>6. /\ p \o q \in Seq(S) /\ Len(p \o q) = Len(p) + Len(q)
      /\ \A i \in 1 .. Len(p) : (p \o q)[i] = p[i]
      /\ \A i \in 1 .. Len(q) : (p \o q)[Len(p) + i] = q[i]
  BY ConcatAt
<1>7. Len(data \o rest) = Len(p \o q)
  BY <1>1, <1>3, <1>5, <1>6
<1>8. ASSUME NEW i \in 1 .. Len(p \o q) PROVE (data \o rest)[i] = (p \o q)[i]
  <2>1. CASE i <= Len(p)
    <3>1. i \in 1 .. Len(p) /\ i \in 1 .. Len(data)
      BY <1>1, <1>4, <2>1
    <3> QED  BY <1>4, <1>5, <1>6, <3>1
  <2>2. CASE i > Len(p) /\ i <= Len(p) + k
    <3>1. PICK j \in 1 .. k : i = Len(p) + j
      <4>1. i - Len(p) \in 1 .. k /\ i = Len(p) + (i - Len(p))
        BY <1>1, <2>2
      <4> QED  BY <4>1
    <3>2. i \in 1 .. Len(data) /\ j \in 1 .. Len(q)
      BY <1>1, <1>4, <2>2
    <3> QED  BY <1>4, <1>5, <1>6, <3>1, <3>2
  <2>3. CASE i > Len(p) + k
    <3>1. PICK j \in 1 .. Len(rest) : i = Len(data) + j
      <4>1. i - Len(data) \in 1 .. Len(rest) /\ i = Len(data) + (i - Len(data))
        BY <1>1, <1>3, <1>4, <1>6, <2>3
      <4> QED  BY <4>1
    <3>2. k + j \in 1 .. Len(q) /\ i = Len(p) + (k + j) /\ j \in 1 .. Len(q) - k
      <4>1. j \in 1 .. Len(q) - k /\ i = Len(p) + k + j
        BY <1>1, <1>3, <1>4, <3>1
      <4>2. j \in Nat /\ k \in Nat /\ Len(p) \in Nat /\ Len(q) \in Nat
        BY <1>6, <4>1
      <4> QED  BY <4>1, <4>2
    <3>3. (data \o rest)[i] = q[k + j]
      BY <1>3, <1>5, <3>1, <3>2
    <3> QED  BY <1>6, <3>2, <3>3
  <2>4. i <= Len(p) \/ (i > Len(p) /\ i <= Len(p) + k) \/ i > Len(p) + k
    <3>1. i \in Nat /\ Len(p) \in Nat /\ k \in Nat
      BY <1>1, <1>6
    <3> QED  BY <3>1
  <2> QED  BY <2>1, <2>2, <2>3, <2>4
<1>9. data \o rest = p \o q
  BY <1>5, <1>6, <1>7, <1>8, SeqEqual
<1>10. Len(data) >= 1
  BY <1>1, <1>4
<1> QED  BY <1>3, <1>4, <1>9, <1>10 DEF data, first, rest

(* A part that is shown is taken out of it. *)
LEMMA ClearPartElements ==
  ASSUME NEW S, NEW data \in Seq(S), NEW rest \in Seq(S), Len(data) > 1
  PROVE  /\ ClearPart(data) \in Seq(S) /\ Len(ClearPart(data)) >= 1
         /\ ClearPart(data) \o rest \in Seq(S)
         /\ Len(ClearPart(data) \o rest) = Len(data \o rest) - 1
         /\ (ClearPart(data) \o rest)[1] = (data \o rest)[1]
         /\ \A i \in 2 .. Len(ClearPart(data) \o rest) :
              (ClearPart(data) \o rest)[i] = (data \o rest)[i + 1]
<1> DEFINE head == <<Head(data)>>
           tail == SubSeq(data, 3, Len(data))
<1>1. Len(data) \in Nat /\ Len(rest) \in Nat /\ data # <<>> /\ Len(data) \in Int
      /\ \A i \in 1 .. Len(data) : data[i] \in S
  BY LenProperties, ElementOfSeq
<1>2. /\ tail \in Seq(S) /\ Len(tail) = Len(data) - 2
      /\ \A i \in 1 .. Len(data) - 2 : tail[i] = data[i + 2]
  <2>1. \A i \in 3 .. Len(data) : data[i] \in S
    BY <1>1
  <2>2. /\ tail \in Seq(S) /\ Len(tail) = IF 3 <= Len(data) THEN Len(data) - 3 + 1 ELSE 0
        /\ \A i \in 1 .. Len(data) - 3 + 1 : tail[i] = data[3 + i - 1]
    BY <1>1, <2>1, SubSeqProperties
  <2> HIDE DEF tail
  <2>3. ASSUME NEW i \in 1 .. Len(data) - 2 PROVE tail[i] = data[i + 2]
    <3>1. i \in 1 .. Len(data) - 3 + 1 /\ 3 + i - 1 = i + 2
      BY <1>1
    <3> QED  BY <2>2, <3>1
  <2>4. Len(tail) = Len(data) - 2
    <3>1. PICK n \in Nat : n = Len(data)
      BY <1>1
    <3>2. n > 1 /\ Len(tail) = IF 3 <= n THEN n - 3 + 1 ELSE 0
      BY <2>2, <3>1
    <3>3. Len(tail) = n - 2
      BY <3>2
    <3> QED  BY <3>1, <3>3
  <2> QED  BY <2>2, <2>3, <2>4
<1>3. head \in Seq(S) /\ Len(head) = 1 /\ head[1] = data[1]
  BY <1>1
<1> HIDE DEF tail, head
<1> DEFINE kept == head \o tail
<1>4. /\ kept \in Seq(S) /\ Len(kept) = Len(data) - 1 /\ kept[1] = data[1]
      /\ \A i \in 1 .. Len(data) - 2 : kept[1 + i] = tail[i]
  BY <1>1, <1>2, <1>3, ConcatAt
<1>5. kept = ClearPart(data)
  BY DEF ClearPart, head, tail
<1> HIDE DEF kept
<1>6. /\ kept \o rest \in Seq(S) /\ Len(kept \o rest) = Len(kept) + Len(rest)
      /\ \A i \in 1 .. Len(kept) : (kept \o rest)[i] = kept[i]
      /\ \A i \in 1 .. Len(rest) : (kept \o rest)[Len(kept) + i] = rest[i]
  <2>1. kept \in Seq(S)
    BY <1>4
  <2> QED  BY <2>1, ConcatAt
<1>7. /\ data \o rest \in Seq(S) /\ Len(data \o rest) = Len(data) + Len(rest)
      /\ \A i \in 1 .. Len(data) : (data \o rest)[i] = data[i]
      /\ \A i \in 1 .. Len(rest) : (data \o rest)[Len(data) + i] = rest[i]
  BY ConcatAt
<1>8. (kept \o rest)[1] = (data \o rest)[1]
  <2>1. 1 \in 1 .. Len(kept) /\ 1 \in 1 .. Len(data)
    BY <1>1, <1>4
  <2> QED  BY <1>4, <1>6, <1>7, <2>1
<1>9. ASSUME NEW i \in 2 .. Len(kept \o rest)
      PROVE  (kept \o rest)[i] = (data \o rest)[i + 1]
  <2>1. CASE i <= Len(kept)
    <3>1. /\ i - 1 \in 1 .. Len(data) - 2 /\ i \in 1 .. Len(kept) /\ i + 1 \in 1 .. Len(data)
          /\ 1 + (i - 1) = i /\ (i - 1) + 2 = i + 1
      BY <1>1, <1>4, <2>1
    <3>2. kept[1 + (i - 1)] = tail[i - 1] /\ tail[i - 1] = data[(i - 1) + 2]
      BY <1>2, <1>4, <3>1
    <3> QED  BY <1>6, <1>7, <3>1, <3>2
  <2>2. CASE i > Len(kept)
    <3>1. PICK j \in 1 .. Len(rest) : i = Len(kept) + j
      <4>1. i - Len(kept) \in 1 .. Len(rest) /\ i = Len(kept) + (i - Len(kept))
        BY <1>1, <1>4, <1>6, <2>2
      <4> QED  BY <4>1
    <3>2. i + 1 = Len(data) + j
      BY <1>1, <1>4, <3>1
    <3> QED  BY <1>6, <1>7, <3>1, <3>2
  <2> QED  BY <1>1, <1>4, <2>1, <2>2
<1>10. Len(kept) >= 1 /\ Len(kept \o rest) = Len(data \o rest) - 1
  BY <1>1, <1>4, <1>6, <1>7
<1> QED  BY <1>4, <1>5, <1>6, <1>8, <1>9, <1>10

LEMMA AppendRight ==
  ASSUME NEW S, NEW p \in Seq(S), NEW q \in Seq(S), NEW e \in S
  PROVE  p \o Append(q, e) = Append(p \o q, e)
<1>1. p \o q \in Seq(S) /\ <<e>> \in Seq(S)
  OBVIOUS
<1>2. Append(q, e) = q \o <<e>> /\ Append(p \o q, e) = (p \o q) \o <<e>>
  BY <1>1, AppendIsConcat
<1> QED  BY <1>1, <1>2, ConcatAssociative

LEMMA ItemsTyped ==
  ASSUME NEW data \in Seq(HttpItem), NEW i \in DOMAIN data
  PROVE  data[i].n \in Nat /\ i \in Nat /\ i \in 1 .. Len(data)
<1>1. i \in 1 .. Len(data)
  OBVIOUS
<1>2. data[i] \in HttpItem
  BY <1>1, ElementOfSeq
<1> QED  BY <1>1, <1>2 DEF HttpItem

(* What is read is used up, ... *)
LEMMA DataGone ==
  ASSUME NEW data, NEW last, NEW seen, DataOK(data, last, seen)
  PROVE  DataOK(<<>>, last, seen)
BY EmptySeq DEF DataOK

(* ... and is one answer and no more, unless that is a stream. *)
LEMMA DataAlone ==
  ASSUME NEW data, NEW last, NEW seen, DataOK(data, last, seen),
         data # <<>>, data[1].kind # "stream"
  PROVE  Len(data) = 1
<1>1. Len(data) \in Nat /\ Len(data) # 0 /\ DOMAIN data = 1 .. Len(data)
  BY EmptySeq, LenProperties DEF DataOK
<1>2. 2 \notin DOMAIN data
  BY DEF DataOK
<1> QED  BY <1>1, <1>2

(* The history of what is shown. *)
LEMMA SeenRises ==
  ASSUME NEW seen \in Seq(Nat), NEW n \in Nat, NEW last \in Nat, n <= last,
         \A j \in DOMAIN seen : seen[j] < n,
         \A i, j \in DOMAIN seen : i < j => seen[i] < seen[j]
  PROVE  /\ Append(seen, n) \in Seq(Nat)
         /\ \A i, j \in DOMAIN Append(seen, n) :
              i < j => Append(seen, n)[i] < Append(seen, n)[j]
         /\ \A j \in DOMAIN Append(seen, n) :
              Append(seen, n)[j] \in Nat /\ Append(seen, n)[j] <= n /\ Append(seen, n)[j] <= last
<1> DEFINE new == Append(seen, n)
<1>1. /\ new \in Seq(Nat) /\ Len(seen) \in Nat
      /\ DOMAIN new = 1 .. Len(seen) + 1 /\ DOMAIN seen = 1 .. Len(seen)
      /\ \A i \in 1 .. Len(seen) : new[i] = seen[i] /\ seen[i] \in Nat
      /\ new[Len(seen) + 1] = n
  BY AppendProperties, LenProperties, ElementOfSeq
<1> HIDE DEF new
<1>2. \A j \in DOMAIN new : new[j] \in Nat /\ new[j] <= n /\ new[j] <= last
  BY <1>1, SMTT(30)
<1>3. \A i, j \in DOMAIN new : i < j => new[i] < new[j]
  BY <1>1, SMTT(30)
<1> QED  BY <1>1, <1>2, <1>3 DEF new

(* An image: the last of the data is shown after all the others. *)
LEMMA DataShown ==
  ASSUME NEW data, NEW last \in Nat, NEW seen, DataOK(data, last, seen),
         data # <<>>, data[1].kind # "stream"
  PROVE  DataOK(<<>>, last, Append(seen, data[1].n))
<1>1. 1 \in DOMAIN data /\ data \in Seq(HttpItem) /\ seen \in Seq(Nat)
  BY EmptySeq, LenProperties DEF DataOK
<1>2. /\ data[1].n \in Nat /\ data[1].n <= last
      /\ \A j \in DOMAIN seen : seen[j] < data[1].n
  BY <1>1, ItemsTyped DEF DataOK
<1> DEFINE n == data[1].n
           new == Append(seen, n)
<1> HIDE DEF n
<1>3. \A i, j \in DOMAIN seen : i < j => seen[i] < seen[j]
  BY DEF DataOK
<1>4. n \in Nat /\ n <= last /\ \A j \in DOMAIN seen : seen[j] < n
  BY <1>2 DEF n
<1>5. /\ new \in Seq(Nat)
      /\ \A i, j \in DOMAIN new : i < j => new[i] < new[j]
      /\ \A j \in DOMAIN new : new[j] <= last
  BY <1>1, <1>3, <1>4, SeenRises
<1> HIDE DEF new
<1>6. DOMAIN <<>> = {} /\ <<>> \in Seq(HttpItem)
  BY EmptySeq
<1> QED  BY <1>5, <1>6 DEF DataOK, new, n

(* A part of a stream. *)
LEMMA DataPartShown ==
  ASSUME NEW data \in Seq(HttpItem), NEW rest \in Seq(HttpItem), Len(data) > 1,
         NEW last \in Nat, NEW seen, DataOK(data \o rest, last, seen)
  PROVE  DataOK(ClearPart(data) \o rest, last, Append(seen, data[2].n))
<1> DEFINE old == data \o rest
           next == ClearPart(data) \o rest
           n == data[2].n
           new == Append(seen, n)
<1>1. /\ next \in Seq(HttpItem) /\ Len(next) = Len(old) - 1 /\ next[1] = old[1]
      /\ \A i \in 2 .. Len(next) : next[i] = old[i + 1]
      /\ Len(ClearPart(data)) >= 1 /\ ClearPart(data) \in Seq(HttpItem)
  BY ClearPartElements, SMTT(30)
<1>2. /\ old \in Seq(HttpItem) /\ Len(old) = Len(data) + Len(rest)
      /\ Len(data) \in Nat /\ Len(rest) \in Nat /\ old[2] = data[2]
  <2>1. /\ Len(data) \in Nat /\ Len(rest) \in Nat /\ Len(old) = Len(data) + Len(rest)
        /\ old \in Seq(HttpItem) /\ \A i \in 1 .. Len(data) : old[i] = data[i]
    BY ConcatAt
  <2>2. 2 \in 1 .. Len(data)
    BY <2>1
  <2> QED  BY <2>1, <2>2
<1>3. /\ Len(old) \in Nat /\ Len(old) >= 2 /\ DOMAIN old = 1 .. Len(old)
      /\ DOMAIN next = 1 .. Len(next) /\ 2 \in DOMAIN old /\ 1 \in DOMAIN old /\ old # <<>>
  <2>1. DOMAIN old = 1 .. Len(old) /\ DOMAIN next = 1 .. Len(next)
    BY <1>1, <1>2, LenProperties
  <2>2. Len(old) \in Nat /\ Len(old) >= 2
    BY <1>2
  <2> HIDE DEF old, next
  <2>3. 2 \in DOMAIN old /\ 1 \in DOMAIN old
    BY <2>1, <2>2
  <2> QED  BY <2>1, <2>2, <2>3
<1> HIDE DEF old, next
<1>4. /\ old[1].kind \in Answers
      /\ \A i \in DOMAIN old : i > 1 => old[i].kind = "part" /\ old[1].kind = "stream"
      /\ \A i, j \in DOMAIN old : i < j => old[i].n < old[j].n
      /\ \A i \in DOMAIN old : old[i].n <= last /\ old[i].n \in Nat
      /\ \A i \in DOMAIN old : old[i].kind # "stream" =>
           \A j \in DOMAIN seen : seen[j] < old[i].n
      /\ \A i, j \in DOMAIN seen : i < j => seen[i] < seen[j]
      /\ \A j \in DOMAIN seen : seen[j] <= last
      /\ seen \in Seq(Nat)
  <2>1. \A i \in DOMAIN old : old[i].n \in Nat
    BY <1>2, ItemsTyped
  <2> QED  BY <1>3, <2>1 DEF DataOK, old
<1>5. n = old[2].n /\ n \in Nat /\ n <= last /\ \A j \in DOMAIN seen : seen[j] < n
  <2>1. n = old[2].n
    BY <1>2
  <2> HIDE DEF n
  <2>2. 2 \in DOMAIN old /\ old[2].kind = "part"
    <3>1. 2 \in DOMAIN old
      BY <1>3
    <3>2. \A i \in DOMAIN old : i > 1 => old[i].kind = "part"
      BY <1>4
    <3> QED  BY <3>1, <3>2
  <2>3. old[2].n \in Nat /\ old[2].n <= last /\ \A j \in DOMAIN seen : seen[j] < old[2].n
    BY <1>4, <2>2
  <2> QED  BY <2>1, <2>3
<1> HIDE DEF n
<1>6. /\ new \in Seq(Nat)
      /\ \A i, j \in DOMAIN new : i < j => new[i] < new[j]
      /\ \A j \in DOMAIN new : new[j] \in Nat /\ new[j] <= n /\ new[j] <= last
  BY <1>4, <1>5, SeenRises
<1> HIDE DEF new
<1>7. next # <<>> => next[1].kind \in Answers
  BY <1>1, <1>4
<1>8. ASSUME NEW i \in DOMAIN next, i > 1
      PROVE  /\ next[i] = old[i + 1] /\ i + 1 \in DOMAIN old /\ i + 1 > 2
             /\ next[i].kind = "part" /\ next[1].kind = "stream" /\ n < next[i].n
  <2>1. i \in 2 .. Len(next) /\ i + 1 \in DOMAIN old /\ i + 1 > 2 /\ i + 1 > 1
    BY <1>1, <1>3, <1>8
  <2>2. next[i] = old[i + 1] /\ next[1] = old[1]
    BY <1>1, <2>1
  <2>3. old[2].n < old[i + 1].n /\ old[i + 1].kind = "part" /\ old[1].kind = "stream"
    BY <1>3, <1>4, <2>1
  <2> QED  BY <1>5, <2>1, <2>2, <2>3
<1>9. ASSUME NEW i \in DOMAIN next, NEW j \in DOMAIN next, i < j
      PROVE  next[i].n < next[j].n
  <2>1. j > 1 /\ i \in Nat /\ i >= 1 /\ j \in Nat
    BY <1>3, <1>9
  <2>2. next[j] = old[j + 1] /\ j + 1 \in DOMAIN old
    BY <1>8, <2>1
  <2>3. CASE i = 1
    <3>1. next[i] = old[1] /\ 1 < j + 1 /\ 1 \in DOMAIN old
      BY <1>1, <1>3, <2>1, <2>3
    <3> QED  BY <1>4, <2>2, <3>1
  <2>4. CASE i > 1
    <3>1. next[i] = old[i + 1] /\ i + 1 \in DOMAIN old /\ i + 1 < j + 1
      BY <1>8, <1>9, <2>1, <2>4
    <3> QED  BY <1>4, <2>2, <3>1
  <2> QED  BY <2>1, <2>3, <2>4
<1>10. ASSUME NEW i \in DOMAIN next PROVE next[i].n <= last
  <2>1. CASE i = 1
    BY <1>1, <1>3, <1>4, <2>1
  <2>2. CASE i > 1
    BY <1>4, <1>8, <2>2
  <2> QED  BY <1>3, <2>1, <2>2
<1>11. ASSUME NEW i \in DOMAIN next, next[i].kind # "stream", NEW j \in DOMAIN new
       PROVE  new[j] < next[i].n
  <2>1. i > 1
    <3>1. old[1].kind = "stream"
      BY <1>3, <1>4
    <3> QED  BY <1>1, <1>3, <1>11, <3>1
  <2>2. n < next[i].n /\ next[i].n \in Nat
    BY <1>4, <1>8, <2>1
  <2>3. new[j] <= n /\ new[j] \in Nat
    BY <1>6
  <2> QED  BY <1>5, <2>2, <2>3
<1>12. \A i \in DOMAIN next : i > 1 => next[i].kind = "part" /\ next[1].kind = "stream"
  BY <1>8
<1>13. DataOK(next, last, new)
  BY <1>1, <1>6, <1>7, <1>9, <1>10, <1>11, <1>12 DEF DataOK
<1> QED  BY <1>13 DEF next, new, n

(* The server's answer, when there are no data, or a part of its stream. *)
LEMMA DataSent ==
  ASSUME NEW data, NEW last \in Nat, NEW seen, DataOK(data, last, seen),
         NEW item \in HttpItem, item.n = last + 1,
         \/ data = <<>> /\ item.kind \in Answers
         \/ data # <<>> /\ data[1].kind = "stream" /\ item.kind = "part"
  PROVE  DataOK(Append(data, item), last + 1, seen)
<1> DEFINE new == Append(data, item)
<1>1. data \in Seq(HttpItem) /\ seen \in Seq(Nat)
  BY DEF DataOK
<1>2. /\ new \in Seq(HttpItem) /\ Len(new) = Len(data) + 1 /\ Len(data) \in Nat
      /\ DOMAIN new = 1 .. Len(data) + 1 /\ DOMAIN data = 1 .. Len(data)
      /\ \A i \in 1 .. Len(data) : new[i] = data[i]
      /\ new[Len(data) + 1] = item
  BY <1>1, AppendProperties, LenProperties
<1> HIDE DEF new
<1>3. \A i \in DOMAIN data : data[i].n \in Nat /\ data[i].n <= last
  BY <1>1, ItemsTyped DEF DataOK
<1>4. \A j \in DOMAIN seen : seen[j] \in Nat /\ seen[j] <= last
  BY <1>1, LenProperties, ElementOfSeq DEF DataOK
<1>5. new # <<>> => new[1].kind \in Answers
  <2>1. CASE data = <<>>
    BY <1>2, <2>1, EmptySeq
  <2>2. CASE data # <<>>
    BY <1>1, <1>2, <2>2, EmptySeq DEF Answers
  <2> QED  BY <2>1, <2>2
<1>6. ASSUME NEW i \in DOMAIN new, i > 1
      PROVE  new[i].kind = "part" /\ new[1].kind = "stream"
  <2>1. Len(data) > 0 /\ data # <<>> /\ 1 \in DOMAIN data /\ new[1] = data[1]
    BY <1>2, <1>6, EmptySeq
  <2>2. CASE i \in DOMAIN data
    BY <1>2, <1>6, <2>1, <2>2 DEF DataOK
  <2>3. CASE i = Len(data) + 1
    BY <1>2, <2>1, <2>3
  <2> QED  BY <1>2, <2>2, <2>3
<1>7. ASSUME NEW i \in DOMAIN new, NEW j \in DOMAIN new, i < j
      PROVE  new[i].n < new[j].n
  <2>1. i \in DOMAIN data
    BY <1>2, <1>7
  <2>2. CASE j \in DOMAIN data
    BY <1>2, <1>7, <2>1, <2>2 DEF DataOK
  <2>3. CASE j = Len(data) + 1
    BY <1>2, <1>3, <2>1, <2>3
  <2> QED  BY <1>2, <2>2, <2>3
<1>8. \A i \in DOMAIN new : new[i].n <= last + 1
  BY <1>2, <1>3
<1>9. ASSUME NEW i \in DOMAIN new, new[i].kind # "stream", NEW j \in DOMAIN seen
      PROVE  seen[j] < new[i].n
  <2>1. CASE i \in DOMAIN data
    BY <1>2, <1>9, <2>1 DEF DataOK
  <2>2. CASE i = Len(data) + 1
    BY <1>2, <1>4, <2>2
  <2> QED  BY <1>2, <2>1, <2>2
<1>10. \A j \in DOMAIN seen : seen[j] <= last + 1
  BY <1>4
<1>11. \A i, j \in DOMAIN seen : i < j => seen[i] < seen[j]
  BY DEF DataOK
<1> QED
  BY <1>1, <1>2, <1>5, <1>6, <1>7, <1>8, <1>9, <1>10, <1>11 DEF DataOK, new

-----------------------------------------------------------------------------
(* The http client's connections. *)

HttpTyped ==
  /\ m_parser \in [Clients -> Seq(HttpItem)]
  /\ asked \in [Clients -> 0 .. 1]
  /\ served \in [Clients -> 0 .. MaxServed]
  /\ shown \in [Clients -> Seq(Nat)]

(* Of a request that is not answered, data that are not used up, and the   *)
(* timer there is one at most, and one at least as long as the client goes *)
(* on; a connection starts without any.                                    *)
HttpAt(c) ==
  /\ DataOK(Data(c), served[c], shown[c])
  /\ asked[c] = 1 => Data(c) = <<>> /\ "request" \notin timers[c]
  /\ Data(c) # <<>> => "request" \notin timers[c]
  /\ m_state[c] = "connected" /\ ~Dying(c) =>
       asked[c] = 1 \/ Data(c) # <<>> \/ "request" \in timers[c]
  /\ m_state[c] # "connected" => asked[c] = 0 /\ m_parser[c] = <<>> /\ inbox[c] = <<>>

HttpUnused(c) ==
  /\ m_parser[c] = <<>> /\ asked[c] = 0 /\ shown[c] = <<>>
  /\ "request" \notin timers[c] /\ "watchdog" \notin timers[c]

HttpInvariant ==
  /\ HttpTyped
  /\ m_tried_auth \in [Clients -> BOOLEAN]
  /\ Http => inbox \in [Clients -> Seq(HttpItem)] /\ \A c \in Clients : HttpAt(c)
  /\ Rtsp => \A c \in Clients : HttpUnused(c)

LEMMA OneProgram ==
  ASSUME StackInvariant
  PROVE  (Http \/ Rtsp) /\ ~(Http /\ Rtsp)
<1>1. option \in [program : {"http", "rtsp"}, named : BOOLEAN, auth : BOOLEAN,
                  once : BOOLEAN, watchdog : BOOLEAN, timeout : BOOLEAN]
  BY StackAssumption DEF StackInvariant, StackTyped
<1>2. option.program \in {"http", "rtsp"}
  BY <1>1
<1> QED  BY <1>2 DEF Http, Rtsp

(* The callbacks of the stack, which do not touch what is sent and read. *)
SameConnection(c) ==
  /\ m_state'[c] = "connected" <=> m_state[c] = "connected"
  /\ m_state[c] = "connected" =>
       /\ "request" \in timers'[c] <=> "request" \in timers[c]
       /\ "watchdog" \in timers'[c] => "watchdog" \in timers[c]
       /\ "delete" \in timers[c] => "delete" \in timers'[c]

Quiet ==
  /\ UNCHANGED <<option, inbox, httpVars, rtspVars>>
  /\ \A c \in Clients : SameConnection(c)

LEMMA DeletingTimers ==
  ASSUME NEW r
  PROVE  /\ "request" \in Deleting(r) <=> "request" \in r
         /\ "watchdog" \in Deleting(r) <=> "watchdog" \in r
         /\ "delete" \in Deleting(r)
BY DEF Deleting

LEMMA NewTimersOf ==
  ASSUME StackInvariant, NEW c \in Clients, NEW r,
         GoesOn(c, r) \/ \E reason : DoDelete(c, r, reason)
  PROVE  /\ \A d \in Clients \ {c} : timers'[d] = timers[d]
         /\ timers'[c] = r \/ timers'[c] = Deleting(r)
         /\ GoesOn(c, r) => timers'[c] = r
BY DEF GoesOn, DoDelete, StackInvariant, StackTyped

LEMMA ConnectingQuiet ==
  ASSUME StackInvariant, NEW c \in Clients, ConnectTimer(c) \/ FutureEvent(c) \/ ConnectFailure(c)
  PROVE  Quiet
<1>1. /\ UNCHANGED <<option, inbox, httpVars, rtspVars>>
      /\ m_state[c] # "connected"
  BY DEF ConnectTimer, FutureEvent, ConnectFailure, OnConnectTimer, OnFutureEvent,
         OnConnectFailure, ConnectEvent, StackInvariant, SocketInvariant, SocketAt
<1>2. \/ m_state' = m_state
      \/ \E new \in {"idle", "resolving", "connecting"} : m_state' = [m_state EXCEPT ![c] = new]
  BY DEF ConnectTimer, FutureEvent, ConnectFailure, OnConnectTimer, OnFutureEvent,
         OnConnectFailure, StartConnecting
<1>3. m_state'[c] # "connected" /\ \A d \in Clients \ {c} : m_state'[d] = m_state[d]
  BY <1>1, <1>2 DEF StackInvariant, StackTyped
<1>4. \E r : GoesOn(c, r) \/ \E reason : DoDelete(c, r, reason)
  BY DEF ConnectTimer, FutureEvent, ConnectFailure, OnConnectTimer, OnFutureEvent,
         OnConnectFailure, StartConnecting
<1>5. \A d \in Clients \ {c} : timers'[d] = timers[d]
  BY <1>4, NewTimersOf
<1> QED  BY <1>1, <1>3, <1>5 DEF Quiet, SameConnection

LEMMA TimeoutQuiet ==
  ASSUME StackInvariant, NEW c \in Clients,
         ConnectionTimeout(c) \/ ReadEnd(c) \/ WatchdogTimeout(c),
         UNCHANGED <<httpVars, rtspVars>>
  PROVE  Quiet
<1>1. UNCHANGED <<option, inbox, m_state>>
  BY DEF ConnectionTimeout, OnConnectionTimeout, ReadEnd, WatchdogTimeout, OnWatchdogTimeout,
         sockets
<1>2. PICK r \in {timers[c], timers[c] \ {"connection"}, timers[c] \ {"watchdog"}} :
        \E reason : DoDelete(c, r, reason)
  BY DEF ConnectionTimeout, OnConnectionTimeout, ReadEnd, WatchdogTimeout, OnWatchdogTimeout
<1>3. \A d \in Clients \ {c} : timers'[d] = timers[d]
  BY <1>2, NewTimersOf
<1>4. timers'[c] = Deleting(r)
  BY <1>2 DEF DoDelete, StackInvariant, StackTyped
<1>5. SameConnection(c)
  BY <1>1, <1>2, <1>4, DeletingTimers DEF SameConnection
<1> QED  BY <1>1, <1>3, <1>5 DEF Quiet, SameConnection

LEMMA ReconnectQuiet ==
  ASSUME StackInvariant, NEW c \in Clients, Reconnect(c)
  PROVE  Quiet
<1>1. m_ptr = None
  BY DEF Reconnect, OnReconnect, StackInvariant, SessionInvariant, HolderKnows
<1>2. \A d \in Clients : d # m_ptr
  BY <1>1, StackAssumption
<1>3. /\ UNCHANGED <<option, inbox, httpVars, rtspVars>>
      /\ m_state[c] = "none" /\ m_state' = [m_state EXCEPT ![c] = "idle"]
      /\ timers' = [timers EXCEPT ![c] = NewTimers]
  BY <1>2 DEF Reconnect, OnReconnect, Free, StackInvariant, StackTyped
<1> QED  BY <1>3 DEF Quiet, SameConnection, StackInvariant, StackTyped

LEMMA OutsideQuiet ==
  ASSUME StackInvariant, NEW c \in Clients,
         Lookup(c) \/ (PeerLeaves(c) /\ UNCHANGED <<httpVars, rtspVars>>)
  PROVE  Quiet
BY DEF Lookup, ThreadEnds, PeerLeaves, session, Quiet, SameConnection

LEMMA QuietHttp ==
  ASSUME StackInvariant, StackInvariant', HttpInvariant, Quiet
  PROVE  HttpInvariant'
<1>1. UNCHANGED <<option, inbox, m_parser, m_tried_auth, asked, served, shown>>
  BY DEF Quiet, httpVars
<1>2. HttpTyped' /\ (m_tried_auth \in [Clients -> BOOLEAN])'
  BY <1>1 DEF HttpInvariant, HttpTyped
<1>3. ASSUME Http, NEW c \in Clients PROVE HttpAt(c)'
  <2>1. HttpAt(c) /\ SameConnection(c)
    BY <1>3 DEF HttpInvariant, Quiet
  <2>2. Data(c)' = Data(c)
    BY <1>1 DEF Data
  <2>3. m_state'[c] # "connected" => "request" \notin timers'[c]
    BY DEF StackInvariant, SocketInvariant, SocketAt
  <2>4. DataOK(Data(c), served[c], shown[c])'
    BY <1>1, <2>1, <2>2 DEF HttpAt
  <2>5. /\ asked'[c] = 1 => Data(c)' = <<>> /\ "request" \notin timers'[c]
        /\ Data(c)' # <<>> => "request" \notin timers'[c]
    BY <1>1, <2>1, <2>2, <2>3 DEF HttpAt, SameConnection
  <2>6. m_state'[c] = "connected" /\ "delete" \notin timers'[c] =>
          asked'[c] = 1 \/ Data(c)' # <<>> \/ "request" \in timers'[c]
    BY <1>1, <2>1, <2>2 DEF HttpAt, SameConnection, Dying
  <2>7. m_state'[c] # "connected" =>
          asked'[c] = 0 /\ m_parser'[c] = <<>> /\ inbox'[c] = <<>>
    BY <1>1, <2>1 DEF HttpAt, SameConnection
  <2> QED  BY <2>4, <2>5, <2>6, <2>7 DEF HttpAt, Dying
<1>4. ASSUME Rtsp, NEW c \in Clients PROVE HttpUnused(c)'
  <2>1. HttpUnused(c) /\ SameConnection(c)
    BY <1>4 DEF HttpInvariant, Quiet
  <2>2. m_state'[c] # "connected" =>
          "request" \notin timers'[c] /\ "watchdog" \notin timers'[c]
    BY DEF StackInvariant, SocketInvariant, SocketAt
  <2> QED  BY <1>1, <2>1, <2>2 DEF HttpUnused, SameConnection
<1>5. (Http' <=> Http) /\ (Rtsp' <=> Rtsp)
  BY <1>1 DEF Http, Rtsp
<1>6. Http => (inbox \in [Clients -> Seq(HttpItem)])'
  BY <1>1 DEF HttpInvariant
<1> QED  BY <1>2, <1>3, <1>4, <1>5, <1>6 DEF HttpInvariant

(* The other clients' data. *)
LEMMA OtherHttp ==
  ASSUME HttpInvariant, Http, NEW d \in Clients,
         m_state'[d] = m_state[d], timers'[d] = timers[d], inbox'[d] = inbox[d],
         m_parser'[d] = m_parser[d], asked'[d] = asked[d], served'[d] = served[d],
         shown'[d] = shown[d]
  PROVE  HttpAt(d)'
<1>1. HttpAt(d)
  BY DEF HttpInvariant
<1>2. Data(d)' = Data(d)
  BY DEF Data
<1>3. DataOK(Data(d), served[d], shown[d])'
  BY <1>1, <1>2 DEF HttpAt
<1> QED  BY <1>1, <1>2, <1>3 DEF HttpAt, Dying

LEMMA HttpConnectKept ==
  ASSUME StackInvariant, HttpInvariant, Http, NEW c \in Clients,
         HttpOnConnect(c)
  PROVE  HttpInvariant'
<1>1. /\ UNCHANGED <<option, inbox, m_parser, m_tried_auth, served, shown>>
      /\ m_state' = [m_state EXCEPT ![c] = "connected"]
      /\ m_state[c] = "connecting"
      /\ \/ GoesOn(c, AfterConnect(c)) /\ asked' = [asked EXCEPT ![c] = @ + 1]
         \/ DoDelete(c, AfterConnect(c), "peer disconnected") /\ asked' = asked
  BY DEF HttpOnConnect, Asks, HasPeer, ConnectEvent
<1>2. /\ m_state'[c] = "connected"
      /\ \A d \in Clients \ {c} : m_state'[d] = m_state[d] /\ timers'[d] = timers[d]
      /\ timers'[c] = AfterConnect(c) \/ timers'[c] = Deleting(AfterConnect(c))
  <2>1. m_state'[c] = "connected" /\ \A d \in Clients \ {c} : m_state'[d] = m_state[d]
    BY <1>1 DEF StackInvariant, StackTyped
  <2> QED  BY <1>1, <2>1, NewTimersOf
<1>3. HttpAt(c) /\ asked[c] = 0 /\ m_parser[c] = <<>> /\ inbox[c] = <<>>
  BY <1>1 DEF HttpInvariant, HttpAt
<1>4. "request" \notin timers'[c]
  <2>1. "request" \notin AfterConnect(c)
    BY <1>1 DEF AfterConnect, StackInvariant, SocketInvariant, SocketAt
  <2> QED  BY <1>2, <2>1, DeletingTimers
<1>5. /\ asked' \in [Clients -> 0 .. 1]
      /\ \A d \in Clients \ {c} : asked'[d] = asked[d]
      /\ asked'[c] = 1 \/ "delete" \in timers'[c]
  <2>1. CASE GoesOn(c, AfterConnect(c)) /\ asked' = [asked EXCEPT ![c] = @ + 1]
    BY <1>3, <2>1 DEF HttpInvariant, HttpTyped
  <2>2. CASE DoDelete(c, AfterConnect(c), "peer disconnected") /\ asked' = asked
    <3>1. timers'[c] = Deleting(AfterConnect(c))
      BY <2>2 DEF DoDelete, StackInvariant, StackTyped
    <3> QED  BY <2>2, <3>1, DeletingTimers DEF HttpInvariant, HttpTyped
  <2> QED  BY <1>1, <2>1, <2>2
<1>6. Data(c)' = <<>> /\ Data(c) = <<>>
  <2>1. <<>> \o <<>> = <<>>
    BY EmptySeq, ConcatEmptySeq
  <2> QED  BY <1>1, <1>3, <2>1 DEF Data
<1>7. DataOK(Data(c), served[c], shown[c])'
  BY <1>1, <1>3, <1>6 DEF HttpAt
<1>8. HttpAt(c)'
  BY <1>2, <1>4, <1>5, <1>6, <1>7 DEF HttpAt, Dying
<1>9. \A d \in Clients \ {c} : HttpAt(d)'
  BY <1>1, <1>2, <1>5, OtherHttp
<1>10. Http' /\ ~Rtsp'
  BY <1>1 DEF Http, Rtsp
<1> QED  BY <1>1, <1>5, <1>8, <1>9, <1>10 DEF HttpInvariant, HttpTyped

LEMMA RequestTimeoutKept ==
  ASSUME StackInvariant, HttpInvariant, NEW c \in Clients, RequestTimeout(c)
  PROVE  HttpInvariant'
<1> DEFINE timersLeft == timers[c] \ {"request"}
<1>1. /\ UNCHANGED <<option, inbox, m_parser, m_tried_auth, served, shown, m_state>>
      /\ "request" \in timers[c]
      /\ \/ GoesOn(c, timersLeft) /\ asked' = [asked EXCEPT ![c] = @ + 1]
         \/ DoDelete(c, timersLeft, "peer disconnected") /\ asked' = asked
  BY DEF RequestTimeout, OnRequestTimeout, Asks, sockets
<1>2. Http /\ HttpAt(c) /\ ~Rtsp
  BY <1>1, OneProgram DEF HttpInvariant, HttpUnused
<1>3. asked[c] = 0 /\ Data(c) = <<>>
  <2>1. asked[c] \in 0 .. 1
    BY DEF HttpInvariant, HttpTyped
  <2>2. asked[c] # 1 /\ Data(c) = <<>>
    BY <1>1, <1>2 DEF HttpAt
  <2> QED  BY <2>1, <2>2
<1>4. \A d \in Clients \ {c} : timers'[d] = timers[d]
  BY <1>1, NewTimersOf
<1>5. m_state[c] = "connected"
  BY <1>1 DEF StackInvariant, SocketInvariant, SocketAt
<1>6. Data(c)' = <<>>
  BY <1>1, <1>3 DEF Data
<1>7. DataOK(Data(c), served[c], shown[c])'
  BY <1>1, <1>2, <1>3, <1>6 DEF HttpAt
<1>8. /\ asked' \in [Clients -> 0 .. 1] /\ \A d \in Clients \ {c} : asked'[d] = asked[d]
      /\ HttpAt(c)'
  <2>1. CASE GoesOn(c, timersLeft) /\ asked' = [asked EXCEPT ![c] = @ + 1]
    <3>1. timers'[c] = timersLeft
      BY <2>1, NewTimersOf
    <3>2. /\ asked'[c] = 1 /\ asked' \in [Clients -> 0 .. 1]
          /\ \A d \in Clients \ {c} : asked'[d] = asked[d]
      BY <1>3, <2>1 DEF HttpInvariant, HttpTyped
    <3> QED  BY <1>1, <1>5, <1>6, <1>7, <3>1, <3>2 DEF HttpAt
  <2>2. CASE DoDelete(c, timersLeft, "peer disconnected") /\ asked' = asked
    <3>1. timers'[c] = Deleting(timersLeft)
      BY <2>2 DEF DoDelete, StackInvariant, StackTyped
    <3>2. "delete" \in timers'[c] /\ "request" \notin timers'[c]
      BY <3>1, DeletingTimers
    <3> QED
      BY <1>1, <1>3, <1>5, <1>6, <1>7, <2>2, <3>2 DEF HttpAt, Dying, HttpInvariant, HttpTyped
  <2> QED  BY <1>1, <2>1, <2>2
<1>9. \A d \in Clients \ {c} : HttpAt(d)'
  BY <1>1, <1>2, <1>4, <1>8, OtherHttp
<1>10. Http' /\ ~Rtsp'
  BY <1>1, <1>2 DEF Http, Rtsp
<1> QED  BY <1>1, <1>2, <1>8, <1>9, <1>10 DEF HttpInvariant, HttpTyped

LEMMA HttpForgetsKept ==
  ASSUME StackInvariant, HttpInvariant, NEW c \in Clients, DeletionTimeout(c)
  PROVE  HttpInvariant'
<1>1. /\ option' = option
      /\ m_state' = [m_state EXCEPT ![c] = "none"]
      /\ timers' = [timers EXCEPT ![c] = {}]
      /\ inbox' = [inbox EXCEPT ![c] = <<>>]
      /\ m_parser' = [m_parser EXCEPT ![c] = <<>>]
      /\ m_tried_auth' = [m_tried_auth EXCEPT ![c] = FALSE]
      /\ asked' = [asked EXCEPT ![c] = 0] /\ served' = [served EXCEPT ![c] = 0]
      /\ shown' = [shown EXCEPT ![c] = <<>>]
  BY DEF DeletionTimeout, OnDeletionTimeout, GoesOn, HttpForgets
<1>2. /\ m_state'[c] = "none" /\ timers'[c] = {}
      /\ \A d \in Clients \ {c} : m_state'[d] = m_state[d] /\ timers'[d] = timers[d]
  BY <1>1 DEF StackInvariant, StackTyped
<1>3. /\ HttpTyped' /\ m_parser'[c] = <<>> /\ asked'[c] = 0 /\ served'[c] = 0
      /\ shown'[c] = <<>>
      /\ \A d \in Clients \ {c} :
           /\ m_parser'[d] = m_parser[d] /\ asked'[d] = asked[d] /\ served'[d] = served[d]
           /\ shown'[d] = shown[d]
  <2>1. 0 \in 0 .. MaxServed /\ <<>> \in Seq(HttpItem) /\ <<>> \in Seq(Nat)
    BY HttpAssumption, EmptySeq
  <2> QED  BY <1>1, <2>1 DEF HttpInvariant, HttpTyped
<1>4. m_tried_auth' \in [Clients -> BOOLEAN]
  BY <1>1 DEF HttpInvariant
<1>5. CASE Http
  <2>1. /\ inbox' \in [Clients -> Seq(HttpItem)] /\ inbox'[c] = <<>>
        /\ \A d \in Clients \ {c} : inbox'[d] = inbox[d]
    BY <1>1, <1>5, EmptySeq DEF HttpInvariant
  <2>2. Data(c)' = <<>>
    <3>1. <<>> \o <<>> = <<>>
      BY EmptySeq, ConcatEmptySeq
    <3> QED  BY <1>3, <2>1, <3>1 DEF Data
  <2>3. DataOK(<<>>, 0, <<>>)
    BY EmptySeq DEF DataOK
  <2>4. HttpAt(c)'
    <3>1. DataOK(Data(c), served[c], shown[c])'
      BY <1>3, <2>2, <2>3
    <3> QED  BY <1>2, <1>3, <2>1, <2>2, <3>1 DEF HttpAt
  <2>5. \A d \in Clients \ {c} : HttpAt(d)'
    BY <1>2, <1>3, <1>5, <2>1, OtherHttp
  <2>6. Http' /\ ~Rtsp'
    BY <1>1, <1>5, OneProgram DEF Http, Rtsp
  <2> QED  BY <1>3, <1>4, <2>1, <2>4, <2>5, <2>6 DEF HttpInvariant
<1>6. CASE Rtsp
  <2>1. Rtsp' /\ ~Http'
    BY <1>1, <1>6, OneProgram DEF Http, Rtsp
  <2>2. \A d \in Clients : HttpUnused(d)'
    BY <1>2, <1>3, <1>6 DEF HttpInvariant, HttpUnused
  <2> QED  BY <1>3, <1>4, <2>1, <2>2 DEF HttpInvariant
<1> QED  BY <1>5, <1>6, OneProgram

LEMMA RtspUnused ==
  ASSUME StackInvariant, HttpInvariant, Rtsp, NEW c \in Clients,
         RtspOnConnect(c) \/ RtspOnData(c) \/ RtspServes(c), UNCHANGED httpVars
  PROVE  HttpInvariant'
<1>1. UNCHANGED <<option, m_parser, m_tried_auth, asked, served, shown>>
  BY DEF RtspOnConnect, HasPeer, RtspOnData, Reads, RtspServes, Delivers, httpVars
<1>2. \/ timers' = timers
      \/ \E r \in {timers[c], AfterConnect(c)} :
           GoesOn(c, r) \/ \E reason : DoDelete(c, r, reason)
  <2>1. CASE RtspOnConnect(c)
    BY <2>1 DEF RtspOnConnect, Requests
  <2>2. CASE RtspOnData(c)
    BY <2>2, RtspOnDataSteps
  <2>3. CASE RtspServes(c)
    BY <2>3 DEF RtspServes, Delivers, session
  <2> QED  BY <2>1, <2>2, <2>3
<1>3. \A d \in Clients : /\ "request" \in timers'[d] => "request" \in timers[d]
                         /\ "watchdog" \in timers'[d] => "watchdog" \in timers[d]
  <2>1. ASSUME NEW r \in {timers[c], AfterConnect(c)},
               GoesOn(c, r) \/ \E reason : DoDelete(c, r, reason)
        PROVE  /\ \A d \in Clients \ {c} : timers'[d] = timers[d]
               /\ "request" \in timers'[c] => "request" \in timers[c]
               /\ "watchdog" \in timers'[c] => "watchdog" \in timers[c]
    <3>1. /\ "request" \in r => "request" \in timers[c]
          /\ "watchdog" \in r => "watchdog" \in timers[c]
      BY DEF AfterConnect
    <3> QED  BY <2>1, <3>1, NewTimersOf, DeletingTimers
  <2> QED  BY <1>2, <2>1
<1>4. \A d \in Clients : HttpUnused(d)'
  BY <1>1, <1>3 DEF HttpInvariant, HttpUnused
<1>5. Rtsp' /\ ~Http'
  BY <1>1, OneProgram DEF Http, Rtsp
<1> QED  BY <1>1, <1>4, <1>5 DEF HttpInvariant, HttpTyped

(* What the program makes of its data: it keeps them, or shows a part of a *)
(* stream, or is done with an answer and asks again or waits to.           *)
LEMMA DataSteps ==
  ASSUME NEW c \in Clients, NEW data, ProcessData(c, data, Watched(c))
  PROVE  \/ /\ Keeps(c, data) /\ UNCHANGED <<asked, shown>>
            /\ GoesOn(c, Watched(c)) \/ \E reason : DoDelete(c, Watched(c), reason)
         \/ /\ Len(data) > 1 /\ Shows(c, data[2]) /\ Keeps(c, ClearPart(data))
            /\ GoesOn(c, Watched(c)) /\ UNCHANGED asked
         \/ /\ Head(data).kind # "stream" /\ Keeps(c, <<>>)
            /\ \/ /\ GoesOn(c, Watched(c)) /\ UNCHANGED shown
                  /\ asked' = [asked EXCEPT ![c] = @ + 1]
               \/ /\ GoesOn(c, Watched(c) \union {"request"}) /\ UNCHANGED asked
                  /\ Shows(c, data[1])
<1>1. CASE Head(data).kind = "401" /\ Unauthorised(c, data, Watched(c))
  <2>1. ASSUME NEW ok \in BOOLEAN, Asks(c, Watched(c), ok), UNCHANGED shown,
               Keeps(c, IF ok THEN <<>> ELSE data)
        PROVE  \/ /\ Keeps(c, data) /\ UNCHANGED <<asked, shown>>
                  /\ \E reason : DoDelete(c, Watched(c), reason)
               \/ /\ Keeps(c, <<>>) /\ GoesOn(c, Watched(c)) /\ UNCHANGED shown
                  /\ asked' = [asked EXCEPT ![c] = @ + 1]
    <3>1. CASE ok = TRUE
      BY <2>1, <3>1 DEF Asks
    <3>2. CASE ok = FALSE
      BY <2>1, <3>2 DEF Asks
    <3> QED  BY <3>1, <3>2
  <2>2. ASSUME NEW reason, Fails(c, data, Watched(c), reason)
        PROVE  /\ Keeps(c, data) /\ UNCHANGED <<asked, shown>>
               /\ DoDelete(c, Watched(c), reason)
    BY <2>2 DEF Fails
  <2> QED  BY <1>1, <2>1, <2>2 DEF Unauthorised
<1>2. CASE Head(data).kind = "404" /\ Fails(c, data, Watched(c), "http client protocol error")
  BY <1>2 DEF Fails
<1> QED  BY <1>1, <1>2 DEF ProcessData

LEMMA HttpOnDataKept ==
  ASSUME StackInvariant, HttpInvariant, Http, NEW c \in Clients, HttpOnData(c),
         UNCHANGED rtspVars
  PROVE  HttpInvariant'
<1>1. PICK items \in 1 .. Len(inbox[c]) :
        /\ Reads(c, items)
        /\ ProcessData(c, m_parser[c] \o SubSeq(inbox[c], 1, items), Watched(c))
  BY DEF HttpOnData
<1> DEFINE data == m_parser[c] \o SubSeq(inbox[c], 1, items)
           rest == SubSeq(inbox[c], items + 1, Len(inbox[c]))
<1>2. /\ m_parser[c] \in Seq(HttpItem) /\ inbox[c] \in Seq(HttpItem) /\ served[c] \in Nat
      /\ HttpAt(c)
  BY HttpAssumption DEF HttpInvariant, HttpTyped
<1>3. /\ data \in Seq(HttpItem) /\ rest \in Seq(HttpItem) /\ Len(data) >= 1
      /\ data \o rest = Data(c)
  BY <1>2, ReadPart, ZenonT(40) DEF Data
<1>4. /\ inbox' = [inbox EXCEPT ![c] = rest] /\ UNCHANGED <<option, m_state, served>>
      /\ inbox'[c] = rest /\ inbox' \in [Clients -> Seq(HttpItem)]
      /\ \A d \in Clients \ {c} : inbox'[d] = inbox[d]
      /\ m_state[c] = "connected"
  <2>1. /\ inbox' = [inbox EXCEPT ![c] = rest] /\ UNCHANGED <<option, m_state, served>>
        /\ "read" \in handlers[c]
    BY <1>1 DEF Reads, HttpOnData
  <2> QED
    BY <1>3, <2>1 DEF HttpInvariant, StackInvariant, SocketInvariant, SocketAt
<1>5. ProcessData(c, data, Watched(c))
  BY <1>1
<1> HIDE DEF data, rest
<1>6. /\ Len(data) \in Nat /\ Len(rest) \in Nat /\ Len(Data(c)) = Len(data) + Len(rest)
      /\ Data(c) \in Seq(HttpItem) /\ data[1] = Data(c)[1] /\ Data(c) # <<>>
      /\ Head(data) = data[1]
  <2>1. /\ data \o rest \in Seq(HttpItem) /\ Len(data \o rest) = Len(data) + Len(rest)
        /\ \A i \in 1 .. Len(data) : (data \o rest)[i] = data[i]
        /\ Len(data) \in Nat /\ Len(rest) \in Nat
    BY <1>3, ConcatAt
  <2>2. 1 \in 1 .. Len(data) /\ Len(data \o rest) # 0
    BY <1>3, <2>1
  <2>3. Data(c) # <<>>
    BY <1>3, <2>2, EmptySeq
  <2>4. Head(data) = data[1]
    BY <1>3, <2>1
  <2> QED  BY <1>3, <2>1, <2>2, <2>3, <2>4
<1>7. asked[c] = 0 /\ "request" \notin timers[c]
  <2>1. asked[c] \in 0 .. 1
    BY DEF HttpInvariant, HttpTyped
  <2>2. asked[c] # 1 /\ "request" \notin timers[c]
    BY <1>2, <1>6 DEF HttpAt
  <2> QED  BY <2>1, <2>2
<1>8. "request" \notin Watched(c)
  BY <1>7 DEF Watched
<1>9. /\ \A d \in Clients \ {c} : timers'[d] = timers[d]
      /\ m_tried_auth' \in [Clients -> BOOLEAN]
  <2>1. \E r : GoesOn(c, r) \/ \E reason : DoDelete(c, r, reason)
    BY <1>5, DataSteps
  <2>2. \A d \in Clients \ {c} : timers'[d] = timers[d]
    BY <2>1, NewTimersOf
  <2>3. m_tried_auth' = m_tried_auth \/ m_tried_auth' = [m_tried_auth EXCEPT ![c] = TRUE]
    BY <1>5 DEF ProcessData, Unauthorised
  <2> QED  BY <2>2, <2>3 DEF HttpInvariant
<1> DEFINE Typed ==
             /\ HttpTyped' /\ \A d \in Clients \ {c} :
                  m_parser'[d] = m_parser[d] /\ asked'[d] = asked[d] /\ shown'[d] = shown[d]
<1>10. DataOK(Data(c), served[c], shown[c])
  BY <1>2 DEF HttpAt
<1>11. ASSUME Typed, HttpAt(c)' PROVE HttpInvariant'
  <2>1. \A d \in Clients \ {c} : HttpAt(d)'
    BY <1>4, <1>9, <1>11, OtherHttp
  <2>2. Http' /\ ~Rtsp'
    BY <1>4 DEF Http, Rtsp
  <2> QED  BY <1>4, <1>9, <1>11, <2>1, <2>2 DEF HttpInvariant
<1>12. CASE /\ Keeps(c, data) /\ UNCHANGED <<asked, shown>>
            /\ GoesOn(c, Watched(c)) \/ \E reason : DoDelete(c, Watched(c), reason)
  <2>1. Typed /\ m_parser'[c] = data
    BY <1>3, <1>4, <1>12 DEF Keeps, HttpInvariant, HttpTyped
  <2>2. Data(c)' = Data(c)
    BY <1>3, <1>4, <2>1 DEF Data
  <2>3. "request" \notin timers'[c]
    BY <1>8, <1>12, NewTimersOf, DeletingTimers
  <2>4. DataOK(Data(c), served[c], shown[c])'
    BY <1>4, <1>10, <1>12, <2>2
  <2>5. HttpAt(c)'
    BY <1>4, <1>6, <1>7, <1>12, <2>2, <2>3, <2>4 DEF HttpAt
  <2> QED  BY <1>11, <2>1, <2>5
<1>13. CASE /\ Len(data) > 1 /\ Shows(c, data[2]) /\ Keeps(c, ClearPart(data))
            /\ GoesOn(c, Watched(c)) /\ UNCHANGED asked
  <2>1. /\ ClearPart(data) \in Seq(HttpItem) /\ Len(ClearPart(data)) >= 1
        /\ Len(ClearPart(data) \o rest) = Len(data \o rest) - 1
        /\ ClearPart(data) \o rest \in Seq(HttpItem)
    BY <1>3, <1>13, ClearPartElements
  <2>2. data[2].n \in Nat
    <3>1. 2 \in DOMAIN data
      BY <1>3, <1>6, <1>13, LenProperties
    <3> QED  BY <1>3, <3>1, ItemsTyped
  <2>3. m_parser'[c] = ClearPart(data) /\ m_parser' \in [Clients -> Seq(HttpItem)]
        /\ \A d \in Clients \ {c} : m_parser'[d] = m_parser[d]
    BY <1>13, <2>1 DEF Keeps, HttpInvariant, HttpTyped
  <2>4. shown'[c] = Append(shown[c], data[2].n) /\ shown' \in [Clients -> Seq(Nat)]
        /\ \A d \in Clients \ {c} : shown'[d] = shown[d]
    <3>1. shown[c] \in Seq(Nat)
      BY DEF HttpInvariant, HttpTyped
    <3>2. Append(shown[c], data[2].n) \in Seq(Nat)
      BY <2>2, <3>1, AppendProperties
    <3> QED  BY <1>13, <3>2 DEF Shows, HttpInvariant, HttpTyped
  <2>5. Typed
    BY <1>4, <1>13, <2>3, <2>4 DEF HttpInvariant, HttpTyped
  <2>6. Data(c)' = ClearPart(data) \o rest
    BY <1>4, <2>3 DEF Data
  <2>7. DataOK(ClearPart(data) \o rest, served[c], Append(shown[c], data[2].n))
    BY <1>2, <1>3, <1>10, <1>13, DataPartShown
  <2>8. DataOK(Data(c), served[c], shown[c])'
    BY <1>4, <2>4, <2>6, <2>7
  <2>9. Data(c)' # <<>>
    <3>1. Len(data \o rest) - 1 >= 1
      BY <1>3, <1>6, <1>13
    <3> QED  BY <2>1, <2>6, <3>1, EmptySeq
  <2>10. "request" \notin timers'[c]
    BY <1>8, <1>13, NewTimersOf
  <2>11. HttpAt(c)'
    BY <1>4, <1>7, <1>13, <2>8, <2>9, <2>10 DEF HttpAt
  <2> QED  BY <1>11, <2>5, <2>11
<1>14. ASSUME Head(data).kind # "stream", Keeps(c, <<>>)
       PROVE  /\ m_parser'[c] = <<>> /\ m_parser' \in [Clients -> Seq(HttpItem)]
              /\ \A d \in Clients \ {c} : m_parser'[d] = m_parser[d]
              /\ Data(c)' = <<>> /\ Data(c)[1].kind # "stream"
  <2>1. m_parser'[c] = <<>> /\ m_parser' \in [Clients -> Seq(HttpItem)]
        /\ \A d \in Clients \ {c} : m_parser'[d] = m_parser[d]
    BY <1>14, EmptySeq DEF Keeps, HttpInvariant, HttpTyped
  <2>2. Len(Data(c)) = 1 /\ Data(c)[1].kind # "stream"
    BY <1>6, <1>10, <1>14, DataAlone
  <2>3. Len(rest) = 0
    BY <1>3, <1>6, <2>2
  <2>4. rest = <<>>
    BY <1>3, <2>3, EmptySeq
  <2>5. Data(c)' = <<>> \o <<>>
    BY <1>4, <2>1, <2>4 DEF Data
  <2> QED  BY <2>1, <2>2, <2>5, EmptySeq, ConcatEmptySeq
<1>15. CASE /\ Head(data).kind # "stream" /\ Keeps(c, <<>>) /\ GoesOn(c, Watched(c))
            /\ UNCHANGED shown /\ asked' = [asked EXCEPT ![c] = @ + 1]
  <2>1. asked'[c] = 1 /\ asked' \in [Clients -> 0 .. 1]
        /\ \A d \in Clients \ {c} : asked'[d] = asked[d]
    BY <1>7, <1>15 DEF HttpInvariant, HttpTyped
  <2>2. Typed
    BY <1>4, <1>14, <1>15, <2>1 DEF HttpInvariant, HttpTyped
  <2>3. DataOK(<<>>, served[c], shown[c])
    BY <1>10, DataGone
  <2>4. DataOK(Data(c), served[c], shown[c])'
    BY <1>4, <1>14, <1>15, <2>3
  <2>5. "request" \notin timers'[c]
    BY <1>8, <1>15, NewTimersOf
  <2>6. HttpAt(c)'
    BY <1>4, <1>14, <1>15, <2>1, <2>4, <2>5 DEF HttpAt
  <2> QED  BY <1>11, <2>2, <2>6
<1>16. CASE /\ Head(data).kind # "stream" /\ Keeps(c, <<>>) /\ UNCHANGED asked
            /\ GoesOn(c, Watched(c) \union {"request"}) /\ Shows(c, data[1])
  <2>1. data[1].n \in Nat
    <3>1. 1 \in DOMAIN data
      BY <1>3, <1>6, LenProperties
    <3> QED  BY <1>3, <3>1, ItemsTyped
  <2>2. shown'[c] = Append(shown[c], data[1].n) /\ shown' \in [Clients -> Seq(Nat)]
        /\ \A d \in Clients \ {c} : shown'[d] = shown[d]
    <3>1. shown[c] \in Seq(Nat)
      BY DEF HttpInvariant, HttpTyped
    <3>2. Append(shown[c], data[1].n) \in Seq(Nat)
      BY <2>1, <3>1, AppendProperties
    <3> QED  BY <1>16, <3>2 DEF Shows, HttpInvariant, HttpTyped
  <2>3. Typed
    BY <1>4, <1>14, <1>16, <2>2 DEF HttpInvariant, HttpTyped
  <2>4. DataOK(<<>>, served[c], Append(shown[c], data[1].n))
    BY <1>2, <1>6, <1>10, <1>14, <1>16, DataShown
  <2>5. DataOK(Data(c), served[c], shown[c])'
    BY <1>4, <1>14, <1>16, <2>2, <2>4
  <2>6. "request" \in timers'[c]
    BY <1>16, NewTimersOf
  <2>7. HttpAt(c)'
    BY <1>4, <1>7, <1>14, <1>16, <2>5, <2>6 DEF HttpAt
  <2> QED  BY <1>11, <2>3, <2>7
<1> QED  BY <1>5, <1>12, <1>13, <1>15, <1>16, DataSteps

LEMMA HttpServesKept ==
  ASSUME StackInvariant, HttpInvariant, Http, NEW c \in Clients, HttpServes(c)
  PROVE  HttpInvariant'
<1> DEFINE Item(kind) == [kind |-> kind, n |-> served[c] + 1]
<1>1. /\ served[c] < MaxServed /\ served' = [served EXCEPT ![c] = @ + 1]
      /\ UNCHANGED <<option, m_parser, m_tried_auth, shown, m_state, timers>>
  BY DEF HttpServes, Delivers, session
<1>2. PICK kind \in Answers \union {"part"} :
        /\ Delivers(c, Item(kind))
        /\ \/ kind \in Answers /\ asked[c] > 0 /\ asked' = [asked EXCEPT ![c] = @ - 1]
           \/ kind = "part" /\ Streaming(c) /\ UNCHANGED asked
  BY DEF HttpServes
<1>3. /\ inbox' = [inbox EXCEPT ![c] = Append(@, Item(kind))] /\ m_state[c] = "connected"
  BY <1>2 DEF Delivers, StackInvariant, SocketInvariant, SocketAt
<1>4. /\ HttpAt(c) /\ m_parser[c] \in Seq(HttpItem) /\ inbox[c] \in Seq(HttpItem)
      /\ shown[c] \in Seq(Nat) /\ inbox \in [Clients -> Seq(HttpItem)]
      /\ asked[c] \in 0 .. 1
  BY DEF HttpInvariant, HttpTyped
<1>5. /\ served[c] \in Nat /\ served' \in [Clients -> 0 .. MaxServed]
      /\ served'[c] = served[c] + 1 /\ \A d \in Clients \ {c} : served'[d] = served[d]
  BY <1>1, HttpAssumption DEF HttpInvariant, HttpTyped
<1>6. Item(kind) \in HttpItem /\ Item(kind).n = served[c] + 1 /\ Item(kind).kind = kind
  BY <1>5 DEF HttpItem
<1> HIDE DEF Item
<1>7. /\ inbox' \in [Clients -> Seq(HttpItem)] /\ inbox'[c] = Append(inbox[c], Item(kind))
      /\ \A d \in Clients \ {c} : inbox'[d] = inbox[d]
  <2>1. Append(inbox[c], Item(kind)) \in Seq(HttpItem)
    BY <1>4, <1>6, AppendProperties
  <2> QED  BY <1>3, <1>4, <2>1
<1>8. Data(c)' = Append(Data(c), Item(kind))
  <2>1. m_parser[c] \o Append(inbox[c], Item(kind)) = Append(m_parser[c] \o inbox[c], Item(kind))
    <3>1. ASSUME NEW p \in Seq(HttpItem), NEW q \in Seq(HttpItem), NEW e \in HttpItem
          PROVE  p \o Append(q, e) = Append(p \o q, e)
      BY AppendRight
    <3> QED  BY <1>4, <1>6, <3>1
  <2> QED  BY <1>1, <1>7, <2>1 DEF Data
<1>9. /\ asked' \in [Clients -> 0 .. 1] /\ asked'[c] = 0
      /\ \A d \in Clients \ {c} : asked'[d] = asked[d]
      /\ \/ Data(c) = <<>> /\ kind \in Answers
         \/ Data(c) # <<>> /\ Data(c)[1].kind = "stream" /\ kind = "part"
      /\ "request" \notin timers[c]
  <2>1. CASE kind \in Answers /\ asked[c] > 0 /\ asked' = [asked EXCEPT ![c] = @ - 1]
    <3>1. asked[c] = 1
      BY <1>4, <2>1
    <3>2. Data(c) = <<>> /\ "request" \notin timers[c]
      BY <1>4, <3>1 DEF HttpAt
    <3>3. /\ asked' \in [Clients -> 0 .. 1] /\ asked'[c] = 0
          /\ \A d \in Clients \ {c} : asked'[d] = asked[d]
      BY <2>1, <3>1 DEF HttpInvariant, HttpTyped
    <3> QED  BY <2>1, <3>2, <3>3
  <2>2. CASE kind = "part" /\ Streaming(c) /\ UNCHANGED asked
    <3>1. PICK i \in DOMAIN Data(c) : Data(c)[i].kind = "stream"
      <4>1. /\ \A i \in DOMAIN m_parser[c] : i \in DOMAIN Data(c) /\ Data(c)[i] = m_parser[c][i]
            /\ \A i \in DOMAIN inbox[c] :
                 /\ Len(m_parser[c]) + i \in DOMAIN Data(c)
                 /\ Data(c)[Len(m_parser[c]) + i] = inbox[c][i]
        BY <1>4, ConcatDomain DEF Data
      <4>2. CASE m_parser[c] # <<>> /\ m_parser[c][1].kind = "stream"
        <5>1. 1 \in DOMAIN m_parser[c]
          BY <1>4, <4>2, EmptySeq, LenProperties
        <5> QED  BY <4>1, <4>2, <5>1
      <4>3. CASE \E i \in DOMAIN inbox[c] : inbox[c][i].kind = "stream"
        BY <4>1, <4>3
      <4> QED  BY <2>2, <4>2, <4>3 DEF Streaming
    <3>2. DataOK(Data(c), served[c], shown[c])
      BY <1>4 DEF HttpAt
    <3>3. Data(c) \in Seq(HttpItem)
      BY <3>2 DEF DataOK
    <3>4. i \in 1 .. Len(Data(c)) /\ Len(Data(c)) \in Nat
      BY <3>1, <3>3, LenProperties
    <3>5. i = 1 /\ Data(c) # <<>>
      <4>1. ~(i > 1)
        BY <3>1, <3>2 DEF DataOK
      <4> QED  BY <3>4, <4>1, EmptySeq
    <3>6. asked[c] # 1 /\ "request" \notin timers[c]
      BY <1>4, <3>5 DEF HttpAt
    <3>7. asked[c] = 0
      BY <1>4, <3>6
    <3> QED  BY <2>2, <3>1, <3>5, <3>6, <3>7 DEF HttpInvariant, HttpTyped
  <2> QED  BY <1>2, <2>1, <2>2
<1>10. DataOK(Data(c), served[c], shown[c])'
  <2>1. DataOK(Data(c), served[c], shown[c])
    BY <1>4 DEF HttpAt
  <2>2. DataOK(Append(Data(c), Item(kind)), served[c] + 1, shown[c])
    BY <1>5, <1>6, <1>9, <2>1, DataSent
  <2> QED  BY <1>1, <1>5, <1>8, <2>2
<1>11. Data(c)' # <<>>
  <2>1. Data(c) \in Seq(HttpItem)
    BY <1>4 DEF HttpAt, DataOK
  <2> QED  BY <1>6, <1>8, <2>1, AppendProperties
<1>12. HttpAt(c)'
  BY <1>1, <1>3, <1>9, <1>10, <1>11 DEF HttpAt
<1>13. \A d \in Clients \ {c} : HttpAt(d)'
  BY <1>1, <1>5, <1>7, <1>9, OtherHttp
<1>14. Http' /\ ~Rtsp'
  BY <1>1 DEF Http, Rtsp
<1> QED  BY <1>1, <1>5, <1>7, <1>9, <1>12, <1>13, <1>14 DEF HttpInvariant, HttpTyped

LEMMA HttpKept ==
  ASSUME StackInvariant, StackInvariant', HttpInvariant, [Next]_vars
  PROVE  HttpInvariant'
<1>1. CASE UNCHANGED vars
  <2>1. Quiet
    BY <1>1 DEF vars, session, sockets, Quiet, SameConnection
  <2> QED  BY <2>1, QuietHttp
<1>2. ASSUME NEW c \in Clients, Callback(c) \/ Lookup(c) \/ Server(c)
      PROVE  HttpInvariant'
  <2>1. CASE ConnectTimer(c) \/ FutureEvent(c) \/ ConnectFailure(c)
    BY <2>1, ConnectingQuiet, QuietHttp
  <2>2. CASE ConnectionTimeout(c) \/ WatchdogTimeout(c)
    <3>1. UNCHANGED <<httpVars, rtspVars>>
      BY <2>2 DEF ConnectionTimeout, WatchdogTimeout, OnWatchdogTimeout
    <3> QED  BY <2>2, <3>1, TimeoutQuiet, QuietHttp
  <2>3. CASE Reconnect(c)
    BY <2>3, ReconnectQuiet, QuietHttp
  <2>4. CASE Lookup(c)
    BY <2>4, OutsideQuiet, QuietHttp
  <2>5. CASE Connect(c)
    <3>1. CASE Http /\ HttpOnConnect(c)
      BY <3>1, HttpConnectKept
    <3>2. CASE Rtsp /\ RtspOnConnect(c) /\ UNCHANGED httpVars
      BY <3>2, RtspUnused
    <3> QED  BY <2>5, <3>1, <3>2 DEF Connect
  <2>6. CASE Read(c)
    <3>1. CASE Http /\ HttpOnData(c) /\ UNCHANGED rtspVars
      BY <3>1, HttpOnDataKept
    <3>2. CASE Rtsp /\ RtspOnData(c) /\ UNCHANGED httpVars
      BY <3>2, RtspUnused
    <3>3. CASE ReadEnd(c) /\ UNCHANGED <<httpVars, rtspVars>>
      BY <3>3, TimeoutQuiet, QuietHttp
    <3> QED  BY <2>6, <3>1, <3>2, <3>3 DEF Read
  <2>7. CASE RequestTimeout(c)
    BY <2>7, RequestTimeoutKept
  <2>8. CASE DeletionTimeout(c)
    BY <2>8, HttpForgetsKept
  <2>9. CASE Server(c)
    <3>1. CASE Http /\ HttpServes(c)
      BY <3>1, HttpServesKept
    <3>2. CASE Rtsp /\ RtspServes(c) /\ UNCHANGED httpVars
      BY <3>2, RtspUnused
    <3>3. CASE PeerLeaves(c) /\ UNCHANGED <<httpVars, rtspVars>>
      BY <3>3, OutsideQuiet, QuietHttp
    <3> QED  BY <2>9, <3>1, <3>2, <3>3 DEF Server
  <2> QED
    BY <1>2, <2>1, <2>2, <2>3, <2>4, <2>5, <2>6, <2>7, <2>8, <2>9 DEF Callback, Connecting
<1> QED  BY <1>1, <1>2 DEF Next

LEMMA HttpStarts ==
  ASSUME Init
  PROVE  HttpInvariant
<1>1. /\ m_parser = [c \in Clients |-> <<>>] /\ m_tried_auth = [c \in Clients |-> FALSE]
      /\ asked = [c \in Clients |-> 0] /\ served = [c \in Clients |-> 0]
      /\ shown = [c \in Clients |-> <<>>] /\ inbox = [c \in Clients |-> <<>>]
  BY DEF Init, StackInit, HttpInit
<1>2. \A c \in Clients : timers[c] \subseteq {"connect", "connection"}
                         /\ m_state[c] \in {"none", "idle"}
  BY DEF Init, StackInit, NewTimers
<1>3. <<>> \in Seq(HttpItem) /\ <<>> \in Seq(Nat) /\ 0 \in 0 .. MaxServed
  BY HttpAssumption, EmptySeq
<1>4. HttpTyped /\ inbox \in [Clients -> Seq(HttpItem)] /\ m_tried_auth \in [Clients -> BOOLEAN]
  BY <1>1, <1>3 DEF HttpTyped
<1>5. ASSUME NEW c \in Clients PROVE HttpAt(c) /\ HttpUnused(c)
  <2>1. Data(c) = <<>>
    <3>1. <<>> \o <<>> = <<>>
      BY EmptySeq, ConcatEmptySeq
    <3> QED  BY <1>1, <3>1 DEF Data
  <2>2. DataOK(<<>>, 0, <<>>)
    BY EmptySeq DEF DataOK
  <2>3. DataOK(Data(c), served[c], shown[c])
    BY <1>1, <2>1, <2>2
  <2> QED  BY <1>1, <1>2, <2>1, <2>3 DEF HttpAt, HttpUnused
<1> QED  BY <1>4, <1>5 DEF HttpInvariant

-----------------------------------------------------------------------------
(* The rtsp client's dialogue. *)

RtspItem == [kind : {"ok", "401", "bad"}, cseq : Nat]

RtspTyped ==
  /\ m_dialogue \in [Clients -> Dialogue]
  /\ m_seq \in [Clients -> Nat]
  /\ replies \in [Clients -> 0 .. MaxReplies]
  /\ replied \in [Clients -> SUBSET Nat]
  /\ sent \in [Clients -> Seq(Methods)]

RtspFlags ==
  /\ m_authentication_supplied \in [Clients -> BOOLEAN]
  /\ m_unclear \in [Clients -> BOOLEAN]

(* A request has the next number, and follows an answer to the last.       *)
RtspAt(c) ==
  /\ m_seq[c] = Len(sent[c]) + 1 /\ replied[c] \subseteq DOMAIN sent[c]
  /\ \A i \in DOMAIN sent[c] : i > 1 => i - 1 \in replied[c]
  /\ m_state[c] # "connected" => sent[c] = <<>>

(* Whatever is on its way answers a request. *)
Answering(c) ==
  inbox[c] \in Seq(RtspItem) /\ \A i \in DOMAIN inbox[c] : inbox[c][i].cseq \in replied[c]

RtspInvariant ==
  /\ RtspTyped /\ RtspFlags
  /\ \A c \in Clients : RtspAt(c)
  /\ Rtsp => inbox \in [Clients -> Seq(RtspItem)] /\ \A c \in Clients : Answering(c)

(* Steps in which nothing is requested. *)
LEMMA NotRtsp ==
  ASSUME RtspInvariant, UNCHANGED <<option, rtspVars>>,
         \A c \in Clients : m_state'[c] # "connected" => m_state[c] # "connected",
         inbox' = inbox \/ ~Rtsp
  PROVE  RtspInvariant'
<1>1. UNCHANGED <<m_dialogue, m_seq, m_authentication_supplied, m_unclear,
                  replies, replied, sent>>
  BY DEF rtspVars
<1>2. RtspTyped' /\ RtspFlags'
  BY <1>1 DEF RtspInvariant, RtspTyped, RtspFlags
<1>3. \A c \in Clients : RtspAt(c)'
  BY <1>1 DEF RtspInvariant, RtspAt
<1>4. Rtsp' => (inbox \in [Clients -> Seq(RtspItem)] /\ \A c \in Clients : Answering(c))'
  BY <1>1 DEF RtspInvariant, Answering, Rtsp
<1> QED  BY <1>2, <1>3, <1>4 DEF RtspInvariant

LEMMA RtspForgetsKept ==
  ASSUME StackInvariant, RtspInvariant, NEW c \in Clients, DeletionTimeout(c)
  PROVE  RtspInvariant'
<1>1. /\ option' = option /\ m_state' = [m_state EXCEPT ![c] = "none"]
      /\ inbox' = [inbox EXCEPT ![c] = <<>>]
      /\ m_dialogue' = [m_dialogue EXCEPT ![c] = "connecting"]
      /\ m_seq' = [m_seq EXCEPT ![c] = 1]
      /\ m_authentication_supplied' = [m_authentication_supplied EXCEPT ![c] = FALSE]
      /\ m_unclear' = [m_unclear EXCEPT ![c] = FALSE]
      /\ replies' = [replies EXCEPT ![c] = 0]
      /\ replied' = [replied EXCEPT ![c] = {}]
      /\ sent' = [sent EXCEPT ![c] = <<>>]
  BY DEF DeletionTimeout, OnDeletionTimeout, RtspForgets
<1>2. RtspFlags'
  BY <1>1 DEF RtspInvariant, RtspFlags
<1>3. RtspTyped'
  <2>1. <<>> \in Seq(Methods) /\ 0 \in 0 .. MaxReplies /\ "connecting" \in Dialogue
    BY EmptySeq, RtspAssumption DEF Dialogue
  <2> QED  BY <1>1, <2>1 DEF RtspInvariant, RtspTyped
<1>4. ASSUME NEW d \in Clients PROVE RtspAt(d)'
  <2>1. CASE d = c
    <3>1. m_seq'[c] = 1 /\ replied'[c] = {} /\ sent'[c] = <<>> /\ Len(<<>>) = 0
      BY <1>1, EmptySeq DEF RtspInvariant, RtspTyped
    <3> QED  BY <2>1, <3>1 DEF RtspAt
  <2>2. CASE d # c
    BY <1>1, <2>2 DEF RtspInvariant, RtspTyped, RtspAt, StackInvariant, StackTyped
  <2> QED  BY <2>1, <2>2
<1>5. ASSUME Rtsp
      PROVE  (inbox \in [Clients -> Seq(RtspItem)] /\ \A d \in Clients : Answering(d))'
  <2>1. inbox' \in [Clients -> Seq(RtspItem)] /\ inbox'[c] = <<>>
        /\ \A d \in Clients \ {c} : inbox'[d] = inbox[d] /\ replied'[d] = replied[d]
    BY <1>1, <1>5, EmptySeq DEF RtspInvariant, RtspTyped
  <2>2. \A d \in Clients : Answering(d)
    BY <1>5 DEF RtspInvariant
  <2>3. Answering(c)'
    BY <2>1, EmptySeq DEF Answering
  <2> QED  BY <2>1, <2>2, <2>3 DEF Answering
<1> QED  BY <1>1, <1>2, <1>3, <1>4, <1>5 DEF RtspInvariant, Rtsp

(* A request that is the first, or is made on an answer to the last. *)
LEMMA RequestsKept ==
  ASSUME StackInvariant, RtspInvariant, Rtsp, NEW c \in Clients,
         NEW method \in Methods, NEW next \in Dialogue, NEW timersLeft,
         Requests(c, method, next, timersLeft),
         Len(sent[c]) = 0 \/ Len(sent[c]) \in replied[c],
         m_state'[c] = "connected", \A d \in Clients \ {c} : m_state'[d] = m_state[d],
         UNCHANGED <<option, replies, replied>>,
         m_authentication_supplied' \in [Clients -> BOOLEAN],
         inbox' \in [Clients -> Seq(RtspItem)],
         \A d \in Clients : \A i \in DOMAIN inbox'[d] : inbox'[d][i].cseq \in replied[d]
  PROVE  RtspInvariant'
<1>1. /\ m_seq' = [m_seq EXCEPT ![c] = @ + 1]
      /\ sent' = [sent EXCEPT ![c] = Append(@, method)]
      /\ m_dialogue' = m_dialogue \/ m_dialogue' = [m_dialogue EXCEPT ![c] = next]
      /\ m_unclear' = m_unclear \/ m_unclear' = [m_unclear EXCEPT ![c] = TRUE]
  BY DEF Requests
<1>2. /\ sent[c] \in Seq(Methods) /\ Append(sent[c], method) \in Seq(Methods)
      /\ Len(Append(sent[c], method)) = Len(sent[c]) + 1 /\ Len(sent[c]) \in Nat
      /\ DOMAIN Append(sent[c], method) = 1 .. Len(sent[c]) + 1
      /\ DOMAIN sent[c] = 1 .. Len(sent[c])
  <2>1. sent[c] \in Seq(Methods)
    BY DEF RtspInvariant, RtspTyped
  <2> QED  BY <2>1, AppendProperties, LenProperties
<1>3. RtspTyped'
  <2>1. m_dialogue' \in [Clients -> Dialogue]
    BY <1>1 DEF RtspInvariant, RtspTyped
  <2>2. m_seq' \in [Clients -> Nat]
    BY <1>1 DEF RtspInvariant, RtspTyped
  <2>3. sent' \in [Clients -> Seq(Methods)]
    BY <1>1, <1>2 DEF RtspInvariant, RtspTyped
  <2> QED  BY <2>1, <2>2, <2>3 DEF RtspInvariant, RtspTyped
<1>4. RtspFlags'
  BY <1>1 DEF RtspInvariant, RtspFlags
<1>5. ASSUME NEW d \in Clients PROVE RtspAt(d)'
  <2>1. CASE d = c
    <3>1. m_seq'[c] = m_seq[c] + 1 /\ sent'[c] = Append(sent[c], method) /\ RtspAt(c)
      BY <1>1 DEF RtspInvariant, RtspTyped
    <3>2. m_seq'[c] = Len(sent'[c]) + 1
      BY <1>2, <3>1 DEF RtspAt
    <3>3. replied'[c] \subseteq DOMAIN sent'[c]
      BY <1>2, <3>1 DEF RtspAt
    <3>4. ASSUME NEW i \in DOMAIN sent'[c], i > 1 PROVE i - 1 \in replied[c]
      <4>1. CASE i \in DOMAIN sent[c]
        BY <3>1, <3>4, <4>1 DEF RtspAt
      <4>2. CASE i = Len(sent[c]) + 1
        <5>1. i - 1 = Len(sent[c]) /\ Len(sent[c]) # 0
          BY <1>2, <3>4, <4>2
        <5> QED  BY <5>1
      <4> QED  BY <1>2, <3>1, <4>1, <4>2
    <3> QED  BY <2>1, <3>2, <3>3, <3>4 DEF RtspAt
  <2>2. CASE d # c
    BY <1>1, <2>2 DEF RtspInvariant, RtspTyped, RtspAt
  <2> QED  BY <2>1, <2>2
<1>6. \A d \in Clients : Answering(d)'
  BY DEF Answering
<1> QED  BY <1>3, <1>4, <1>5, <1>6 DEF RtspInvariant

LEMMA RtspConnectKept ==
  ASSUME StackInvariant, RtspInvariant, Rtsp, NEW c \in Clients, RtspOnConnect(c)
  PROVE  RtspInvariant'
<1>1. /\ Requests(c, "OPTIONS", "options", AfterConnect(c))
      /\ UNCHANGED <<option, inbox, m_authentication_supplied, replies, replied>>
      /\ m_state[c] = "connecting" /\ m_state' = [m_state EXCEPT ![c] = "connected"]
  BY DEF RtspOnConnect, HasPeer, ConnectEvent
<1>2. m_state'[c] = "connected" /\ \A d \in Clients \ {c} : m_state'[d] = m_state[d]
  BY <1>1 DEF StackInvariant, StackTyped
<1>3. Len(sent[c]) = 0
  <2>1. sent[c] = <<>>
    BY <1>1 DEF RtspInvariant, RtspAt
  <2> QED  BY <2>1, EmptySeq
<1>4. /\ inbox' \in [Clients -> Seq(RtspItem)]
      /\ \A d \in Clients : \A i \in DOMAIN inbox'[d] : inbox'[d][i].cseq \in replied[d]
      /\ m_authentication_supplied' \in [Clients -> BOOLEAN]
  BY <1>1 DEF RtspInvariant, Answering, RtspFlags
<1>5. "OPTIONS" \in Methods /\ "options" \in Dialogue
  BY DEF Methods, Dialogue
<1> QED  BY <1>1, <1>2, <1>3, <1>4, <1>5, RequestsKept

LEMMA RtspOnDataKept ==
  ASSUME StackInvariant, RtspInvariant, Rtsp, NEW c \in Clients, RtspOnData(c)
  PROVE  RtspInvariant'
<1> DEFINE item == Head(inbox[c])
           rest == SubSeq(inbox[c], 2, Len(inbox[c]))
<1>1. /\ inbox[c] # <<>> /\ inbox' = [inbox EXCEPT ![c] = rest]
      /\ "read" \in handlers[c] /\ UNCHANGED <<option, m_state, replies, replied>>
      /\ Accepts(c, item) \/ Refuses(c, item)
  BY DEF RtspOnData, Reads
<1>2. m_state[c] = "connected"
  BY <1>1 DEF StackInvariant, SocketInvariant, SocketAt
<1>3. /\ inbox[c] \in Seq(RtspItem) /\ inbox \in [Clients -> Seq(RtspItem)]
      /\ \A d \in Clients : \A i \in DOMAIN inbox[d] : inbox[d][i].cseq \in replied[d]
      /\ RtspAt(c)
  BY DEF RtspInvariant, Answering
<1>4. /\ rest \in Seq(RtspItem) /\ item.cseq \in replied[c]
      /\ \A i \in DOMAIN rest : rest[i].cseq \in replied[c]
  <2>1. /\ Len(inbox[c]) \in Nat /\ DOMAIN inbox[c] = 1 .. Len(inbox[c])
        /\ Len(inbox[c]) # 0 /\ item = inbox[c][1] /\ rest = Tail(inbox[c])
    BY <1>1, <1>3, EmptySeq, LenProperties, TailIsSubSeq
  <2>2. /\ rest \in Seq(RtspItem) /\ Len(rest) = Len(inbox[c]) - 1
        /\ \A i \in 1 .. Len(rest) : rest[i] = inbox[c][i + 1]
    BY <1>1, <1>3, <2>1, HeadTailProperties
  <2>3. item.cseq \in replied[c]
    BY <1>3, <2>1
  <2> HIDE DEF rest, item
  <2>4. DOMAIN rest = 1 .. Len(rest)
    BY <2>2, LenProperties
  <2>5. ASSUME NEW i \in DOMAIN rest PROVE rest[i].cseq \in replied[c]
    <3>1. i + 1 \in DOMAIN inbox[c] /\ rest[i] = inbox[c][i + 1]
      BY <2>1, <2>2, <2>4
    <3> QED  BY <1>3, <3>1
  <2> QED  BY <2>2, <2>3, <2>5
<1> HIDE DEF rest, item
<1>5. /\ inbox' \in [Clients -> Seq(RtspItem)]
      /\ \A d \in Clients : \A i \in DOMAIN inbox'[d] : inbox'[d][i].cseq \in replied[d]
  BY <1>1, <1>3, <1>4
<1>6. ASSUME UNCHANGED <<m_dialogue, m_seq, sent>>,
             m_unclear' = m_unclear \/ m_unclear' = [m_unclear EXCEPT ![c] = TRUE],
             m_authentication_supplied' \in [Clients -> BOOLEAN]
      PROVE  RtspInvariant'
  <2>1. RtspTyped'
    BY <1>1, <1>6 DEF RtspInvariant, RtspTyped
  <2>2. RtspFlags'
    BY <1>6 DEF RtspInvariant, RtspFlags
  <2>3. \A d \in Clients : RtspAt(d)'
    BY <1>1, <1>6 DEF RtspInvariant, RtspAt
  <2>4. \A d \in Clients : Answering(d)'
    BY <1>1, <1>5 DEF Answering
  <2> QED  BY <1>5, <2>1, <2>2, <2>3, <2>4 DEF RtspInvariant
<1>7. CASE Refuses(c, item)
  <2>1. /\ UNCHANGED <<m_dialogue, m_seq, m_authentication_supplied, sent>>
        /\ m_unclear' = [m_unclear EXCEPT ![c] = TRUE]
    BY <1>7 DEF Refuses
  <2>2. m_authentication_supplied' \in [Clients -> BOOLEAN]
    BY <2>1 DEF RtspInvariant, RtspFlags
  <2> QED  BY <1>6, <2>1, <2>2
<1>8. CASE Accepts(c, item)
  <2>1. Len(sent[c]) \in replied[c]
    <3>1. item.cseq = m_seq[c] - 1 /\ m_seq[c] = Len(sent[c]) + 1
      BY <1>3, <1>8 DEF Accepts, Acceptable, RtspAt
    <3>2. Len(sent[c]) \in Nat
      BY LenProperties DEF RtspInvariant, RtspTyped
    <3>3. item.cseq = Len(sent[c])
      BY <3>1, <3>2
    <3> QED  BY <1>4, <3>3
  <2>2. m_authentication_supplied' \in [Clients -> BOOLEAN]
    <3>1. (AuthenticationRequired(c, item) /\ ~m_unclear'[c]) \in BOOLEAN
      OBVIOUS
    <3>2. m_authentication_supplied' =
            [m_authentication_supplied EXCEPT
               ![c] = @ \/ (AuthenticationRequired(c, item) /\ ~m_unclear'[c])]
      BY <1>8 DEF Accepts
    <3> QED  BY <3>1, <3>2 DEF RtspInvariant, RtspFlags
  <2>3. ASSUME NEW method \in Methods, NEW next \in Dialogue,
               Requests(c, method, next, timers[c])
        PROVE  RtspInvariant'
    BY <1>1, <1>2, <1>5, <2>1, <2>2, <2>3, RequestsKept
  <2>4. \/ Requests(c, "DESCRIBE", "describe", timers[c])
        \/ Requests(c, "SETUP", "setup", timers[c])
        \/ Requests(c, "PLAY", "play", timers[c])
        \/ UNCHANGED <<m_dialogue, m_seq, m_unclear, sent>>
    BY <1>8 DEF Accepts
  <2>5. /\ {"DESCRIBE", "SETUP", "PLAY"} \subseteq Methods
        /\ {"describe", "setup", "play"} \subseteq Dialogue
    BY DEF Methods, Dialogue
  <2> QED  BY <1>6, <2>2, <2>3, <2>4, <2>5
<1> QED  BY <1>1, <1>7, <1>8

LEMMA RtspServesKept ==
  ASSUME StackInvariant, RtspInvariant, Rtsp, NEW c \in Clients, RtspServes(c)
  PROVE  RtspInvariant'
<1>1. PICK cseq \in DOMAIN sent[c], kind \in {"ok", "401", "bad"} :
        /\ Delivers(c, [kind |-> kind, cseq |-> cseq])
        /\ replied' = [replied EXCEPT ![c] = @ \union {cseq}]
  BY DEF RtspServes
<1>2. /\ replies[c] < MaxReplies /\ replies' = [replies EXCEPT ![c] = @ + 1]
      /\ UNCHANGED <<option, m_state, m_dialogue, m_seq, m_authentication_supplied,
                     m_unclear, sent>>
  BY DEF RtspServes, Delivers
<1> DEFINE item == [kind |-> kind, cseq |-> cseq]
<1>3. /\ sent[c] \in Seq(Methods) /\ cseq \in Nat /\ item \in RtspItem /\ item.cseq = cseq
  <2>1. sent[c] \in Seq(Methods)
    BY DEF RtspInvariant, RtspTyped
  <2>2. cseq \in Nat
    BY <2>1, LenProperties
  <2> QED  BY <2>1, <2>2 DEF RtspItem
<1>4. inbox' = [inbox EXCEPT ![c] = Append(@, item)]
  BY <1>1 DEF Delivers
<1> HIDE DEF item
<1>5. /\ inbox[c] \in Seq(RtspItem) /\ inbox \in [Clients -> Seq(RtspItem)]
      /\ \A d \in Clients : \A i \in DOMAIN inbox[d] : inbox[d][i].cseq \in replied[d]
  BY DEF RtspInvariant, Answering
<1>6. /\ Append(inbox[c], item) \in Seq(RtspItem)
      /\ \A i \in DOMAIN Append(inbox[c], item) :
           Append(inbox[c], item)[i] = item
           \/ (i \in DOMAIN inbox[c] /\ Append(inbox[c], item)[i] = inbox[c][i])
  BY <1>3, <1>5, AppendProperties, LenProperties
<1>7. /\ replied' \in [Clients -> SUBSET Nat] /\ replied'[c] = replied[c] \union {cseq}
      /\ \A d \in Clients \ {c} : replied'[d] = replied[d]
  BY <1>1, <1>3 DEF RtspInvariant, RtspTyped
<1>8. replies' \in [Clients -> 0 .. MaxReplies]
  BY <1>2, RtspAssumption DEF RtspInvariant, RtspTyped
<1>9. RtspTyped' /\ RtspFlags'
  <2>1. RtspTyped'
    BY <1>2, <1>7, <1>8 DEF RtspInvariant, RtspTyped
  <2>2. RtspFlags'
    BY <1>2 DEF RtspInvariant, RtspFlags
  <2> QED  BY <2>1, <2>2
<1>10. \A d \in Clients : RtspAt(d)'
  BY <1>2, <1>7 DEF RtspInvariant, RtspAt
<1>11. /\ inbox' \in [Clients -> Seq(RtspItem)] /\ inbox'[c] = Append(inbox[c], item)
       /\ \A d \in Clients \ {c} : inbox'[d] = inbox[d]
  BY <1>4, <1>5, <1>6
<1>12. ASSUME NEW d \in Clients PROVE Answering(d)'
  <2>1. CASE d = c
    <3>1. ASSUME NEW i \in DOMAIN inbox'[c] PROVE inbox'[c][i].cseq \in replied'[c]
      <4>1. inbox'[c][i] = item \/ (i \in DOMAIN inbox[c] /\ inbox'[c][i] = inbox[c][i])
        BY <1>6, <1>11
      <4>2. CASE inbox'[c][i] = item
        BY <1>3, <1>7, <4>2
      <4>3. CASE i \in DOMAIN inbox[c] /\ inbox'[c][i] = inbox[c][i]
        BY <1>5, <1>7, <4>3
      <4> QED  BY <4>1, <4>2, <4>3
    <3> QED  BY <1>11, <2>1, <3>1 DEF Answering
  <2>2. CASE d # c
    BY <1>5, <1>7, <1>11, <2>2 DEF Answering
  <2> QED  BY <2>1, <2>2
<1> QED  BY <1>9, <1>10, <1>11, <1>12 DEF RtspInvariant

LEMMA RtspKept ==
  ASSUME StackInvariant, RtspInvariant, [Next]_vars
  PROVE  RtspInvariant'
<1>1. CASE UNCHANGED vars
  <2>1. UNCHANGED <<option, rtspVars, m_state, inbox>>
    BY <1>1 DEF vars, sockets
  <2> QED  BY <2>1, NotRtsp
<1>2. ASSUME Quiet PROVE RtspInvariant'
  BY <1>2, NotRtsp DEF Quiet, SameConnection
<1>3. ASSUME NEW c \in Clients, Callback(c) \/ Lookup(c) \/ Server(c)
      PROVE  RtspInvariant'
  <2>1. CASE ConnectTimer(c) \/ FutureEvent(c) \/ ConnectFailure(c)
    BY <1>2, <2>1, ConnectingQuiet
  <2>2. CASE ConnectionTimeout(c) \/ Reconnect(c) \/ Lookup(c)
    <3>1. UNCHANGED <<httpVars, rtspVars>>
      BY <2>2 DEF ConnectionTimeout, Reconnect, Lookup
    <3> QED  BY <1>2, <2>2, <3>1, TimeoutQuiet, ReconnectQuiet, OutsideQuiet
  <2>3. CASE RequestTimeout(c) \/ WatchdogTimeout(c)
    <3>1. UNCHANGED <<option, rtspVars, m_state, inbox>>
      BY <2>3 DEF RequestTimeout, WatchdogTimeout, OnRequestTimeout, OnWatchdogTimeout, sockets
    <3> QED  BY <3>1, NotRtsp
  <2>4. CASE Connect(c)
    <3>1. CASE Http /\ HttpOnConnect(c) /\ UNCHANGED rtspVars
      <4>1. UNCHANGED <<option, rtspVars>> /\ ~Rtsp
        BY <3>1, OneProgram DEF HttpOnConnect, HasPeer
      <4>2. \A d \in Clients : m_state'[d] # "connected" => m_state[d] # "connected"
        BY <3>1 DEF HttpOnConnect, HasPeer, StackInvariant, StackTyped
      <4> QED  BY <4>1, <4>2, NotRtsp
    <3>2. CASE Rtsp /\ RtspOnConnect(c)
      BY <3>2, RtspConnectKept
    <3> QED  BY <2>4, <3>1, <3>2 DEF Connect
  <2>5. CASE Read(c)
    <3>1. CASE Http /\ HttpOnData(c) /\ UNCHANGED rtspVars
      <4>1. UNCHANGED <<option, rtspVars, m_state>> /\ ~Rtsp
        BY <3>1, OneProgram DEF HttpOnData, Reads
      <4> QED  BY <4>1, NotRtsp
    <3>2. CASE Rtsp /\ RtspOnData(c)
      BY <3>2, RtspOnDataKept
    <3>3. CASE ReadEnd(c) /\ UNCHANGED <<httpVars, rtspVars>>
      BY <1>2, <3>3, TimeoutQuiet
    <3> QED  BY <2>5, <3>1, <3>2, <3>3 DEF Read
  <2>6. CASE DeletionTimeout(c)
    BY <2>6, RtspForgetsKept
  <2>7. CASE Server(c)
    <3>1. CASE Http /\ HttpServes(c) /\ UNCHANGED rtspVars
      <4>1. UNCHANGED <<option, rtspVars, m_state>> /\ ~Rtsp
        BY <3>1, OneProgram DEF HttpServes, Delivers
      <4> QED  BY <4>1, NotRtsp
    <3>2. CASE Rtsp /\ RtspServes(c)
      BY <3>2, RtspServesKept
    <3>3. CASE PeerLeaves(c) /\ UNCHANGED <<httpVars, rtspVars>>
      BY <1>2, <3>3, OutsideQuiet
    <3> QED  BY <2>7, <3>1, <3>2, <3>3 DEF Server
  <2> QED
    BY <1>3, <2>1, <2>2, <2>3, <2>4, <2>5, <2>6, <2>7 DEF Callback, Connecting
<1> QED  BY <1>1, <1>3 DEF Next

LEMMA RtspStarts ==
  ASSUME Init
  PROVE  RtspInvariant
<1>1. /\ m_dialogue = [c \in Clients |-> "connecting"] /\ m_seq = [c \in Clients |-> 1]
      /\ replies = [c \in Clients |-> 0] /\ replied = [c \in Clients |-> {}]
      /\ sent = [c \in Clients |-> <<>>] /\ inbox = [c \in Clients |-> <<>>]
  BY DEF Init, StackInit, RtspInit
<1>2. RtspFlags
  BY DEF Init, RtspInit, RtspFlags
<1>3. /\ <<>> \in Seq(Methods) /\ <<>> \in Seq(RtspItem) /\ Len(<<>>) = 0
      /\ 0 \in 0 .. MaxReplies /\ "connecting" \in Dialogue
  BY RtspAssumption, EmptySeq DEF Dialogue
<1>4. RtspTyped
  BY <1>1, <1>3 DEF RtspTyped
<1>5. \A c \in Clients : RtspAt(c) /\ Answering(c)
  BY <1>1, <1>3 DEF RtspAt, Answering
<1>6. inbox \in [Clients -> Seq(RtspItem)]
  BY <1>1, <1>3
<1> QED  BY <1>2, <1>4, <1>5, <1>6 DEF RtspInvariant

-----------------------------------------------------------------------------
(* The theorems. *)

ClientInduction == StackInvariant /\ HttpInvariant /\ RtspInvariant

LEMMA ClientInducts == Spec => []ClientInduction
<1>1. Init => ClientInduction
  BY StackStarts, HttpStarts, RtspStarts DEF ClientInduction
<1>2. ClientInduction /\ [Next]_vars => ClientInduction'
  BY StackKept, HttpKept, RtspKept DEF ClientInduction
<1> QED  BY <1>1, <1>2, PTL DEF Spec

LEMMA NothingUnread ==
  ASSUME ClientInduction, NEW c \in Clients, m_state[c] # "connected"
  PROVE  inbox[c] = <<>>
<1>1. CASE Http
  BY <1>1 DEF ClientInduction, HttpInvariant, HttpAt
<1>2. CASE Rtsp
  <2>1. /\ inbox[c] \in Seq(RtspItem) /\ sent[c] = <<>> /\ replied[c] \subseteq DOMAIN sent[c]
        /\ \A i \in DOMAIN inbox[c] : inbox[c][i].cseq \in replied[c]
    BY <1>2 DEF ClientInduction, RtspInvariant, RtspAt, Answering
  <2>2. DOMAIN inbox[c] = {}
    BY <2>1
  <2> QED  BY <2>1, <2>2, EmptyDomain
<1> QED  BY <1>1, <1>2, OneProgram DEF ClientInduction

LEMMA TypesHold ==
  ASSUME ClientInduction
  PROVE  TypeOK
<1>1. StackTypeOK
  BY NothingUnread
     DEF ClientInduction, StackInvariant, StackTyped, FlagsTyped, StackTypeOK
<1>2. HttpTypeOK
  <2>1. ASSUME NEW c \in Clients, NEW i \in DOMAIN m_parser[c]
        PROVE  m_parser[c][i].kind \in Answers \union {"part"}
    <3>1. m_parser[c] \in Seq(HttpItem)
      BY DEF ClientInduction, HttpInvariant, HttpTyped
    <3>2. m_parser[c][i] \in HttpItem
      BY <3>1, LenProperties, ElementOfSeq
    <3> QED  BY <3>2 DEF HttpItem
  <2> QED  BY <2>1 DEF ClientInduction, HttpInvariant, HttpTyped, HttpTypeOK
<1>3. RtspTypeOK
  BY DEF ClientInduction, RtspInvariant, RtspTyped, RtspFlags, RtspAt, RtspTypeOK
<1> QED  BY <1>1, <1>2, <1>3 DEF TypeOK

LEMMA OneRequestHolds ==
  ASSUME ClientInduction
  PROVE  OneRequest
<1> SUFFICES ASSUME NEW c \in Clients, Http, m_state[c] = "connected", ~Dying(c)
             PROVE  asked[c] + One(\E i \in DOMAIN inbox[c] : inbox[c][i].kind \in Answers)
                      + One(m_parser[c] # <<>>) + One("request" \in timers[c]) = 1
  BY DEF OneRequest
<1>1. /\ HttpAt(c) /\ asked[c] \in 0 .. 1
      /\ m_parser[c] \in Seq(HttpItem) /\ inbox[c] \in Seq(HttpItem)
  BY DEF ClientInduction, HttpInvariant, HttpTyped
<1>2. /\ \A i \in DOMAIN m_parser[c] : i \in DOMAIN Data(c) /\ Data(c)[i] = m_parser[c][i]
      /\ \A i \in DOMAIN inbox[c] : /\ Len(m_parser[c]) + i \in DOMAIN Data(c)
                                  /\ Data(c)[Len(m_parser[c]) + i] = inbox[c][i]
      /\ Len(m_parser[c]) \in Nat /\ Len(inbox[c]) \in Nat
      /\ DOMAIN m_parser[c] = 1 .. Len(m_parser[c]) /\ DOMAIN inbox[c] = 1 .. Len(inbox[c])
  <2>1. /\ \A i \in DOMAIN m_parser[c] : i \in DOMAIN Data(c) /\ Data(c)[i] = m_parser[c][i]
        /\ \A i \in DOMAIN inbox[c] : /\ Len(m_parser[c]) + i \in DOMAIN Data(c)
                                    /\ Data(c)[Len(m_parser[c]) + i] = inbox[c][i]
    <3>1. m_parser[c] \in Seq(HttpItem) /\ inbox[c] \in Seq(HttpItem)
      BY <1>1
    <3>2. ASSUME NEW p \in Seq(HttpItem), NEW q \in Seq(HttpItem)
          PROVE  /\ \A i \in DOMAIN p : i \in DOMAIN (p \o q) /\ (p \o q)[i] = p[i]
                 /\ \A i \in DOMAIN q : /\ Len(p) + i \in DOMAIN (p \o q)
                                       /\ (p \o q)[Len(p) + i] = q[i]
      BY ConcatDomain
    <3> QED  BY <3>1, <3>2 DEF Data
  <2> QED  BY <1>1, <2>1, LenProperties
<1>3. /\ DataOK(Data(c), served[c], shown[c]) /\ Data(c) \in Seq(HttpItem)
  BY <1>1 DEF HttpAt, DataOK
<1> DEFINE answer == \E i \in DOMAIN inbox[c] : inbox[c][i].kind \in Answers
<1>4. CASE Data(c) = <<>>
  <2>1. DOMAIN Data(c) = {}
    BY <1>4
  <2>2. m_parser[c] = <<>> /\ ~answer
    <3>1. DOMAIN m_parser[c] = {} /\ DOMAIN inbox[c] = {}
      BY <1>2, <2>1
    <3> QED  BY <1>1, <3>1, EmptyDomain
  <2>3. \/ asked[c] = 1 /\ "request" \notin timers[c]
        \/ asked[c] = 0 /\ "request" \in timers[c]
    <3>1. asked[c] = 1 \/ "request" \in timers[c]
      BY <1>1, <1>4 DEF HttpAt
    <3>2. asked[c] = 1 => "request" \notin timers[c]
      BY <1>1 DEF HttpAt
    <3> QED  BY <1>1, <3>1, <3>2
  <2> HIDE DEF answer
  <2>4. One(answer) = 0 /\ One(m_parser[c] # <<>>) = 0
    BY <2>2 DEF One
  <2>5. asked[c] + One("request" \in timers[c]) = 1
    BY <2>3 DEF One
  <2>6. One("request" \in timers[c]) \in Nat
    BY DEF One
  <2>7. asked[c] + One(answer) + One(m_parser[c] # <<>>) + One("request" \in timers[c]) = 1
    BY <1>1, <2>4, <2>5, <2>6
  <2> QED  BY <2>7 DEF answer
<1>5. CASE Data(c) # <<>>
  <2>1. "request" \notin timers[c] /\ asked[c] = 0
    <3>1. asked[c] # 1 /\ "request" \notin timers[c]
      BY <1>1, <1>5 DEF HttpAt
    <3> QED  BY <1>1, <3>1
  <2>2. CASE m_parser[c] = <<>>
    <3>1. Data(c) = inbox[c]
      BY <1>1, <2>2, ConcatEmptySeq DEF Data
    <3>2. 1 \in DOMAIN inbox[c] /\ inbox[c][1].kind \in Answers
      <4>1. inbox[c] # <<>> /\ inbox[c][1].kind \in Answers
        BY <1>3, <1>5, <3>1 DEF DataOK
      <4> QED  BY <1>1, <1>2, <4>1, EmptySeq
    <3>3. answer
      BY <3>2
    <3> HIDE DEF answer
    <3>4. One(answer) = 1 /\ One(m_parser[c] # <<>>) = 0 /\ One("request" \in timers[c]) = 0
      BY <2>1, <2>2, <3>3 DEF One
    <3>5. asked[c] + One(answer) + One(m_parser[c] # <<>>) + One("request" \in timers[c]) = 1
      BY <2>1, <3>4
    <3> QED  BY <3>5 DEF answer
  <2>3. CASE m_parser[c] # <<>>
    <3>1. Len(m_parser[c]) >= 1
      BY <1>1, <1>2, <2>3, EmptySeq
    <3>2. ASSUME NEW i \in DOMAIN inbox[c] PROVE inbox[c][i].kind \notin Answers
      <4>1. Len(m_parser[c]) + i \in DOMAIN Data(c) /\ Len(m_parser[c]) + i > 1
        BY <1>2, <3>1
      <4>2. Data(c)[Len(m_parser[c]) + i].kind = "part"
        BY <1>3, <4>1 DEF DataOK
      <4>3. inbox[c][i].kind = "part"
        BY <1>2, <4>2
      <4> QED  BY <4>3 DEF Answers
    <3>3. ~answer
      BY <3>2
    <3> HIDE DEF answer
    <3>4. One(answer) = 0 /\ One(m_parser[c] # <<>>) = 1 /\ One("request" \in timers[c]) = 0
      BY <2>1, <2>3, <3>3 DEF One
    <3>5. asked[c] + One(answer) + One(m_parser[c] # <<>>) + One("request" \in timers[c]) = 1
      BY <2>1, <3>4
    <3> QED  BY <3>5 DEF answer
  <2> QED  BY <2>2, <2>3
<1> QED  BY <1>4, <1>5

(* An object that is gone has no timer, event or thread left, all but the  *)
(* one that the holder points to are being deleted, and there is such a    *)
(* one, or a timer to make it, or the end (Lifetimes); a connection in use *)
(* has one request and no more (OneRequest); and the rtsp client never     *)
(* makes a request before the camera has answered the last (InStep): in    *)
(* both programs, with any options, for any number of client objects, and  *)
(* however the answers are cut into reads (gheapclient.cpp, gclientptr.h,  *)
(* gresolver.cpp, ghttpclientprotocol.cpp, main/rtspclient.cpp).           *)
THEOREM ClientsKept == Spec => []ClientInvariant
<1>1. ClientInduction => ClientInvariant
  <2> SUFFICES ASSUME ClientInduction PROVE ClientInvariant
    OBVIOUS
  <2>1. Lifetimes
    BY TypesHold
       DEF Lifetimes, ClientInduction, StackInvariant, SessionInvariant, SessionAt,
           HolderKnows, SocketInvariant, SocketAt
  <2>2. InStep
    BY DEF InStep, ClientInduction, RtspInvariant, RtspAt
  <2> QED  BY <2>1, <2>2, OneRequestHolds DEF ClientInvariant
<1> QED  BY <1>1, ClientInducts, PTL

(* No image is shown twice, or after a later one, however the data are cut *)
(* into reads (ghttpclientprotocol.cpp:83).                                *)
THEOREM ImagesInOrder == Spec => []ShownInOrder
<1>1. ClientInduction => ShownInOrder
  <2> SUFFICES ASSUME ClientInduction, NEW c \in Clients
               PROVE  \A i, j \in DOMAIN shown[c] : i < j => shown[c][i] < shown[c][j]
    BY DEF ShownInOrder
  <2>1. CASE Http
    BY <2>1 DEF ClientInduction, HttpInvariant, HttpAt, DataOK
  <2>2. CASE Rtsp
    BY <2>2 DEF ClientInduction, HttpInvariant, HttpUnused
  <2> QED  BY <2>1, <2>2, OneProgram DEF ClientInduction
<1> QED  BY <1>1, ClientInducts, PTL

-----------------------------------------------------------------------------
(* RTP *)

(* The fragments that are kept have one timestamp, none is a last one, all *)
(* are of the payload type that the server has settled on, and those of a  *)
(* JPEG image are in their places.                                         *)
BufferParts ==
  \A i \in DOMAIN m_buffer :
    /\ m_buffer[i].timestamp = m_timestamp
    /\ m_buffer[i].form \in {"first", "middle"}
    /\ m_buffer[i].jpeg <=> m_packet_type = 26
    /\ m_buffer[i].jpeg => m_buffer[i].index = i

InUnit(fragments) ==
  \A i \in DOMAIN fragments :
    fragments[i].unit = fragments[1].unit /\ fragments[i].index = i

(* Each fragment comes after the one before it, as far as the code can     *)
(* tell.                                                                   *)
Fits(f, g) == After(f, g) \/ Mistaken(f, g)

Chained(fragments) ==
  \A i \in 2 .. Len(fragments) : Fits(fragments[i - 1], fragments[i])

(* When it really does, the fragments are of one unit.                     *)
Linked(fragments) ==
  \/ InUnit(fragments) \/ fragments[1].index # 1
  \/ \E i \in 2 .. Len(fragments) : ~After(fragments[i - 1], fragments[i])

(* The sequence numbers are those of the fragments, and when they follow   *)
(* each other the fragments do.                                            *)
InPlace(seqs, fragments) ==
  /\ Len(seqs) = Len(fragments)
  /\ \A i \in 1 .. Len(fragments) : seqs[i] = fragments[i].seq
  /\ Contiguous(seqs) => Chained(fragments)

(* JPEG images of one packet leave their number behind.                    *)
BufferFollows ==
  /\ m_buffer # <<>> => m_buffer[1].index = 1 \/ Beheaded(m_buffer[1])
  /\ m_buffer # <<>> \/ m_packet_type # 26 => InPlace(m_seq_list, m_buffer)
  /\ Linked(m_buffer)
  /\ m_timestamp # 0 => m_buffer # <<>>
  /\ m_packet_type = 0 => m_buffer = <<>>

(* What has come one after the other is what is kept.                      *)
StreakKept ==
  streak # <<>> =>
    /\ InUnit(streak)
    /\ Len(streak) < Size[streak[1].unit] =>
         /\ m_buffer = streak /\ m_timestamp = streak[1].timestamp
         /\ Len(m_seq_list) = Len(streak)
         /\ \A i \in DOMAIN streak : m_seq_list[i] = streak[i].seq

GivenRight == given # <<>> => Joined(given) /\ (Whole(given) \/ Excused(given))

StreamInvariant ==
  StreamTypeOK /\ BufferParts /\ BufferFollows /\ StreakKept /\ GivenRight

-----------------------------------------------------------------------------
(* Arithmetic and sequences *)

LEMMA ModuloBelow ==
  ASSUME NEW x \in Nat, NEW m \in Nat \ {0}, x < m
  PROVE  x % m = x
OBVIOUS

LEMMA ModuloItself ==
  ASSUME NEW m \in Nat \ {0}
  PROVE  m % m = 0
OBVIOUS

LEMMA Appended ==
  ASSUME NEW S, NEW s \in Seq(S), NEW e \in S
  PROVE  /\ Append(s, e) \in Seq(S) /\ Append(s, e) # <<>>
         /\ Len(s) \in Nat /\ Len(Append(s, e)) = Len(s) + 1
         /\ DOMAIN s = 1 .. Len(s) /\ DOMAIN Append(s, e) = 1 .. Len(s) + 1
         /\ \A i \in 1 .. Len(s) : Append(s, e)[i] = s[i]
         /\ Append(s, e)[Len(s) + 1] = e
OBVIOUS

-----------------------------------------------------------------------------
(* The packets of the cameras *)

LEMMA PacketTyped ==
  ASSUME NEW p \in Packets
  PROVE  /\ p.seq \in Nat /\ p.seq < Modulus /\ p.timestamp \in Nat
         /\ Modulus \in Nat \ {0} /\ p.seq \in 0 .. Modulus - 1
         /\ Size[p.unit] \in Nat /\ p.index \in Nat
         /\ 1 <= p.index /\ p.index <= Size[p.unit]
         /\ p.jpeg \in BOOLEAN
<1>1. p.unit \in Units
  BY DEF Units
<1>2. Size[p.unit] = Cardinality({q \in Packets : q.unit = p.unit})
  BY <1>1 DEF Size
<1>3. IsFiniteSet({q \in Packets : q.unit = p.unit})
  <2>1. {q \in Packets : q.unit = p.unit} \in SUBSET Packets
    OBVIOUS
  <2> QED  BY <2>1, FS_Subset, PacketsAssumption
<1>4. Size[p.unit] \in Nat
  BY <1>2, <1>3, FS_CardinalityType
<1>5. p.seq \in 0 .. Modulus - 1 /\ Modulus \in Nat \ {0} /\ p.timestamp \in Nat
      /\ p.index \in 1 .. Size[p.unit]
  BY PacketsAssumption
<1>6. p.jpeg \in BOOLEAN
  BY PacketsAssumption
<1> QED  BY <1>4, <1>5, <1>6

LEMMA FormPlace ==
  ASSUME NEW p \in Packets
  PROVE  /\ p.form = "single" => p.index = 1 /\ Size[p.unit] = 1
         /\ p.form = "first" => p.index = 1 /\ 1 < Size[p.unit]
         /\ p.form = "middle" => 1 < p.index /\ p.index < Size[p.unit]
         /\ p.form = "last" => p.index = Size[p.unit] /\ 1 < p.index
         /\ p.index = 1 /\ 1 < Size[p.unit] => p.form = "first"
         /\ 1 < p.index /\ p.index < Size[p.unit] => p.form = "middle"
         /\ p.index = Size[p.unit] /\ 1 < p.index => p.form = "last"
<1>1. /\ p.form = "first" <=> p.index = 1 /\ Size[p.unit] > 1
      /\ p.form = "middle" <=> 1 < p.index /\ p.index < Size[p.unit]
      /\ p.form = "last" <=> p.index = Size[p.unit] /\ Size[p.unit] > 1
  BY PacketsAssumption
<1> QED  BY <1>1, PacketTyped

LEMMA PlacesCount ==
  ASSUME NEW n \in Nat
  PROVE  IsFiniteSet(1 .. n) /\ Cardinality(1 .. n) = n
<1>1. IsFiniteSet(1 .. n) /\ Cardinality(1 .. n) = IF 1 > n THEN 0 ELSE n - 1 + 1
  BY FS_Interval
<1>2. (IF 1 > n THEN 0 ELSE n - 1 + 1) = n
  OBVIOUS
<1> QED  BY <1>1, <1>2

(* A fragment that is not the last has one after it: as many places as     *)
(* fragments, and no two in one place.                                     *)
LEMMA NextFragment ==
  ASSUME NEW p \in Packets, p.index < Size[p.unit]
  PROVE  \E n \in Packets : n.unit = p.unit /\ n.index = p.index + 1
<1> DEFINE U == {q \in Packets : q.unit = p.unit}
           N == Size[p.unit]
           f == [q \in U |-> q.index]
<1>1. N = Cardinality(U)
  <2>1. p.unit \in Units
    BY DEF Units
  <2> QED  BY <2>1 DEF Size
<1>2. IsFiniteSet(U) /\ N \in Nat
  <2>1. U \in SUBSET Packets
    OBVIOUS
  <2>2. IsFiniteSet(U)
    BY <2>1, FS_Subset, PacketsAssumption
  <2> QED  BY <1>1, <2>2, FS_CardinalityType
<1>3. IsFiniteSet(1 .. N) /\ Cardinality(1 .. N) = N
  BY <1>2, PlacesCount
<1>4. f \in Injection(U, 1 .. N)
  <2>1. \A q \in U : q.index \in 1 .. N
    BY PacketsAssumption
  <2>2. \A q, r \in U : q.index = r.index => q = r
    BY PacketsAssumption
  <2> QED  BY <2>1, <2>2 DEF Injection, IsInjective
<1>5. f \in Surjection(U, 1 .. N)
  BY <1>1, <1>2, <1>3, <1>4, FS_Injection
<1>6. p.index + 1 \in 1 .. N
  BY <1>2, PacketTyped
<1> QED  BY <1>5, <1>6 DEF Surjection

(* A fragment with the number of the next one, as far as the code can      *)
(* tell, comes after, or is mistaken for the one that does.                *)
LEMMA FollowsInUnit ==
  ASSUME NEW p \in Packets, NEW q \in Packets, p.index < Size[p.unit],
         q.timestamp = p.timestamp, q.jpeg = p.jpeg, q.jpeg => q.index = p.index + 1,
         q.seq = p.seq + 1 \/ (q.seq = 0 /\ p.seq # 0)
  PROVE  Fits(p, q)
<1>1. CASE q.seq = p.seq + 1
  <2>1. PICK n \in Packets : n.unit = p.unit /\ n.index = p.index + 1
    BY NextFragment
  <2>2. n.seq = (p.seq + 1) % Modulus
    BY <2>1, PacketsAssumption
  <2>3. (p.seq + 1) % Modulus = p.seq + 1
    BY <1>1, ModuloBelow, PacketTyped
  <2>4. After(p, n) /\ n.seq = q.seq
    BY <1>1, <2>1, <2>2, <2>3 DEF After
  <2> QED  BY <2>4 DEF Fits, Mistaken
<1>2. CASE q.seq = 0 /\ p.seq # 0
  BY <1>2 DEF Fits, Mistaken
<1> QED  BY <1>1, <1>2

(* The numbers of fragments that follow each other do, too.                *)
LEMMA FollowsInNumber ==
  ASSUME NEW p \in Packets, NEW q \in Packets, p.unit = q.unit,
         q.index = p.index + 1
  PROVE  q.seq = p.seq + 1 \/ (q.seq = 0 /\ p.seq # 0)
<1>1. q.seq = (p.seq + 1) % Modulus
  BY PacketsAssumption
<1>2. CASE p.seq + 1 < Modulus
  BY <1>1, <1>2, ModuloBelow, PacketTyped
<1>3. CASE p.seq + 1 = Modulus
  <2>1. q.seq = 0
    BY <1>1, <1>3, ModuloItself, PacketTyped
  <2>2. p.seq # 0
    BY <1>3, PacketsAssumption
  <2> QED  BY <2>1, <2>2
<1> QED  BY <1>2, <1>3, PacketTyped

LEMMA OneUnit ==
  ASSUME NEW p \in Packets, NEW q \in Packets, p.unit = q.unit
  PROVE  /\ p.source = q.source /\ p.timestamp = q.timestamp /\ p.jpeg = q.jpeg
         /\ Size[p.unit] = Size[q.unit]
BY PacketsAssumption

-----------------------------------------------------------------------------
(* The cases of add(), of which the two kinds of packets have the same *)

Follows(p) ==
  p.timestamp = m_timestamp /\ (p.jpeg => p.index - 1 = Len(m_buffer))

SingleUnit(p) ==
  /\ p.form = "single"
  /\ m_timestamp' = 0 /\ m_buffer' = <<>> /\ m_seq_list' \in {<<>>, <<p.seq>>}
  /\ ~p.jpeg => m_seq_list' = <<>>
  /\ given' = <<p>>

(* All that is added is of the one payload type. *)
Expected(p) ==
  /\ m_packet_type \in {0, p.type} /\ m_packet_type' = p.type
  /\ p.type # 0 /\ (p.jpeg <=> p.type = 26)

LEMMA AddCases ==
  ASSUME NEW p \in Packets, Add(p)
  PROVE  \/ SingleUnit(p)
         \/ p.form = "first" /\ Begin(p)
         \/ p.form \in {"middle", "last"} /\ ~Follows(p) /\ Drop
         \/ p.form = "middle" /\ Follows(p) /\ Append1(p)
         \/ p.form = "last" /\ Follows(p) /\ End(p)
<1>1. CASE p.jpeg
  <2>1. AddJpeg(p)
    BY <1>1 DEF Add
  <2> QED  BY <1>1, <2>1 DEF AddJpeg, SingleUnit, Follows, Commit
<1>2. CASE ~p.jpeg
  <2>1. AddAvc(p)
    BY <1>2 DEF Add
  <2> QED  BY <1>2, <2>1 DEF AddAvc, SingleUnit, Follows, Commit, Clear
<1> QED  BY <1>1, <1>2

-----------------------------------------------------------------------------
(* What is kept, with one more *)

LEMMA Grown ==
  ASSUME StreamTypeOK, BufferParts, BufferFollows, NEW p \in Packets,
         p.form \in {"middle", "last"}, Follows(p), Expected(p)
  PROVE  LET g == Append(m_buffer, p)
         IN  /\ InPlace(Append(m_seq_list, p.seq), g) /\ Linked(g)
             /\ g[1].index = 1 \/ Beheaded(g[1])
<1> DEFINE g == Append(m_buffer, p)
           s == Append(m_seq_list, p.seq)
           n == Len(m_buffer)
<1>1. /\ g \in Seq(Packets) /\ n \in Nat /\ Len(g) = n + 1 /\ DOMAIN g = 1 .. n + 1
      /\ DOMAIN m_buffer = 1 .. n
      /\ \A i \in 1 .. n : g[i] = m_buffer[i] /\ m_buffer[i] \in Packets
      /\ g[n + 1] = p
  BY Appended DEF StreamTypeOK
<1>2. p.index # 1 /\ p.index \in Nat /\ p.jpeg \in BOOLEAN
  BY FormPlace, PacketTyped
<1>3. p.jpeg => n >= 1 /\ p.index = n + 1
  BY <1>1, <1>2 DEF Follows
<1>4. n = 0 <=> m_buffer = <<>>
  <2>1. m_buffer \in Seq(Packets)
    BY DEF StreamTypeOK
  <2> QED  BY <1>1, <2>1, EmptySeq
<1>5. InPlace(m_seq_list, m_buffer)
  <2>1. m_buffer # <<>> \/ m_packet_type # 26
    BY <1>1, <1>3, <1>4 DEF Expected
  <2> QED  BY <2>1 DEF BufferFollows
<1>6. Len(m_seq_list) = n /\ \A i \in 1 .. n : m_seq_list[i] = m_buffer[i].seq
  BY <1>5 DEF InPlace
<1>7. /\ Len(s) = n + 1 /\ \A i \in 1 .. n : s[i] = m_seq_list[i]
      /\ s[n + 1] = p.seq
  <2>1. p.seq \in 0 .. Modulus - 1
    BY PacketTyped
  <2> QED  BY <1>6, <2>1, Appended DEF StreamTypeOK
<1>8. /\ m_buffer # <<>> => m_buffer[1].index = 1 \/ Beheaded(m_buffer[1])
      /\ Linked(m_buffer) /\ (m_timestamp # 0 => m_buffer # <<>>)
      /\ m_packet_type = 0 => m_buffer = <<>>
  BY DEF BufferFollows
<1>9. Contiguous(m_seq_list) => Chained(m_buffer)
  BY <1>5 DEF InPlace
<1>10. \A i \in 1 .. n :
         /\ m_buffer[i].timestamp = p.timestamp
         /\ m_buffer[i].form \in {"first", "middle"}
         /\ m_buffer[i].jpeg = p.jpeg
         /\ m_buffer[i].jpeg => m_buffer[i].index = i
  <2> TAKE i \in 1 .. n
  <2>1. /\ m_buffer[i].timestamp = m_timestamp
        /\ m_buffer[i].form \in {"first", "middle"}
        /\ m_buffer[i].jpeg <=> m_packet_type = 26
        /\ m_buffer[i].jpeg => m_buffer[i].index = i
    BY <1>1 DEF BufferParts
  <2>2. m_buffer[i].jpeg \in BOOLEAN
    BY <1>1, PacketTyped
  <2>3. m_packet_type = p.type /\ (p.jpeg <=> p.type = 26)
    BY <1>1, <1>4, <1>8 DEF Expected
  <2> QED  BY <1>2, <2>1, <2>2, <2>3 DEF Follows
<1>0. n = Len(m_buffer) /\ g = Append(m_buffer, p) /\ s = Append(m_seq_list, p.seq)
  OBVIOUS
<1> HIDE DEF g, s, n
<1>11. CASE n = 0
  <2>1. g[1] = p /\ Len(g) = 1 /\ Len(s) = 1 /\ s[1] = p.seq
    BY <1>1, <1>7, <1>11
  <2>2. Beheaded(p)
    BY <1>2, <1>3, <1>4, <1>8, <1>11 DEF Beheaded, Follows
  <2>3. Chained(g)
    BY <2>1 DEF Chained
  <2>4. InPlace(s, g)
    BY <2>1, <2>3 DEF InPlace
  <2> QED  BY <1>0, <1>2, <2>1, <2>2, <2>4 DEF Linked
<1>12. CASE n >= 1
  <2> DEFINE q == m_buffer[n]
  <2>1. /\ n \in 1 .. n /\ 1 \in 1 .. n /\ n + 1 \in 2 .. n + 1 /\ (n + 1) - 1 = n
        /\ 1 \in 1 .. n + 1 /\ n + 1 \in 1 .. n + 1
    BY <1>1, <1>12
  <2>2. /\ q \in Packets /\ q.timestamp = p.timestamp /\ q.jpeg = p.jpeg
        /\ q.form \in {"first", "middle"} /\ (q.jpeg => q.index = n)
    BY <1>1, <1>10, <2>1
  <2>3. q.index < Size[q.unit]
    BY <2>2, FormPlace, PacketTyped
  <2>4. g[1] = m_buffer[1] /\ g[n] = q /\ s[n] = q.seq
    BY <1>1, <1>6, <1>7, <2>1
  <2>5. g[1].index = 1 \/ Beheaded(g[1])
    BY <1>4, <1>8, <1>12, <2>4
  <2> HIDE DEF q
  <2>6. ASSUME Contiguous(s) PROVE Fits(q, p)
    <3>1. p.seq = q.seq + 1 \/ (p.seq = 0 /\ q.seq # 0)
      <4>1. s[n + 1] = s[(n + 1) - 1] + 1 \/ (s[n + 1] = 0 /\ s[(n + 1) - 1] # 0)
        BY <1>7, <2>1, <2>6 DEF Contiguous
      <4> QED  BY <1>7, <2>1, <2>4, <4>1
    <3> QED  BY <1>3, <2>2, <2>3, <3>1, FollowsInUnit
  <2>7. ASSUME Contiguous(s) PROVE Chained(g)
    <3>1. Contiguous(m_seq_list)
      BY <1>1, <1>6, <1>7, <2>7 DEF Contiguous
    <3>2. ASSUME NEW i \in 2 .. n + 1 PROVE Fits(g[i - 1], g[i])
      <4>1. CASE i = n + 1
        BY <1>1, <2>1, <2>4, <2>6, <2>7, <4>1
      <4>2. CASE i \in 2 .. n
        <5>1. i \in 1 .. n /\ i - 1 \in 1 .. n
          BY <1>1, <4>2
        <5> QED  BY <1>0, <1>1, <1>9, <3>1, <4>2, <5>1 DEF Chained
      <4> QED  BY <1>1, <4>1, <4>2
    <3> QED  BY <1>1, <3>2 DEF Chained
  <2>8. \A i \in 1 .. n + 1 : s[i] = g[i].seq
    <3> TAKE i \in 1 .. n + 1
    <3>1. CASE i = n + 1
      BY <1>1, <1>7, <3>1
    <3>2. CASE i \in 1 .. n
      BY <1>1, <1>6, <1>7, <3>2
    <3> QED  BY <3>1, <3>2, <1>1
  <2>9. InPlace(s, g)
    BY <1>1, <1>7, <2>7, <2>8 DEF InPlace
  <2>10. Linked(g)
    <3>1. CASE m_buffer[1].index # 1
      BY <2>4, <3>1 DEF Linked
    <3>2. CASE \E i \in 2 .. n : ~After(m_buffer[i - 1], m_buffer[i])
      <4>1. PICK i \in 2 .. n : ~After(m_buffer[i - 1], m_buffer[i])
        BY <3>2
      <4>2. i \in 1 .. n /\ i - 1 \in 1 .. n /\ i \in 2 .. Len(g)
        BY <1>1, <4>1
      <4>3. ~After(g[i - 1], g[i])
        BY <1>1, <4>1, <4>2
      <4> QED  BY <4>2, <4>3 DEF Linked
    <3>3. CASE InUnit(m_buffer) /\ ~After(q, p)
      <4>1. n + 1 \in 2 .. Len(g) /\ ~After(g[(n + 1) - 1], g[n + 1])
        BY <1>1, <2>1, <2>4, <3>3
      <4> QED  BY <4>1 DEF Linked
    <3>4. CASE InUnit(m_buffer) /\ After(q, p)
      <4>1. \A i \in 1 .. n : m_buffer[i].unit = m_buffer[1].unit /\ m_buffer[i].index = i
        BY <1>1, <3>4 DEF InUnit
      <4>2. p.unit = m_buffer[1].unit /\ p.index = n + 1
        BY <2>1, <3>4, <4>1 DEF After, q
      <4>3. ASSUME NEW i \in 1 .. n + 1 PROVE g[i].unit = g[1].unit /\ g[i].index = i
        <5>1. CASE i = n + 1
          BY <1>1, <2>4, <4>2, <5>1
        <5>2. CASE i \in 1 .. n
          BY <1>1, <2>4, <4>1, <5>2
        <5> QED  BY <1>1, <5>1, <5>2
      <4>4. InUnit(g)
        BY <1>1, <4>3 DEF InUnit
      <4> QED  BY <4>4 DEF Linked
    <3> QED  BY <1>0, <1>8, <3>1, <3>2, <3>3, <3>4 DEF Linked
  <2> QED  BY <1>0, <2>5, <2>9, <2>10
<1> QED  BY <1>1, <1>11, <1>12

LEMMA SingleSequence ==
  ASSUME NEW S, NEW e \in S
  PROVE  <<e>> \in Seq(S) /\ Len(<<e>>) = 1 /\ DOMAIN <<e>> = 1 .. 1 /\ <<e>>[1] = e
         /\ <<e>> # <<>>
OBVIOUS

LEMMA AddTyped ==
  ASSUME StreamTypeOK, NEW p \in Packets, Add(p)
  PROVE  StreamTypeOK'
<1>1. /\ p.seq \in 0 .. Modulus - 1
      /\ p.timestamp \in {0} \union {q.timestamp : q \in Packets}
  BY PacketTyped
<1>2. /\ <<p>> \in Seq(Packets) /\ <<p.seq>> \in Seq(0 .. Modulus - 1)
  BY <1>1, SingleSequence
<1>3. /\ Append(m_buffer, p) \in Seq(Packets)
      /\ Append(m_seq_list, p.seq) \in Seq(0 .. Modulus - 1)
  BY <1>1, Appended DEF StreamTypeOK
<1>4. /\ <<>> \in Seq(Packets) /\ <<>> \in Seq(0 .. Modulus - 1)
  OBVIOUS
<1>5. streak' \in Seq(Packets)
  <2>1. Append(streak, p) \in Seq(Packets)
    BY Appended DEF StreamTypeOK
  <2>2. streak' = Streak(p)
    BY DEF Add
  <2> QED  BY <1>2, <1>4, <2>1, <2>2 DEF Streak
<1>6. /\ m_timestamp' \in {0} \union {q.timestamp : q \in Packets}
      /\ m_seq_list' \in Seq(0 .. Modulus - 1)
      /\ m_buffer' \in Seq(Packets) /\ given' \in Seq(Packets)
  BY <1>1, <1>2, <1>3, <1>4, AddCases
     DEF SingleUnit, Begin, Drop, Append1, End, Clear, Commit, StreamTypeOK
<1> QED  BY <1>5, <1>6 DEF StreamTypeOK

LEMMA AddBuffer ==
  ASSUME StreamTypeOK, BufferParts, BufferFollows, NEW p \in Packets, Add(p), Expected(p)
  PROVE  BufferParts' /\ BufferFollows'
<1>0. m_packet_type' # 0 /\ (p.jpeg <=> m_packet_type' = 26)
  BY DEF Expected
<1>1. ASSUME m_timestamp' = 0, m_buffer' = <<>>, p.jpeg \/ m_seq_list' = <<>>
      PROVE  BufferParts' /\ BufferFollows'
  <2>1. DOMAIN m_buffer' = {} /\ Len(m_buffer') = 0
    BY <1>1
  <2>2. InUnit(m_buffer') /\ Chained(m_buffer')
    BY <2>1 DEF InUnit, Chained
  <2>3. Linked(m_buffer')
    BY <2>2 DEF Linked
  <2>4. ASSUME m_seq_list' = <<>> PROVE InPlace(m_seq_list', m_buffer')
    BY <2>1, <2>2, <2>4 DEF InPlace
  <2>5. BufferParts'
    BY <2>1 DEF BufferParts
  <2> QED  BY <1>0, <1>1, <2>3, <2>4, <2>5 DEF BufferFollows
<1>2. CASE SingleUnit(p)
  BY <1>1, <1>2 DEF SingleUnit
<1>3. CASE p.form \in {"middle", "last"} /\ ~Follows(p) /\ Drop
  BY <1>1, <1>3 DEF Drop, Clear
<1>4. CASE p.form = "last" /\ Follows(p) /\ End(p)
  BY <1>1, <1>4 DEF End, Clear
<1>5. CASE p.form = "first" /\ Begin(p)
  <2>1. /\ m_buffer' = <<p>> /\ m_seq_list' = <<p.seq>> /\ m_timestamp' = p.timestamp
        /\ Len(m_buffer') = 1 /\ DOMAIN m_buffer' = 1 .. 1 /\ m_buffer'[1] = p
        /\ m_buffer' # <<>> /\ Len(m_seq_list') = 1 /\ m_seq_list'[1] = p.seq
    BY <1>5, SingleSequence DEF Begin
  <2>2. p.index = 1
    BY <1>5, FormPlace
  <2>3. \A i \in 1 .. 1 : i = 1
    OBVIOUS
  <2>4. BufferParts'
    BY <1>0, <1>5, <2>1, <2>2, <2>3 DEF BufferParts
  <2>5. InUnit(m_buffer') /\ Chained(m_buffer')
    BY <2>1, <2>2, <2>3 DEF InUnit, Chained
  <2>6. InPlace(m_seq_list', m_buffer')
    BY <2>1, <2>3, <2>5 DEF InPlace
  <2>7. Linked(m_buffer')
    BY <2>5 DEF Linked
  <2> QED  BY <1>0, <2>1, <2>2, <2>4, <2>6, <2>7 DEF BufferFollows
<1>6. CASE p.form = "middle" /\ Follows(p) /\ Append1(p)
  <2>1. /\ m_buffer' = Append(m_buffer, p) /\ m_seq_list' = Append(m_seq_list, p.seq)
        /\ m_timestamp' = m_timestamp /\ p.timestamp = m_timestamp
        /\ p.jpeg => p.index - 1 = Len(m_buffer)
    BY <1>6 DEF Append1, Follows
  <2>2. /\ Len(m_buffer) \in Nat /\ DOMAIN m_buffer = 1 .. Len(m_buffer)
        /\ DOMAIN m_buffer' = 1 .. Len(m_buffer) + 1 /\ m_buffer' # <<>>
        /\ \A i \in 1 .. Len(m_buffer) : m_buffer'[i] = m_buffer[i]
        /\ m_buffer'[Len(m_buffer) + 1] = p
    <3>1. m_buffer \in Seq(Packets)
      BY DEF StreamTypeOK
    <3> QED  BY <2>1, <3>1, Appended
  <2>3. ASSUME NEW i \in 1 .. Len(m_buffer) + 1
        PROVE  /\ m_buffer'[i].timestamp = m_timestamp'
               /\ m_buffer'[i].form \in {"first", "middle"}
               /\ m_buffer'[i].jpeg <=> m_packet_type' = 26
               /\ m_buffer'[i].jpeg => m_buffer'[i].index = i
    <3>1. CASE i = Len(m_buffer) + 1
      <4>1. p.jpeg => p.index = Len(m_buffer) + 1
        BY <2>1, <2>2, PacketTyped
      <4> QED  BY <1>0, <1>6, <2>1, <2>2, <3>1, <4>1
    <3>2. CASE i \in 1 .. Len(m_buffer)
      <4>1. m_buffer # <<>>
        BY <3>2
      <4>2. m_packet_type' = m_packet_type
        BY <4>1 DEF BufferFollows, Expected
      <4> QED  BY <2>1, <2>2, <3>2, <4>2 DEF BufferParts
    <3> QED  BY <2>2, <3>1, <3>2
  <2>4. BufferParts'
    BY <2>2, <2>3 DEF BufferParts
  <2>5. /\ InPlace(m_seq_list', m_buffer') /\ Linked(m_buffer')
        /\ m_buffer'[1].index = 1 \/ Beheaded(m_buffer'[1])
    BY <1>6, <2>1, Grown
  <2> QED  BY <1>0, <2>2, <2>4, <2>5 DEF BufferFollows
<1> QED  BY <1>2, <1>3, <1>4, <1>5, <1>6, AddCases

LEMMA EndWhole ==
  ASSUME StreamTypeOK, BufferParts, BufferFollows, NEW p \in Packets,
         p.form = "last", Follows(p), End(p), Expected(p)
  PROVE  GivenRight'
<1> DEFINE g == Append(m_buffer, p)
           n == Len(m_buffer)
<1>1. given' \in {<<>>, g} /\ (given' # <<>> => Contiguous(Append(m_seq_list, p.seq)))
  BY DEF End, Commit
<1>2. n \in Nat /\ Len(g) = n + 1 /\ DOMAIN g = 1 .. n + 1 /\ g[n + 1] = p
  BY Appended DEF StreamTypeOK
<1>3. p.index = Size[p.unit] /\ p.index \in Nat
  BY FormPlace, PacketTyped
<1>4. /\ InPlace(Append(m_seq_list, p.seq), g) /\ Linked(g)
      /\ g[1].index = 1 \/ Beheaded(g[1])
  BY Grown
<1> HIDE DEF g, n
<1>5. given' # <<>> => Chained(g)
  BY <1>1, <1>4 DEF InPlace
<1>6. ASSUME Chained(g) PROVE Joined(g)
  BY <1>2, <1>3, <1>4, <1>6 DEF Joined, Chained, Fits
<1>7. ASSUME InUnit(g) PROVE Whole(g)
  <2>1. n + 1 \in 1 .. n + 1
    BY <1>2
  <2>2. g[n + 1].unit = g[1].unit /\ g[n + 1].index = n + 1
    BY <1>2, <1>7, <2>1 DEF InUnit
  <2>3. Len(g) = Size[g[1].unit]
    BY <1>2, <1>3, <2>2
  <2> QED  BY <1>7, <2>3 DEF Whole, InUnit
<1>8. ASSUME Chained(g) PROVE Whole(g) \/ Excused(g)
  BY <1>4, <1>7, <1>8 DEF Linked, Chained, Fits, Excused
<1> QED  BY <1>1, <1>5, <1>6, <1>8 DEF GivenRight

LEMMA AddGiven ==
  ASSUME StreamTypeOK, BufferParts, BufferFollows, NEW p \in Packets, Add(p), Expected(p)
  PROVE  GivenRight'
<1>1. CASE SingleUnit(p)
  <2>1. /\ given' = <<p>> /\ Len(given') = 1 /\ DOMAIN given' = 1 .. 1 /\ given'[1] = p
    BY <1>1, SingleSequence DEF SingleUnit
  <2>2. p.index = 1 /\ Size[p.unit] = 1
    BY <1>1, FormPlace DEF SingleUnit
  <2>3. Whole(given') /\ Joined(given')
    BY <2>1, <2>2 DEF Whole, Joined
  <2> QED  BY <2>3 DEF GivenRight
<1>2. CASE given' = <<>>
  BY <1>2 DEF GivenRight
<1>3. CASE p.form = "last" /\ Follows(p) /\ End(p)
  BY <1>3, EndWhole
<1> QED  BY <1>1, <1>2, <1>3, AddCases DEF Begin, Drop, Append1

-----------------------------------------------------------------------------
(* Fragments that come one after the other *)

LEMMA Extended ==
  ASSUME StreamTypeOK, StreakKept, NEW p \in Packets, streak # <<>>,
         streak[Len(streak)].unit = p.unit, streak[Len(streak)].index + 1 = p.index
  PROVE  /\ Len(streak) \in Nat /\ 1 <= Len(streak)
         /\ p.index = Len(streak) + 1 /\ InUnit(Append(streak, p))
         /\ \A i \in 1 .. Len(streak) + 1 : Append(streak, p)[i].unit = p.unit
         /\ m_buffer = streak /\ Follows(p) /\ Len(m_seq_list) = Len(streak)
         /\ \A i \in 1 .. Len(streak) : m_seq_list[i] = streak[i].seq
<1> DEFINE g == Append(streak, p)
           n == Len(streak)
<1>1. /\ n \in Nat /\ DOMAIN streak = 1 .. n /\ DOMAIN g = 1 .. n + 1
      /\ \A i \in 1 .. n : g[i] = streak[i] /\ streak[i] \in Packets
      /\ g[n + 1] = p
  BY Appended DEF StreamTypeOK
<1>2. 1 <= n
  <2>1. streak \in Seq(Packets)
    BY DEF StreamTypeOK
  <2> QED  BY <1>1, <2>1, EmptySeq
<1>3. n \in 1 .. n /\ 1 \in 1 .. n /\ n + 1 \in 1 .. n + 1 /\ 1 \in 1 .. n + 1
  BY <1>1, <1>2
<1>4. \A i \in 1 .. n : streak[i].unit = p.unit /\ streak[i].index = i
  BY <1>1, <1>3 DEF StreakKept, InUnit
<1>5. p.index = n + 1
  BY <1>3, <1>4
<1>6. n < Size[p.unit]
  BY <1>1, <1>5, PacketTyped
<1>7. /\ m_buffer = streak /\ m_timestamp = streak[1].timestamp
      /\ Len(m_seq_list) = n /\ \A i \in 1 .. n : m_seq_list[i] = streak[i].seq
  BY <1>1, <1>3, <1>4, <1>6 DEF StreakKept
<1>8. ASSUME NEW i \in 1 .. n + 1 PROVE g[i].unit = p.unit /\ g[i].index = i
  <2>1. CASE i = n + 1
    BY <1>1, <1>5, <2>1
  <2>2. CASE i \in 1 .. n
    BY <1>1, <1>4, <2>2
  <2> QED  BY <1>1, <2>1, <2>2
<1>9. InUnit(g)
  BY <1>1, <1>3, <1>8 DEF InUnit
<1>10. Follows(p)
  <2>1. p.timestamp = streak[1].timestamp
    BY <1>1, <1>3, <1>4, OneUnit
  <2>2. p.index - 1 = Len(m_buffer)
    BY <1>1, <1>5, <1>7
  <2> QED  BY <1>7, <2>1, <2>2 DEF Follows
<1> QED  BY <1>1, <1>2, <1>5, <1>7, <1>8, <1>9, <1>10

LEMMA StreakCases ==
  ASSUME NEW p \in Packets, Add(p)
  PROVE  \/ p.index = 1 /\ streak' = <<p>>
         \/ /\ streak # <<>> /\ streak[Len(streak)].unit = p.unit
            /\ streak[Len(streak)].index + 1 = p.index
            /\ streak' = Append(streak, p)
         \/ streak' = <<>>
BY DEF Add, Streak

LEMMA AddStreak ==
  ASSUME StreamTypeOK, StreakKept, NEW p \in Packets, Add(p)
  PROVE  StreakKept'
<1>1. CASE p.index = 1 /\ streak' = <<p>>
  <2>1. /\ Len(streak') = 1 /\ DOMAIN streak' = 1 .. 1 /\ streak'[1] = p
        /\ \A i \in 1 .. 1 : i = 1
    BY <1>1, SingleSequence
  <2>2. InUnit(streak')
    BY <1>1, <2>1 DEF InUnit
  <2>3. ASSUME 1 < Size[p.unit]
        PROVE  /\ m_buffer' = streak' /\ m_timestamp' = p.timestamp
               /\ Len(m_seq_list') = 1 /\ m_seq_list'[1] = p.seq
    <3>1. p.form = "first"
      BY <1>1, <2>3, FormPlace
    <3>2. Begin(p)
      BY <3>1, AddCases DEF SingleUnit
    <3> QED  BY <1>1, <3>2, SingleSequence DEF Begin
  <2> QED  BY <2>1, <2>2, <2>3 DEF StreakKept
<1>2. CASE /\ streak # <<>> /\ streak[Len(streak)].unit = p.unit
           /\ streak[Len(streak)].index + 1 = p.index
           /\ streak' = Append(streak, p)
  <2> DEFINE n == Len(streak)
  <2>1. /\ n \in Nat /\ 1 <= n /\ p.index = n + 1 /\ InUnit(streak')
        /\ \A i \in 1 .. n + 1 : streak'[i].unit = p.unit
        /\ m_buffer = streak /\ Follows(p) /\ Len(m_seq_list) = n
        /\ \A i \in 1 .. n : m_seq_list[i] = streak[i].seq
    BY <1>2, Extended
  <2>2. /\ Len(streak') = n + 1 /\ DOMAIN streak' = 1 .. n + 1 /\ streak'[n + 1] = p
        /\ \A i \in 1 .. n : streak'[i] = streak[i] /\ streak[i] \in Packets
    BY <1>2, Appended DEF StreamTypeOK
  <2>3. 1 \in 1 .. n /\ 1 \in 1 .. n + 1
    BY <2>1
  <2>4. ASSUME n + 1 < Size[p.unit]
        PROVE  /\ m_buffer' = streak' /\ m_timestamp' = streak'[1].timestamp
               /\ Len(m_seq_list') = n + 1
               /\ \A i \in 1 .. n + 1 : m_seq_list'[i] = streak'[i].seq
    <3>1. p.form = "middle"
      BY <2>1, <2>4, FormPlace
    <3>2. Append1(p)
      BY <2>1, <3>1, AddCases DEF SingleUnit
    <3>3. m_buffer' = streak' /\ m_seq_list' = Append(m_seq_list, p.seq)
          /\ m_timestamp' = p.timestamp
      BY <1>2, <2>1, <3>2 DEF Append1, Follows
    <3>4. /\ Len(m_seq_list') = n + 1 /\ m_seq_list'[n + 1] = p.seq
          /\ \A i \in 1 .. n : m_seq_list'[i] = m_seq_list[i]
      <4>1. p.seq \in 0 .. Modulus - 1
        BY PacketTyped
      <4> QED  BY <2>1, <3>3, <4>1, Appended DEF StreamTypeOK
    <3>5. ASSUME NEW i \in 1 .. n + 1 PROVE m_seq_list'[i] = streak'[i].seq
      <4>1. CASE i = n + 1
        BY <2>2, <3>4, <4>1
      <4>2. CASE i \in 1 .. n
        BY <2>1, <2>2, <3>4, <4>2
      <4> QED  BY <2>1, <4>1, <4>2
    <3>6. m_timestamp' = streak'[1].timestamp
      <4>1. streak'[1] \in Packets /\ streak'[1].unit = p.unit
        BY <2>1, <2>2, <2>3
      <4> QED  BY <3>3, <4>1, OneUnit
    <3> QED  BY <3>3, <3>4, <3>5, <3>6
  <2>5. streak'[1].unit = p.unit
    BY <2>1, <2>3
  <2> HIDE DEF n
  <2> QED  BY <2>1, <2>2, <2>4, <2>5 DEF StreakKept
<1>3. CASE streak' = <<>>
  BY <1>3 DEF StreakKept
<1> QED  BY <1>1, <1>2, <1>3, StreakCases

(* The numbers of a unit's fragments are contiguous. *)
LEMMA UnitContiguous ==
  ASSUME NEW n \in Nat, NEW g, NEW s, Len(s) = n,
         \A i \in 1 .. n : g[i] \in Packets /\ g[i].index = i /\ s[i] = g[i].seq,
         \A i, j \in 1 .. n : g[i].unit = g[j].unit
  PROVE  Contiguous(s)
<1> SUFFICES ASSUME NEW i \in 2 .. Len(s)
             PROVE  s[i] = s[i - 1] + 1 \/ (s[i] = 0 /\ s[i - 1] # 0)
  BY DEF Contiguous
<1>1. i \in 1 .. n /\ i - 1 \in 1 .. n /\ i = (i - 1) + 1
  OBVIOUS
<1>2. /\ g[i - 1] \in Packets /\ g[i] \in Packets /\ g[i - 1].unit = g[i].unit
      /\ g[i].index = i /\ g[i - 1].index = i - 1
      /\ s[i] = g[i].seq /\ s[i - 1] = g[i - 1].seq
  BY <1>1
<1>3. g[i].index = g[i - 1].index + 1
  BY <1>1, <1>2
<1> QED  BY <1>2, <1>3, FollowsInNumber

LEMMA AddHeard ==
  ASSUME StreamTypeOK, StreakKept, NEW p \in Packets, Add(p), Complete(streak')
  PROVE  given' = streak' /\ streak'[1].jpeg = p.jpeg
<1>1. CASE p.index = 1 /\ streak' = <<p>>
  <2>1. Len(streak') = 1 /\ streak'[1] = p
    BY <1>1, SingleSequence
  <2>2. Size[p.unit] = 1
    BY <2>1 DEF Complete
  <2>3. p.form \notin {"first", "middle", "last"}
    BY <1>1, <2>2, FormPlace
  <2>4. SingleUnit(p)
    BY <2>3, AddCases
  <2> QED  BY <1>1, <2>1, <2>4 DEF SingleUnit
<1>2. CASE /\ streak # <<>> /\ streak[Len(streak)].unit = p.unit
           /\ streak[Len(streak)].index + 1 = p.index
           /\ streak' = Append(streak, p)
  <2> DEFINE n == Len(streak)
             s == Append(m_seq_list, p.seq)
  <2>1. /\ n \in Nat /\ 1 <= n /\ p.index = n + 1 /\ InUnit(streak')
        /\ \A i \in 1 .. n + 1 : streak'[i].unit = p.unit
        /\ m_buffer = streak /\ Follows(p) /\ Len(m_seq_list) = n
        /\ \A i \in 1 .. n : m_seq_list[i] = streak[i].seq
    BY <1>2, Extended
  <2>2. /\ Len(streak') = n + 1 /\ DOMAIN streak' = 1 .. n + 1 /\ streak'[n + 1] = p
        /\ \A i \in 1 .. n : streak'[i] = streak[i] /\ streak[i] \in Packets
    BY <1>2, Appended DEF StreamTypeOK
  <2>3. 1 \in 1 .. n /\ 1 \in 1 .. n + 1
    BY <2>1
  <2>4. streak'[1].unit = p.unit /\ streak'[1] \in Packets
    BY <2>1, <2>2, <2>3
  <2>5. n + 1 = Size[p.unit]
    BY <2>2, <2>4 DEF Complete
  <2>6. p.form = "last"
    BY <2>1, <2>5, FormPlace
  <2>7. End(p)
    BY <2>1, <2>6, AddCases DEF SingleUnit
  <2>8. /\ Len(s) = n + 1 /\ s[n + 1] = p.seq
        /\ \A i \in 1 .. n : s[i] = m_seq_list[i]
    <3>1. p.seq \in 0 .. Modulus - 1
      BY PacketTyped
    <3> QED  BY <2>1, <3>1, Appended DEF StreamTypeOK
  <2> HIDE DEF n, s
  <2>9. ASSUME NEW i \in 1 .. n + 1
        PROVE  streak'[i] \in Packets /\ streak'[i].index = i /\ s[i] = streak'[i].seq
    <3>1. CASE i = n + 1
      BY <2>1, <2>2, <2>8, <3>1
    <3>2. CASE i \in 1 .. n
      BY <2>1, <2>2, <2>8, <3>2 DEF InUnit
    <3> QED  BY <2>1, <3>1, <3>2
  <2>10. n + 1 \in Nat /\ \A i, j \in 1 .. n + 1 : streak'[i].unit = streak'[j].unit
    BY <2>1
  <2>11. Contiguous(s)
    <3> DEFINE k == n + 1
               g == streak'
    <3>1. /\ k \in Nat /\ Len(s) = k
          /\ \A i \in 1 .. k : g[i] \in Packets /\ g[i].index = i /\ s[i] = g[i].seq
          /\ \A i, j \in 1 .. k : g[i].unit = g[j].unit
      BY <2>8, <2>9, <2>10
    <3> HIDE DEF k, g
    <3> QED  BY <3>1, UnitContiguous
  <2>12. given' = Append(m_buffer, p)
    BY <2>7, <2>11 DEF End, Commit, s
  <2>13. streak'[1].jpeg = p.jpeg
    BY <2>4, OneUnit
  <2> QED  BY <1>2, <2>1, <2>12, <2>13
<1>3. CASE streak' = <<>>
  BY <1>3 DEF Complete
<1> QED  BY <1>1, <1>2, <1>3, StreakCases

-----------------------------------------------------------------------------
(* The server *)

ServerTyped ==
  /\ running \in BOOLEAN /\ m_had_key_frame \in BOOLEAN
  /\ m_packet_type \in PacketTypes \union {p.type : p \in Packets}
  /\ m_source_id \in {0} \union Sources
  /\ silence \in 0 .. StaleTimeout + 1
  /\ m_frame_count \in 0 .. FrameLimit
  /\ image \in {"none", "waits", "published"}
  /\ sending \subseteq Sources

RtpInvariant == ServerTyped /\ StreamInvariant

LEMMA StreamUnchanged ==
  ASSUME StreamInvariant, NotAdded \/ UNCHANGED streamVars,
         m_packet_type' = m_packet_type \/ m_packet_type = 0
  PROVE  StreamInvariant'
<1>1. UNCHANGED <<m_timestamp, m_seq_list, m_buffer, streak>>
      /\ given' \in {given, <<>>}
  BY DEF NotAdded, streamVars
<1>2. StreamTypeOK'
  <2>1. given' \in Seq(Packets)
    <3>1. <<>> \in Seq(Packets)
      OBVIOUS
    <3> QED  BY <1>1, <3>1 DEF StreamInvariant, StreamTypeOK
  <2> QED  BY <1>1, <2>1 DEF StreamInvariant, StreamTypeOK
<1>3. BufferParts' /\ BufferFollows' /\ StreakKept'
  <2>1. StreakKept'
    BY <1>1 DEF StreamInvariant, StreakKept
  <2>2. CASE m_packet_type' = m_packet_type
    BY <1>1, <2>1, <2>2 DEF StreamInvariant, BufferParts, BufferFollows
  <2>3. CASE m_packet_type = 0
    <3>1. m_buffer = <<>> /\ DOMAIN m_buffer = {} /\ InPlace(m_seq_list, m_buffer)
          /\ Linked(m_buffer) /\ m_timestamp = 0
      BY <2>3 DEF StreamInvariant, BufferFollows
    <3> QED  BY <1>1, <2>1, <3>1 DEF BufferParts, BufferFollows
  <2> QED  BY <2>2, <2>3
<1>4. GivenRight'
  BY <1>1 DEF StreamInvariant, GivenRight
<1> QED  BY <1>2, <1>3, <1>4 DEF StreamInvariant

LEMMA StreamAdded ==
  ASSUME StreamInvariant, NEW p \in Packets, Add(p), Expected(p)
  PROVE  StreamInvariant'
BY AddTyped, AddBuffer, AddGiven, AddStreak DEF StreamInvariant

LEMMA ImageTyped ==
  ASSUME ServerTyped, NEW key \in BOOLEAN, NoImage \/ OnImage(key)
  PROVE  /\ m_frame_count' \in 0 .. FrameLimit
         /\ m_had_key_frame' \in BOOLEAN
         /\ image' \in {"none", "waits", "published"}
<1>1. m_frame_count' \in 0 .. FrameLimit
  BY ServerAssumption DEF ServerTyped, NoImage, OnImage
<1>2. m_had_key_frame' \in BOOLEAN
  BY DEF ServerTyped, NoImage, OnImage
<1>3. image' \in {"none", "waits", "published"}
  BY DEF NoImage, OnImage
<1> QED  BY <1>1, <1>2, <1>3

LEMMA PayloadCases ==
  ASSUME NEW p \in Packets, Payload(p)
  PROVE  \E key \in BOOLEAN : NoImage \/ OnImage(key)
BY DEF Payload

LEMMA ReceiveTyped ==
  ASSUME ServerTyped, NEW p \in Packets, Receive(p)
  PROVE  ServerTyped'
<1>1. PICK key \in BOOLEAN : NoImage \/ OnImage(key)
  BY PayloadCases DEF Receive, Ignore
<1>2. /\ m_frame_count' \in 0 .. FrameLimit /\ m_had_key_frame' \in BOOLEAN
      /\ image' \in {"none", "waits", "published"}
  BY <1>1, ImageTyped
<1>3. m_packet_type' \in PacketTypes \union {q.type : q \in Packets}
  BY DEF Receive, Ignore, Accept, NewType, ServerTyped
<1>4. m_source_id' \in {0} \union Sources
  BY DEF Receive, Ignore, Accept, Sources, ServerTyped
<1>5. silence' \in 0 .. StaleTimeout + 1
  <2>1. silence' \in {silence, 0}
    BY DEF Receive, Ignore, Accept
  <2> QED  BY <2>1, ServerAssumption DEF ServerTyped
<1>6. running' \in BOOLEAN /\ sending' \subseteq Sources
  BY DEF Receive, Ignore, ServerTyped
<1> QED  BY <1>2, <1>3, <1>4, <1>5, <1>6 DEF ServerTyped

LEMMA ReceiveStream ==
  ASSUME NEW p \in Packets, Receive(p)
  PROVE  \/ NotAdded /\ (m_packet_type' = m_packet_type \/ m_packet_type = 0)
         \/ Add(p) /\ Expected(p)
<1>1. p.jpeg <=> p.type = 26
  BY ServerAssumption
<1>2. CASE NotAdded
  <2>1. m_packet_type' = NewType(p)
    BY DEF Receive, Ignore, Accept
  <2>2. m_packet_type = 0 \/ m_packet_type' = m_packet_type
    BY <2>1 DEF NewType
  <2> QED  BY <1>2, <2>2
<1>3. CASE ~NotAdded
  <2>1. TypeAccepted(p) /\ Accept(p) /\ ~Unwanted(p) /\ Add(p)
    BY <1>3 DEF Receive, Ignore
  <2>2. Video(p.type)
    BY <2>1 DEF Unwanted
  <2>3. p.type # 0
    BY <2>2 DEF Video
  <2>4. m_packet_type \in {0, p.type} /\ m_packet_type' = p.type
    BY <2>1 DEF TypeAccepted, Accept, NewType
  <2> QED  BY <1>1, <2>1, <2>3, <2>4 DEF Expected
<1> QED  BY <1>2, <1>3

LEMMA RtpStarts == RtpInit => RtpInvariant
<1> SUFFICES ASSUME RtpInit PROVE RtpInvariant
  OBVIOUS
<1>1. ServerTyped
  <2>1. /\ silence \in 0 .. StaleTimeout + 1 /\ m_frame_count \in 0 .. FrameLimit
        /\ image = "none" /\ m_source_id = 0
    BY ServerAssumption DEF RtpInit
  <2>2. running \in BOOLEAN /\ m_had_key_frame \in BOOLEAN
    BY DEF RtpInit
  <2>3. m_packet_type \in PacketTypes /\ sending \subseteq Sources
    BY DEF RtpInit
  <2> QED  BY <2>1, <2>2, <2>3 DEF ServerTyped
<1>2. StreamTypeOK
  BY DEF RtpInit, StreamInit, StreamTypeOK
<1>3. BufferParts /\ BufferFollows /\ StreakKept /\ GivenRight
  <2>1. /\ m_timestamp = 0 /\ m_seq_list = <<>> /\ m_buffer = <<>>
        /\ given = <<>> /\ streak = <<>> /\ DOMAIN m_buffer = {} /\ Len(m_buffer) = 0
    BY DEF RtpInit, StreamInit
  <2>2. InPlace(m_seq_list, m_buffer) /\ Linked(m_buffer)
    BY <2>1 DEF InPlace, Linked, Chained, InUnit
  <2> QED  BY <2>1, <2>2 DEF BufferParts, BufferFollows, StreakKept, GivenRight
<1> QED  BY <1>1, <1>2, <1>3 DEF RtpInvariant, StreamInvariant

LEMMA RtpStep == RtpInvariant /\ [RtpNext]_rtpVars => RtpInvariant'
<1> SUFFICES ASSUME RtpInvariant, [RtpNext]_rtpVars PROVE RtpInvariant'
  OBVIOUS
<1> USE DEF RtpInvariant
<1>1. CASE \E p \in Packets : Receive(p)
  BY <1>1, ReceiveTyped, ReceiveStream, StreamAdded, StreamUnchanged
<1>2. CASE Tick
  <2>1. silence' \in 0 .. StaleTimeout + 1
    BY <1>2, ServerAssumption DEF Tick, ServerTyped
  <2>2. ServerTyped'
    BY <1>2, <2>1 DEF Tick, NoImage, ServerTyped
  <2> QED  BY <1>2, <2>2, StreamUnchanged DEF Tick
<1>3. CASE \E s \in Sources : Switch(s)
  <2>1. ServerTyped'
    BY <1>3 DEF Switch, ServerTyped, filterVars, outputVars
  <2> QED  BY <1>3, <2>1, StreamUnchanged DEF Switch, filterVars
<1>4. CASE UNCHANGED rtpVars
  <2>1. ServerTyped'
    BY <1>4 DEF rtpVars, ServerTyped, filterVars, outputVars
  <2> QED  BY <1>4, <2>1, StreamUnchanged DEF rtpVars, filterVars
<1> QED  BY <1>1, <1>2, <1>3, <1>4 DEF RtpNext

LEMMA RtpAlways == RtpSpec => []RtpInvariant
<1> QED  BY RtpStarts, RtpStep, PTL DEF RtpSpec

(* Whatever is lost, late or comes twice, and whichever cameras there are, *)
(* what the stream hands over is one unit from its first fragment to its   *)
(* last, but for the exceptions that Mistaken and Beheaded name            *)
(* (gvrtppacketstream.cpp:128).                                            *)
THEOREM UnitsWhole == RtpSpec => []WholeUnits
<1>1. RtpInvariant => WholeUnits
  BY DEF RtpInvariant, ServerTyped, StreamInvariant, GivenRight, WholeUnits, RtpTypeOK
<1> QED  BY <1>1, RtpAlways, PTL

(* The fragments of a unit that come one after the other are handed over   *)
(* with the last of them, whatever came before the first, and the image of *)
(* a JPEG unit is published (gvrtppacketstream.cpp:54 and :105,            *)
(* rtpserver.cpp:128).                                                     *)
LEMMA HeardStep ==
  ASSUME RtpInvariant, [RtpNext]_rtpVars, streak' # streak, Complete(streak')
  PROVE  given' = streak' /\ (streak'[1].jpeg => image' = "published")
<1>1. PICK p \in Packets : Receive(p) /\ ~NotAdded
  BY DEF RtpNext, rtpVars, Tick, Switch, NotAdded, streamVars
<1>2. Add(p) /\ Payload(p)
  BY <1>1 DEF Receive, Ignore
<1>3. given' = streak' /\ streak'[1].jpeg = p.jpeg
  BY <1>2, AddHeard DEF RtpInvariant, StreamInvariant
<1>4. ASSUME p.jpeg PROVE image' = "published"
  <2>1. OnImage(TRUE)
    BY <1>2, <1>3, <1>4 DEF Payload, Complete
  <2>2. m_had_key_frame'
    BY <2>1 DEF OnImage
  <2> QED  BY <2>1, <2>2 DEF OnImage
<1> QED  BY <1>3, <1>4

THEOREM UnitsHeard == RtpSpec => Heard
<1>1. RtpInvariant /\ [RtpNext]_rtpVars =>
        [streak' # streak /\ Complete(streak') =>
           given' = streak' /\ (streak'[1].jpeg => image' = "published")]_rtpVars
  BY HeardStep
<1> QED  BY <1>1, RtpAlways, PTL DEF RtpSpec, Heard

=============================================================================
