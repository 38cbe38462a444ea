------------------------------ MODULE NetClient ------------------------------
(***************************************************************************)
(* The two client programs, httpclient and rtspclient, one of which is run *)
(* on the client stack: the callbacks of the stack with the programs' own. *)
(***************************************************************************)
EXTENDS HttpClient, RtspClient

vars == <<option, m_once_connected, session, sockets, httpVars, rtspVars>>

Http == option.program = "http"
Rtsp == option.program = "rtsp"

Init == StackInit /\ HttpInit /\ RtspInit

\* The event loop runs until it is told to quit.
Running == ~quit

ConnectTimer(c)      == Running /\ OnConnectTimer(c) /\ UNCHANGED <<httpVars, rtspVars>>
FutureEvent(c)       == Running /\ OnFutureEvent(c) /\ UNCHANGED <<httpVars, rtspVars>>
ConnectFailure(c)    == Running /\ OnConnectFailure(c) /\ UNCHANGED <<httpVars, rtspVars>>
ConnectionTimeout(c) == Running /\ OnConnectionTimeout(c) /\ UNCHANGED <<httpVars, rtspVars>>
Reconnect(c)         == Running /\ OnReconnect(c) /\ UNCHANGED <<httpVars, rtspVars>>
DeletionTimeout(c)   == Running /\ OnDeletionTimeout(c) /\ HttpForgets(c) /\ RtspForgets(c)

Connect(c) ==
  /\ Running
  /\ \/ Http /\ HttpOnConnect(c) /\ UNCHANGED rtspVars
     \/ Rtsp /\ RtspOnConnect(c) /\ UNCHANGED httpVars

Read(c) ==
  /\ Running
  /\ \/ Http /\ HttpOnData(c) /\ UNCHANGED rtspVars
     \/ Rtsp /\ RtspOnData(c) /\ UNCHANGED httpVars
     \/ ReadEnd(c) /\ UNCHANGED <<httpVars, rtspVars>>

RequestTimeout(c)  == Running /\ OnRequestTimeout(c) /\ UNCHANGED rtspVars
WatchdogTimeout(c) == Running /\ OnWatchdogTimeout(c) /\ UNCHANGED rtspVars

Lookup(c) == ThreadEnds(c) /\ UNCHANGED <<httpVars, rtspVars>>

Server(c) ==
  \/ Http /\ HttpServes(c) /\ UNCHANGED rtspVars
  \/ Rtsp /\ RtspServes(c) /\ UNCHANGED httpVars
  \/ PeerLeaves(c) /\ UNCHANGED <<httpVars, rtspVars>>

\* One after the other, never two at a time.
Connecting(c) == ConnectTimer(c) \/ FutureEvent(c) \/ Connect(c) \/ ConnectFailure(c)

Callback(c) ==
  \/ Connecting(c) \/ ConnectionTimeout(c) \/ Read(c) \/ RequestTimeout(c) \/ WatchdogTimeout(c)
  \/ DeletionTimeout(c) \/ Reconnect(c)

Next == \E c \in Clients : Callback(c) \/ Lookup(c) \/ Server(c)

Spec == Init /\ [][Next]_vars

(* Every timer goes off and every ready descriptor is served in the end, a *)
(* lookup and an attempt to connect come to an end, the server owes        *)
(* nothing.                                                                *)
Fairness ==
  /\ \A c \in Clients :
       /\ WF_vars(Connecting(c)) /\ WF_vars(Lookup(c)) /\ WF_vars(Read(c))
       /\ WF_vars(RequestTimeout(c)) /\ WF_vars(WatchdogTimeout(c))
       /\ WF_vars(DeletionTimeout(c))
  /\ WF_vars(\E c \in Clients : Reconnect(c))

FairSpec == Spec /\ Fairness

-----------------------------------------------------------------------------

Exists(c) == m_state[c] # "none"
Dying(c)  == "delete" \in timers[c]

TypeOK == StackTypeOK /\ HttpTypeOK /\ RtspTypeOK

(* Lifetimes, across the deletion by a timer, the done signal and the      *)
(* resolver's thread (gheapclient.cpp, gclientptr.h, gresolver.cpp): an    *)
(* object that is gone has no event left that could call it, and no thread *)
(* that writes to it; every object but the one that the holder points to   *)
(* is being deleted; and there is always one that is not, or a timer to    *)
(* make it, or the end.                                                    *)
Lifetimes ==
  /\ TypeOK
  /\ \A c \in Clients :
       /\ ~Exists(c) => timers[c] = {} /\ handlers[c] = {} /\ thread[c] = "none"
       /\ Exists(c) => (Dying(c) <=> m_ptr # c)
       /\ Exists(c) => (Dying(c) <=> m_done[c])
  /\ m_ptr # None => Exists(m_ptr)
  /\ m_ptr = None <=> (reconnect \/ quit)
  /\ ~(reconnect /\ quit)

(* On a connection that is in use there is one request at any time: to be  *)
(* answered, answered and not read, kept by the parser (a stream, or a     *)
(* service that is not available), or waiting for its timer                *)
(* (main/httpclient.cpp, ghttpclientprotocol.cpp).  Credentials go with    *)
(* one request at most.                                                    *)
One(condition) == IF condition THEN 1 ELSE 0

OneRequest ==
  \A c \in Clients :
    (Http /\ m_state[c] = "connected" /\ ~Dying(c)) =>
      asked[c] + One(\E i \in DOMAIN inbox[c] : inbox[c][i].kind \in Answers)
        + One(m_parser[c] # <<>>) + One("request" \in timers[c]) = 1

(* An image is shown once, and in the order of the server, however the     *)
(* data are cut into reads (ghttpclientprotocol.cpp:83).                   *)
ShownInOrder ==
  \A c \in Clients : \A i, j \in DOMAIN shown[c] : i < j => shown[c][i] < shown[c][j]

(* A request is made only on the answer of the camera to the one before:   *)
(* an answer that is old, or comes twice, never moves the dialogue on      *)
(* (main/rtspclient.cpp:372).                                              *)
InStep ==
  \A c \in Clients : \A i \in DOMAIN sent[c] : i > 1 => i - 1 \in replied[c]

ClientInvariant == Lifetimes /\ OneRequest /\ InStep

(* A connection that the other end closes, or that goes silent after some  *)
(* data, is given up in the end: the program is not left with one for ever *)
(* (httpclient.cpp:24).                                                    *)
Lost ==
  /\ m_ptr # None /\ ~quit
  /\ \/ peer[m_ptr] = "closed"
     \/ peer[m_ptr] = "silent" /\ Http /\ option.watchdog /\ served[m_ptr] > 0

Recovers == []<>~Lost

(* A statement of the documentation that does not hold: the same also when *)
(* the other end never sends anything.                                     *)
Unheard == m_ptr # None /\ ~quit /\ peer[m_ptr] = "silent" /\ Http /\ option.watchdog

SilenceNoticed == []<>~Unheard

=============================================================================
