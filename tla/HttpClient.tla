----------------------------- MODULE HttpClient -----------------------------
(***************************************************************************)
(* The program of httpclient (main/httpclient.cpp) on a connection, with   *)
(* GNet::HttpClientProtocol and its parser: GET requests one after the     *)
(* other, or one whose answer is a stream of parts; one attempt to         *)
(* authenticate; a watchdog.  The other end answers what it is asked.      *)
(*                                                                         *)
(* A response, and a part of a stream, is one item with a serial number.   *)
(* One read may find several; data that complete none only restart the     *)
(* watchdog, and are not modelled.                                         *)
(***************************************************************************)
EXTENDS ClientStack

CONSTANT MaxServed   \* bound: the items that are sent on one connection

ASSUME HttpAssumption == MaxServed \in Nat

VARIABLES
  m_parser,       \* per client: the items that are kept by the parser
  m_tried_auth,
  asked,          \* per client: requests that have not been answered
  served,         \* per client: the number of items sent to it
  shown           \* per client, history: the images given to the output

httpVars == <<m_parser, m_tried_auth, asked, served, shown>>

Answers == {"401", "503", "404", "image", "stream"}

HttpTypeOK ==
  /\ \A c \in Clients : \A i \in DOMAIN m_parser[c] :
       m_parser[c][i].kind \in Answers \union {"part"}
  /\ m_tried_auth \in [Clients -> BOOLEAN]
  /\ asked \in [Clients -> 0 .. 1]
  /\ served \in [Clients -> 0 .. MaxServed]

HttpInit ==
  /\ m_parser = [c \in Clients |-> <<>>]
  /\ m_tried_auth = [c \in Clients |-> FALSE]
  /\ asked = [c \in Clients |-> 0]
  /\ served = [c \in Clients |-> 0]
  /\ shown = [c \in Clients |-> <<>>]

(* The object is gone, and a new one has no past. *)
HttpForgets(c) ==
  /\ m_parser' = [m_parser EXCEPT ![c] = <<>>]
  /\ m_tried_auth' = [m_tried_auth EXCEPT ![c] = FALSE]
  /\ asked' = [asked EXCEPT ![c] = 0]
  /\ served' = [served EXCEPT ![c] = 0]
  /\ shown' = [shown EXCEPT ![c] = <<>>]

-----------------------------------------------------------------------------
(* Requests *)

(* sendHttpRequest(): true when it was sent, false when send() threw, as   *)
(* it does only when the other end is known to have gone.                  *)
Asks(c, running, ok) ==
  IF ok
  THEN GoesOn(c, running) /\ asked' = [asked EXCEPT ![c] = @ + 1]
  ELSE /\ peer'[c] = "closed"
       /\ DoDelete(c, running, "peer disconnected")
       /\ UNCHANGED asked

(* HttpClient::onConnect() *)
HttpOnConnect(c) ==
  /\ \E other \in {"up", "closed"}, ok \in BOOLEAN :
       HasPeer(c, other) /\ Asks(c, AfterConnect(c), ok)
  /\ UNCHANGED <<m_parser, m_tried_auth, served, shown>>

(* onRequestTimeout(): the next request, without credentials. *)
OnRequestTimeout(c) ==
  /\ "request" \in timers[c]
  /\ UNCHANGED <<option, m_once_connected, sockets>>
  /\ \E ok \in BOOLEAN : Asks(c, timers[c] \ {"request"}, ok)
  /\ UNCHANGED <<m_parser, m_tried_auth, served, shown>>

(* onWatchdogTimeout(): throws. *)
OnWatchdogTimeout(c) ==
  /\ "watchdog" \in timers[c]
  /\ UNCHANGED <<option, m_once_connected, sockets, httpVars>>
  /\ DoDelete(c, timers[c] \ {"watchdog"}, "watchdog timeout")

-----------------------------------------------------------------------------
(* Responses *)

Shows(c, item) == shown' = [shown EXCEPT ![c] = Append(@, item.n)]
Keeps(c, data) == m_parser' = [m_parser EXCEPT ![c] = data]

(* An exception leaves the parser as it is. *)
Fails(c, data, running, reason) ==
  /\ Keeps(c, data) /\ DoDelete(c, running, reason)
  /\ UNCHANGED <<asked, shown>>

Unauthorised(c, data, running) ==
  \/ /\ ~option.auth \/ m_tried_auth[c]
     /\ UNCHANGED m_tried_auth
     /\ Fails(c, data, running, "http client protocol")
  \/ /\ option.auth /\ ~m_tried_auth[c]
     /\ m_tried_auth' = [m_tried_auth EXCEPT ![c] = TRUE]
     /\ \/ Fails(c, data, running, "http client protocol error")   \* no mechanism
        \/ \E ok \in BOOLEAN :
             /\ Asks(c, running, ok)
             /\ Keeps(c, IF ok THEN <<>> ELSE data)
             /\ UNCHANGED shown

\* Mutant of ClearPart: the part stays too.
ClearNothing(data) == data

(* The part that is shown is taken out of the data, the headers stay. *)
ClearPart(data) == <<Head(data)>> \o SubSeq(data, 3, Len(data))

(* processData(): one thing only, whatever else there is in the data.      *)
ProcessData(c, data, running) ==
  LET kind == Head(data).kind IN
  \/ kind = "401" /\ Unauthorised(c, data, running)
  \/ /\ kind = "404" /\ UNCHANGED m_tried_auth
     /\ Fails(c, data, running, "http client protocol error")
  \/ /\ kind = "503" \/ (kind = "stream" /\ Len(data) = 1)
     /\ Keeps(c, data) /\ GoesOn(c, running)      \* Retry is absorbed by onData()
     /\ UNCHANGED <<m_tried_auth, asked, shown>>
  \/ /\ kind = "stream" /\ Len(data) > 1
     /\ Shows(c, data[2]) /\ Keeps(c, ClearPart(data)) /\ GoesOn(c, running)
     /\ UNCHANGED <<m_tried_auth, asked>>
  \/ /\ kind = "image"
     /\ Shows(c, data[1]) /\ Keeps(c, <<>>)
     /\ GoesOn(c, running \union {"request"})
     /\ UNCHANGED <<m_tried_auth, asked>>

\* Mutant of Watched: the watchdog is left to the next connection.
Unwatched(c) == timers[c]

(* HttpClient::onData(): the watchdog starts with the first data. *)
Watched(c) == timers[c] \union (IF option.watchdog THEN {"watchdog"} ELSE {})

HttpOnData(c) ==
  \E items \in 1 .. Len(inbox[c]) :
    /\ Reads(c, items)
    /\ \E data \in {m_parser[c] \o SubSeq(inbox[c], 1, items)} :
         ProcessData(c, data, Watched(c))
    /\ UNCHANGED served

-----------------------------------------------------------------------------
(* The server answers a request, and may send parts once it has answered   *)
(* with a stream.                                                          *)

Streaming(c) ==
  \/ m_parser[c] # <<>> /\ m_parser[c][1].kind = "stream"
  \/ \E i \in DOMAIN inbox[c] : inbox[c][i].kind = "stream"

HttpServes(c) ==
  /\ served[c] < MaxServed
  /\ served' = [served EXCEPT ![c] = @ + 1]
  /\ \/ /\ asked[c] > 0 /\ asked' = [asked EXCEPT ![c] = @ - 1]
        /\ \E kind \in Answers : Delivers(c, [kind |-> kind, n |-> served[c] + 1])
     \/ /\ Streaming(c) /\ UNCHANGED asked
        /\ Delivers(c, [kind |-> "part", n |-> served[c] + 1])
  /\ UNCHANGED <<m_parser, m_tried_auth, shown>>

=============================================================================
