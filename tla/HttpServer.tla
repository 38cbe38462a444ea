----------------------------- MODULE HttpServer -----------------------------
(***************************************************************************)
(* The http server (gvideo/gvhttpserverpeer.cpp, gvhttpserver.cpp): a      *)
(* Gv::HttpServerPeer for each connection, which serves single images, a   *)
(* stream of images, or files, and one channel that they all share.        *)
(*                                                                         *)
(* Every step is one event of the event loop.  A connection whose client   *)
(* does not read is blocked: what is sent is sent in part, and the rest    *)
(* stays until the client reads.  An exception in an event, the loss of    *)
(* the client and the idle timer all make a dying peer, which is deleted   *)
(* by the loop a little later.                                             *)
(*                                                                         *)
(* Abstractions: the data timer runs or not, whatever its time, so that it *)
(* may end before other events or after them; libjpeg is built in; the two *)
(* kinds of streaming_busy are one; and so are requests with and without a *)
(* body.                                                                   *)
(***************************************************************************)
EXTENDS ImageInput

CONSTANTS
  Requests,    \* what a client may ask for
  DefaultType, \* the type when the client does not say
  MaxRequests  \* bound: number of requests

(* A target is a channel, a channel that there is not, or a file.          *)
Targets == {"channel", "nowhere", "file"}

ASSUME RequestAssumption ==
  /\ Requests \subseteq [target : Targets, type : Types, streaming : BOOLEAN, quick : BOOLEAN]
  /\ DefaultType \in Types /\ MaxRequests \in Nat

VARIABLES
  peer,      \* the peer of each connection
  requests   \* number of requests

vars == <<inputVars, peer, requests>>

NoRequest == [target |-> "nowhere", type |-> DefaultType, streaming |-> FALSE, quick |-> TRUE]

(* A peer's m_source is the channel or nothing.                            *)
NoPeer == [state |-> "none", config |-> NoRequest, image |-> NoFrame, timer |-> FALSE,
           source |-> FALSE, blocked |-> FALSE, dying |-> FALSE]

States == {"none", "init", "idle", "got_get", "got_post", "file", "file_busy", "waiting",
           "single_idle", "single_busy", "streaming_first_idle", "streaming_idle",
           "streaming_busy"}

TypeOK ==
  /\ InputTyped
  /\ peer \in [Handler -> [state : States, config : Requests \union {NoRequest},
                           image : Frames \union {NoFrame}, timer : BOOLEAN,
                           source : BOOLEAN, blocked : BOOLEAN, dying : BOOLEAN]]
  /\ requests \in 0 .. MaxRequests

Init ==
  /\ InputInit
  /\ peer = [h \in Handler |-> NoPeer] /\ requests = 0

-----------------------------------------------------------------------------
(* Sending *)

(* sendPdu() and doSend(): all sent or not.  It throws when it is still    *)
(* busy with the last packet.                                              *)
Sends(p, allSent, busy) ==
  IF p.blocked THEN {[p EXCEPT !.dying = TRUE]}
  ELSE {allSent, [busy EXCEPT !.blocked = TRUE]}

(* doSendResponse(), and the peer is idle.  Nothing is done when it is not *)
(* all sent.                                                               *)
Responds(p) == LET idle == [p EXCEPT !.state = "idle"] IN Sends(idle, idle, idle)

(* onDataTimeout(), with an image: a stream's timer is started again.      *)
SendsImage(p, next, busy) ==
  Sends(p, [p EXCEPT !.state = next, !.timer = next = "streaming_idle"],
        [p EXCEPT !.state = busy])

Begun(p) == IF p.config.streaming THEN "streaming_first_idle" ELSE "single_idle"

(* onDataTimeout() *)
DataTimeout(h) ==
  LET p == [peer[h] EXCEPT !.timer = FALSE] IN
  /\ peer[h].timer
  /\ \E q \in
       CASE p.state = "file" ->
              Sends(p, [p EXCEPT !.state = "idle"], [p EXCEPT !.state = "file_busy"])
         [] p.state = "waiting" /\ p.image = NoFrame -> Responds(p)
         [] p.state = "waiting" /\ p.image # NoFrame ->
              {[p EXCEPT !.state = Begun(p), !.timer = TRUE]}
         [] p.state \in {"streaming_first_idle", "streaming_idle"} ->
              SendsImage(p, "streaming_idle", "streaming_busy")
         [] p.state = "single_idle" -> SendsImage(p, "idle", "single_busy")
         [] OTHER -> {p} :
       peer' = [peer EXCEPT ![h] = q]
  /\ UNCHANGED <<inputVars, requests>>

\* Mutant of SentAll: a stream waits for the next image.
SentAllWaits(p) ==
  CASE p.state = "streaming_busy" -> [p EXCEPT !.state = "streaming_idle"]
    [] p.state \in {"single_busy", "file_busy"} -> [p EXCEPT !.state = "idle"]
    [] OTHER -> p

(* onSendComplete() *)
SentAll(p) ==
  CASE p.state = "streaming_busy" -> [p EXCEPT !.state = "streaming_idle", !.timer = TRUE]
    [] p.state \in {"single_busy", "file_busy"} -> [p EXCEPT !.state = "idle"]
    [] OTHER -> p

(* The client has read what was kept. *)
SendComplete(h) ==
  /\ peer[h].blocked
  /\ peer' = [peer EXCEPT ![h] = [SentAll(@) EXCEPT !.blocked = FALSE]]
  /\ UNCHANGED <<inputVars, requests>>

-----------------------------------------------------------------------------
(* Requests *)

(* selectSource() for the peer: a new source starts without an image.      *)
Selected(p, target) ==
  LET source == IF target = "file" THEN p.source ELSE target = "channel"
  IN  IF source = p.source THEN p
      ELSE [p EXCEPT !.source = source, !.image = NoFrame, !.timer = FALSE]

(* HttpServerSources::select() and HttpServerSource::set() *)
Select(h, p, target) ==
  /\ peer' = [peer EXCEPT ![h] = Selected(p, target)]
  /\ IF target = "channel" THEN Start ELSE UNCHANGED channelVars
  /\ CASE target = "channel" /\ ~p.source -> Add(h)
       [] target = "nowhere" /\ p.source -> Remove(h)
       [] OTHER -> UNCHANGED m_tasks
  /\ UNCHANGED resendVars

Connect(h) ==
  /\ peer[h].state = "none"
  /\ peer' = [peer EXCEPT ![h].state = "init"]
  /\ UNCHANGED <<inputVars, requests>>

(* onReceive() of the first line of a request, which may come before a     *)
(* dying peer is deleted.                                                  *)
GetLine(h, request) ==
  /\ peer[h].state \in {"init", "idle"}
  /\ requests < MaxRequests /\ requests' = requests + 1
  /\ Select(h, [peer[h] EXCEPT !.state = "got_get", !.config = request], request.target)

PostLine(h, target) ==
  /\ peer[h].state \in {"init", "idle"}
  /\ requests < MaxRequests /\ requests' = requests + 1
  /\ Select(h, [peer[h] EXCEPT !.state = "got_post"], target)

(* onReceive() of the last line of a request. *)
PostEnd(h) ==
  /\ peer[h].state = "got_post"
  /\ \E q \in Responds(peer[h]) : peer' = [peer EXCEPT ![h] = q]
  /\ UNCHANGED <<inputVars, requests>>

Begins(p) == IF p.image = NoFrame THEN "waiting" ELSE Begun(p)

GetEnd(h) ==
  LET p    == peer[h]
      Go(state) == peer' = [peer EXCEPT ![h].state = state, ![h].timer = TRUE]
  IN
  /\ p.state = "got_get"
  /\ \/ /\ p.config.target = "file" /\ Go("file")
        /\ UNCHANGED inputVars
     \/ /\ p.config.target # "file" /\ ~p.source
        /\ \E q \in Responds(p) : peer' = [peer EXCEPT ![h] = q]
        /\ UNCHANGED inputVars
     \/ /\ p.config.target # "file" /\ p.source
        /\ Go(Begins(p))
        /\ IF p.config.quick THEN Resend(h) ELSE UNCHANGED resendVars
        /\ UNCHANGED <<channelVars, m_tasks>>
  /\ UNCHANGED requests

(* doDelete(): the client goes away, or the idle timer ends. *)
Drop(h) ==
  /\ peer[h].state # "none" /\ ~peer[h].dying
  /\ peer' = [peer EXCEPT ![h].dying = TRUE]
  /\ UNCHANGED <<inputVars, requests>>

(* doDeleteThis() and ~HttpServerSource() *)
Delete(h) ==
  /\ peer[h].dying
  /\ peer' = [peer EXCEPT ![h] = NoPeer]
  /\ IF peer[h].source THEN Remove(h) ELSE UNCHANGED m_tasks
  /\ UNCHANGED <<channelVars, resendVars, requests>>

-----------------------------------------------------------------------------
(* Images *)

(* doInput() *)
DoInput(p, frame) ==
  IF p.state \in {"init", "idle"} THEN [p EXCEPT !.image = NoFrame]
  ELSE [p EXCEPT !.image = frame, !.timer = @ \/ p.state \in {"waiting", "streaming_idle"}]

(* imageInputConversion() *)
Wanted == [h \in Handler |-> peer[h].config.type]

Delivered(one) ==
  LET given == Given(Frame, one, Wanted)
  IN  [h \in Handler |-> IF h \in DOMAIN given THEN DoInput(peer[h], given[h]) ELSE peer[h]]

Input ==
  /\ Receive(Wanted)
  /\ peer' = Delivered(NoHandler)
  /\ UNCHANGED requests

Resent ==
  /\ ResendNow(Wanted)
  /\ peer' = IF CanResend THEN Delivered(m_resend_to) ELSE peer
  /\ UNCHANGED requests

Channel ==
  /\ Publish \/ PublisherGoes \/ PublisherComes \/ LoseChannel \/ Reopen
  /\ UNCHANGED <<peer, requests>>

Client(h) ==
  \/ Connect(h) \/ PostEnd(h) \/ GetEnd(h) \/ SendComplete(h) \/ Drop(h)
  \/ \E request \in Requests : GetLine(h, request)
  \/ \E target \in Targets : PostLine(h, target)

Next ==
  \/ Channel \/ Input \/ Resent
  \/ \E h \in Handler : Client(h) \/ DataTimeout(h) \/ Delete(h)

Spec == Init /\ [][Next]_vars

-----------------------------------------------------------------------------
(* Properties *)

(* The image that buildPdu() asserts is there whenever it is called, though*)
(* images come, are cleared and belong to other sources meanwhile.         *)
ImageThere ==
  \A h \in Handler :
    peer[h].state \in {"single_idle", "streaming_first_idle", "streaming_idle"} =>
      peer[h].image # NoFrame /\ peer[h].source

(* A peer that has something to do next has the event that makes it do it, *)
(* the data timer or what the socket has kept, and the timer runs only     *)
(* then: otherwise a request would never be answered, or a stream stop.    *)
KeepsGoing ==
  \A h \in Handler : ~peer[h].dying =>
    /\ peer[h].timer <=> peer[h].state \in {"file", "waiting", "single_idle",
                                            "streaming_first_idle", "streaming_idle"}
    /\ peer[h].state \in {"file_busy", "single_busy", "streaming_busy"} => peer[h].blocked

(* The channel calls the peers that use it, each once, and no peer that    *)
(* has been deleted.                                                       *)
NoDangling ==
  \A h \in Handler :
    Cardinality({i \in DOMAIN m_tasks : m_tasks[i].handler = h})
      = IF peer[h].source THEN 1 ELSE 0

PeerInvariant == TypeOK /\ ImageThere /\ KeepsGoing /\ NoDangling

(* A peer that serves a request is given the newest image: when the        *)
(* channel is read, if no handler has left since the last image, and when  *)
(* it is sent again for the peer, always.                                  *)
Serves(h) == peer[h].source /\ peer[h].state \notin {"init", "idle"}

Newest ==
  [][/\ m_fd = "open" /\ received' # received
        /\ (\A i \in DOMAIN m_tasks : m_tasks[i].handler # NoHandler) =>
          \A h \in Handler : Serves(h) => peer'[h].image.n = received'
     /\ m_resend_to # NoHandler /\ m_resend_to' = NoHandler =>
          (Serves(m_resend_to) => peer'[m_resend_to].image.n = published)]_vars

(* A peer that serves a request is given images of the type that the       *)
(* request asks for.                                                       *)
Converted ==
  [][\A h \in Handler : peer'[h].image \notin {NoFrame, peer[h].image} =>
       peer'[h].image.type = peer[h].config.type]_vars

(* A statement of the documentation: all registered handlers are notified  *)
(* of any new images (gvimageinput.h:183).  It does not hold: a handler is *)
(* given the old image of one that has left and wanted the same type.      *)
Notified ==
  [][m_fd = "open" /\ received' # received =>
       \A h \in Handler : Serves(h) => peer'[h].image.n = received']_vars

=============================================================================
