----------------------------- MODULE RtspClient -----------------------------
(***************************************************************************)
(* The program of rtspclient (main/rtspclient.cpp) on a connection: a      *)
(* dialogue of OPTIONS, DESCRIBE (twice when credentials are wanted),      *)
(* SETUP and PLAY, each with the next sequence number, and each sent in    *)
(* the callback of the answer to the one before.                           *)
(*                                                                         *)
(* A camera may answer late, twice, or with an old sequence number.  The   *)
(* lines of several answers in one read are taken one answer at a time.    *)
(***************************************************************************)
EXTENDS ClientStack

CONSTANT MaxReplies   \* bound: the answers that are sent on one connection

ASSUME RtspAssumption == MaxReplies \in Nat

VARIABLES
  m_dialogue,   \* per client: RtspClient::m_state
  m_seq,
  m_authentication_supplied,
  m_unclear,    \* per client: whether the parser holds an answer that threw
  replies,      \* per client: the number of answers sent to it
  replied,      \* per client, history: the requests that have been answered
  sent          \* per client, history: the requests in their order

rtspVars == <<m_dialogue, m_seq, m_authentication_supplied, m_unclear,
              replies, replied, sent>>

Methods == {"OPTIONS", "DESCRIBE", "SETUP", "PLAY"}
Dialogue == {"connecting", "options", "describe", "setup", "play"}

RtspTypeOK ==
  /\ m_dialogue \in [Clients -> Dialogue]
  /\ \A c \in Clients : m_seq[c] = Len(sent[c]) + 1
  /\ m_authentication_supplied \in [Clients -> BOOLEAN]
  /\ m_unclear \in [Clients -> BOOLEAN]
  /\ replies \in [Clients -> 0 .. MaxReplies]
  /\ \A c \in Clients : sent[c] \in Seq(Methods) /\ replied[c] \subseteq DOMAIN sent[c]

RtspInit ==
  /\ m_dialogue = [c \in Clients |-> "connecting"]
  /\ m_seq = [c \in Clients |-> 1]
  /\ m_authentication_supplied = [c \in Clients |-> FALSE]
  /\ m_unclear = [c \in Clients |-> FALSE]
  /\ replies = [c \in Clients |-> 0]
  /\ replied = [c \in Clients |-> {}]
  /\ sent = [c \in Clients |-> <<>>]

RtspForgets(c) ==
  /\ m_dialogue' = [m_dialogue EXCEPT ![c] = "connecting"]
  /\ m_seq' = [m_seq EXCEPT ![c] = 1]
  /\ m_authentication_supplied' = [m_authentication_supplied EXCEPT ![c] = FALSE]
  /\ m_unclear' = [m_unclear EXCEPT ![c] = FALSE]
  /\ replies' = [replies EXCEPT ![c] = 0]
  /\ replied' = [replied EXCEPT ![c] = {}]
  /\ sent' = [sent EXCEPT ![c] = <<>>]

-----------------------------------------------------------------------------
(* Requests *)

(* sendRequest() and the state after it, which is not reached, nor is the  *)
(* parser cleared, when send() throws.                                     *)
Requests(c, method, next, running) ==
  /\ m_seq' = [m_seq EXCEPT ![c] = @ + 1]
  /\ sent' = [sent EXCEPT ![c] = Append(@, method)]
  /\ \/ /\ GoesOn(c, running)
        /\ m_dialogue' = [m_dialogue EXCEPT ![c] = next]
        /\ UNCHANGED m_unclear
     \/ /\ peer'[c] = "closed"
        /\ DoDelete(c, running, "peer disconnected")
        /\ m_unclear' = [m_unclear EXCEPT ![c] = TRUE]
        /\ UNCHANGED m_dialogue

RtspOnConnect(c) ==
  /\ \E other \in {"up", "closed"} : HasPeer(c, other)
  /\ Requests(c, "OPTIONS", "options", AfterConnect(c))
  /\ UNCHANGED <<m_authentication_supplied, replies, replied>>

-----------------------------------------------------------------------------
(* Responses *)

AuthenticationRequired(c, item) == m_dialogue[c] = "describe" /\ item.kind = "401"

(* The checks of onResponse(). *)
Acceptable(c, item) ==
  /\ ~m_unclear[c]
  /\ IF AuthenticationRequired(c, item)
     THEN ~m_authentication_supplied[c]
     ELSE item.kind = "ok"
  /\ item.cseq = m_seq[c] - 1

(* An answer that fails a check, or one that cannot be used: credentials   *)
(* of an unknown kind, a description that cannot be parsed or saved.       *)
Refuses(c, item) ==
  /\ \/ ~Acceptable(c, item)
     \/ m_dialogue[c] = "describe"
  /\ m_unclear' = [m_unclear EXCEPT ![c] = TRUE]
  /\ DoDelete(c, timers[c], "invalid response")
  /\ UNCHANGED <<m_dialogue, m_seq, m_authentication_supplied, sent>>

Accepts(c, item) ==
  /\ Acceptable(c, item)
  /\ \/ /\ m_dialogue[c] = "options" \/ AuthenticationRequired(c, item)
        /\ Requests(c, "DESCRIBE", "describe", timers[c])
     \/ /\ m_dialogue[c] = "describe" /\ ~AuthenticationRequired(c, item)
        /\ Requests(c, "SETUP", "setup", timers[c])
     \/ /\ m_dialogue[c] = "setup"
        /\ Requests(c, "PLAY", "play", timers[c])
     \/ /\ m_dialogue[c] = "play"
        /\ GoesOn(c, timers[c])
        /\ UNCHANGED <<m_dialogue, m_seq, m_unclear, sent>>
  /\ m_authentication_supplied' =
       [m_authentication_supplied EXCEPT
          ![c] = @ \/ (AuthenticationRequired(c, item) /\ ~m_unclear'[c])]

RtspOnData(c) ==
  /\ inbox[c] # <<>>
  /\ Reads(c, 1)
  /\ Accepts(c, Head(inbox[c])) \/ Refuses(c, Head(inbox[c]))
  /\ UNCHANGED <<replies, replied>>

-----------------------------------------------------------------------------
(* The camera: an answer to any request that it has had, also once more.   *)

RtspServes(c) ==
  /\ replies[c] < MaxReplies
  /\ replies' = [replies EXCEPT ![c] = @ + 1]
  /\ \E cseq \in DOMAIN sent[c], kind \in {"ok", "401", "bad"} :
       /\ Delivers(c, [kind |-> kind, cseq |-> cseq])
       /\ replied' = [replied EXCEPT ![c] = @ \union {cseq}]
  /\ UNCHANGED <<m_dialogue, m_seq, m_authentication_supplied, m_unclear, sent>>

=============================================================================
