------------------------------ MODULE RtpServer ------------------------------
(***************************************************************************)
(* rtpserver: Gv::RtpServer, which listens to one payload type and to one  *)
(* source until that has been silent for a while, and the program's        *)
(* onImage(), which waits for a key frame before it publishes.             *)
(*                                                                         *)
(* Left out: what the AVC decoder makes of a unit (an image or none, any   *)
(* of them a key frame), scaling, and the replay of test files.            *)
(***************************************************************************)
EXTENDS RtpPacketStream

CONSTANTS
  StaleTimeout,   \* seconds of silence before another source is heard
  FrameLimit,     \* of images that wait for a key frame: 100
  PacketTypes,    \* what --type may be: zero is any
  Dropped         \* units that --filter does not keep

Sources == {p.source : p \in Packets}

ASSUME ServerAssumption ==
  /\ StaleTimeout \in Nat /\ FrameLimit \in Nat
  /\ PacketTypes \subseteq Nat /\ Dropped \subseteq Units
  /\ \A p \in Packets : p.type \in Nat /\ p.source \in Nat /\ (p.jpeg <=> p.type = 26)

VARIABLES
  running,
  m_packet_type,
  m_source_id,
  silence,          \* seconds since m_source_time, no more than are told apart
  m_frame_count,    \* no more than are told apart
  m_had_key_frame,
  image,            \* history: what the last step did with an image
  sending           \* the sources that are there

filterVars == <<m_packet_type, m_source_id, silence>>
outputVars == <<m_frame_count, m_had_key_frame, image>>
rtpVars == <<streamVars, filterVars, outputVars, running, sending>>

RtpTypeOK ==
  /\ StreamTypeOK
  /\ running \in BOOLEAN
  /\ m_packet_type \in PacketTypes \union {p.type : p \in Packets}
  /\ m_source_id \in {0} \union Sources
  /\ silence \in 0 .. StaleTimeout + 1
  /\ m_frame_count \in 0 .. FrameLimit
  /\ m_had_key_frame \in BOOLEAN
  /\ image \in {"none", "waits", "published"}
  /\ sending \subseteq Sources

RtpInit ==
  /\ StreamInit
  /\ running = TRUE /\ m_packet_type \in PacketTypes
  /\ m_source_id = 0 /\ silence = StaleTimeout + 1
  /\ m_frame_count = 0 /\ m_had_key_frame = FALSE /\ image = "none"
  /\ sending \in SUBSET Sources

-----------------------------------------------------------------------------

Video(type) == type = 26 \/ type \in 96 .. 127

(* The source is the first one, or the same, or the other was silent. *)
SourceAccepted(p) ==
  m_source_id = 0 \/ p.source = m_source_id \/ silence > StaleTimeout

TypeAccepted(p) == m_packet_type = 0 \/ p.type = m_packet_type

NoImage == image' = "none" /\ UNCHANGED <<m_frame_count, m_had_key_frame>>

(* onImage() *)
OnImage(key) ==
  LET count == IF m_frame_count < FrameLimit THEN m_frame_count + 1 ELSE FrameLimit IN
  /\ m_frame_count' = count
  /\ m_had_key_frame' = (m_had_key_frame \/ key)
  /\ image' = IF ~m_had_key_frame' /\ count < FrameLimit THEN "waits" ELSE "published"

(* processJpegPayload() and processAvcPayload(), for what was handed over. *)
Payload(p) ==
  \/ given' = <<>> /\ NoImage
  \/ given' # <<>> /\ p.jpeg /\ OnImage(TRUE)
  \/ given' # <<>> /\ ~p.jpeg /\ (NoImage \/ \E key \in BOOLEAN : OnImage(key))

NewType(p) == IF m_packet_type = 0 THEN p.type ELSE m_packet_type

\* Mutant of Ignore: what is ignored counts as a sign of life.
IgnoreAlive(p) ==
  /\ NotAdded /\ NoImage
  /\ m_packet_type' = NewType(p)
  /\ silence' = 0 /\ UNCHANGED <<running, m_source_id>>

Ignore(p) ==
  /\ NotAdded /\ NoImage
  /\ m_packet_type' = NewType(p)
  /\ UNCHANGED <<running, m_source_id, silence>>

Accept(p) ==
  /\ m_packet_type' = NewType(p)
  /\ m_source_id' = p.source
  /\ silence' = 0

(* RtpAvcPacket::valid() looks at payloadOffset(), which throws for an     *)
(* aggregation packet; nobody catches that before main().                  *)
Throws(p) == p.form = "aggregate" /\ Video(p.type)

Unwanted(p) == ~Video(p.type) \/ p.form = "invalid" \/ (~p.jpeg /\ p.unit \in Dropped)

(* processRtpData() for a valid RTP packet. *)
Receive(p) ==
  /\ running /\ p.source \in sending /\ UNCHANGED sending
  /\ \/ ~(TypeAccepted(p) /\ SourceAccepted(p)) /\ Ignore(p)
     \/ /\ TypeAccepted(p) /\ SourceAccepted(p) /\ Accept(p)
        /\ \/ Throws(p) /\ NotAdded /\ NoImage /\ running' = FALSE
           \/ ~Throws(p) /\ Unwanted(p) /\ NotAdded /\ NoImage /\ UNCHANGED running
           \/ ~Throws(p) /\ ~Unwanted(p) /\ Add(p) /\ Payload(p) /\ UNCHANGED running

(* A second goes by. *)
Tick ==
  /\ running /\ silence <= StaleTimeout /\ silence' = silence + 1
  /\ NotAdded /\ NoImage /\ UNCHANGED <<running, m_packet_type, m_source_id, sending>>

(* A camera is switched on or off. *)
Switch(s) ==
  /\ sending' = IF s \in sending THEN sending \ {s} ELSE sending \union {s}
  /\ UNCHANGED <<streamVars, filterVars, outputVars, running>>

RtpNext == (\E p \in Packets : Receive(p)) \/ Tick \/ (\E s \in Sources : Switch(s))

RtpSpec == RtpInit /\ [][RtpNext]_rtpVars

(* Time goes by, and of what a camera sends something arrives. *)
RtpFairness ==
  /\ WF_rtpVars(Tick)
  /\ \A s \in Sources : WF_rtpVars(\E p \in Packets : p.source = s /\ Receive(p))

RtpFairSpec == RtpSpec /\ RtpFairness

-----------------------------------------------------------------------------

(* What is handed over is one unit, from its first fragment to its last,   *)
(* whatever was lost, came late or came twice                              *)
(* (gvrtppacketstream.cpp:128), with these exceptions and no others.  A    *)
(* fragment is mistaken for the one that comes after when it has the same  *)
(* number and timestamp, as another camera's may, or one of 2^16 packets   *)
(* later; or when its number is zero, which follows every other.  And the  *)
(* first fragments of an AVC unit may be missing when the timestamp is     *)
(* zero, as it is when there is no unit.  The fragments of a JPEG image    *)
(* are in their places even then.                                          *)
Whole(fragments) ==
  /\ Len(fragments) = Size[fragments[1].unit]
  /\ \A i \in DOMAIN fragments :
       fragments[i].unit = fragments[1].unit /\ fragments[i].index = i

After(f, g) == g.unit = f.unit /\ g.index = f.index + 1

Mistaken(f, g) ==
  /\ ~After(f, g)
  /\ g.timestamp = f.timestamp /\ g.jpeg = f.jpeg /\ (g.jpeg => g.index = f.index + 1)
  /\ (g.seq = 0 /\ f.seq # 0) \/ \E n \in Packets : After(f, n) /\ n.seq = g.seq

Beheaded(f) == f.index # 1 /\ ~f.jpeg /\ f.timestamp = 0

Joined(fragments) ==
  /\ fragments[1].index = 1 \/ Beheaded(fragments[1])
  /\ \A i \in 2 .. Len(fragments) :
       After(fragments[i - 1], fragments[i]) \/ Mistaken(fragments[i - 1], fragments[i])
  /\ fragments[Len(fragments)].index = Size[fragments[Len(fragments)].unit]

Excused(fragments) ==
  \/ Beheaded(fragments[1])
  \/ \E i \in 2 .. Len(fragments) : Mistaken(fragments[i - 1], fragments[i])

WholeUnits ==
  RtpTypeOK /\ (given # <<>> => Joined(given) /\ (Whole(given) \/ Excused(given)))

(* A unit whose packets come one after the other is handed over, whatever  *)
(* came before it, and a JPEG image is published (gvrtppacketstream.cpp:54 *)
(* and :105, rtpserver.cpp:128).                                           *)
Complete(fragments) == fragments # <<>> /\ Len(fragments) = Size[fragments[1].unit]

Heard ==
  [][streak' # streak /\ Complete(streak') =>
       given' = streak' /\ (streak'[1].jpeg => image' = "published")]_rtpVars

(* When one camera alone goes on sending, of the type that the server has  *)
(* settled on, it becomes the source: nothing that the others have left    *)
(* behind keeps it out (gvrtpserver.cpp:177).                              *)
Alone(s) ==
  /\ running /\ sending = {s}
  /\ \E p \in Packets : p.source = s /\ TypeAccepted(p)

TakesOver == \A s \in Sources : <>[]Alone(s) => <>[](m_source_id = s)

=============================================================================
