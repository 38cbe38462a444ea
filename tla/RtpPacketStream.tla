--------------------------- MODULE RtpPacketStream ---------------------------
(***************************************************************************)
(* The reassembly of JPEG images and AVC units (NALUs) from RTP packets:   *)
(* Gv::RtpPacketStream.  The packets come over UDP: any packet that a      *)
(* camera has sent may arrive at any time, not at all, or several times.   *)
(*                                                                         *)
(* A unit is what the camera cut into packets.  A packet knows its unit    *)
(* and its place in it, which only the properties use: the code goes by    *)
(* the sequence number, the timestamp and the flags for the first and the  *)
(* last fragment.  Every fragment has the size one, so that the offset of  *)
(* a JPEG fragment is its place less one.                                  *)
(***************************************************************************)
EXTENDS Naturals, Sequences, FiniteSets

CONSTANTS
  Packets,    \* what the cameras send
  Modulus,    \* of the sequence numbers: 2^16
  MaxKept     \* bound: the fragments that are kept; the code has none

Forms == {"single", "first", "middle", "last", "aggregate", "invalid"}

Units == {p.unit : p \in Packets}
Size == [u \in Units |-> Cardinality({p \in Packets : p.unit = u})]

(* What RFC 6184 and RFC 2435 ask of a camera: the fragments of a unit     *)
(* have one timestamp and consecutive sequence numbers, the first and the  *)
(* last are marked.  No more than that: numbers and timestamps come again  *)
(* as they wrap, units may share a timestamp, and what one camera sends    *)
(* has nothing to do with what another does.                               *)
ASSUME PacketsAssumption ==
  /\ Modulus \in Nat \ {0, 1} /\ MaxKept \in Nat /\ IsFiniteSet(Packets)
  /\ \A p \in Packets :
       /\ p.form \in Forms /\ p.jpeg \in BOOLEAN
       /\ p.seq \in 0 .. Modulus - 1 /\ p.timestamp \in Nat
       /\ p.index \in 1 .. Size[p.unit]
       /\ p.form = "first" <=> p.index = 1 /\ Size[p.unit] > 1
       /\ p.form = "middle" <=> 1 < p.index /\ p.index < Size[p.unit]
       /\ p.form = "last" <=> p.index = Size[p.unit] /\ Size[p.unit] > 1
  /\ \A p, q \in Packets : p.unit = q.unit =>
       /\ p.jpeg = q.jpeg /\ p.timestamp = q.timestamp /\ p.source = q.source
       /\ p.index = q.index => p = q
       /\ q.index = p.index + 1 => q.seq = (p.seq + 1) % Modulus

VARIABLES
  m_timestamp,   \* of the unit that is being put together, or zero
  m_seq_list,    \* the sequence numbers of its fragments
  m_buffer,      \* and the fragments
  given,         \* history: the unit that the last step has handed over
  streak         \* history: the fragments that came one after the other

streamVars == <<m_timestamp, m_seq_list, m_buffer, given, streak>>

StreamInit ==
  /\ m_timestamp = 0 /\ m_seq_list = <<>> /\ m_buffer = <<>>
  /\ given = <<>> /\ streak = <<>>

StreamTypeOK ==
  /\ m_timestamp \in {0} \union {p.timestamp : p \in Packets}
  /\ m_seq_list \in Seq(0 .. Modulus - 1)
  /\ m_buffer \in Seq(Packets) /\ given \in Seq(Packets) /\ streak \in Seq(Packets)

-----------------------------------------------------------------------------

\* Mutant of Contiguous: any sequence number may follow.
AnyOrder(seqs) == TRUE

(* contiguous(): each number follows the one before; zero follows all but  *)
(* zero.                                                                   *)
Contiguous(seqs) ==
  \A i \in 2 .. Len(seqs) :
    seqs[i] = seqs[i - 1] + 1 \/ (seqs[i] = 0 /\ seqs[i - 1] # 0)

Clear == m_timestamp' = 0 /\ m_seq_list' = <<>> /\ m_buffer' = <<>>

(* commit(), and get() by the server in the same call. *)
Commit(fragments) == given' = fragments

Drop == Clear /\ given' = <<>>

Append1(p) ==
  /\ m_buffer' = Append(m_buffer, p)
  /\ m_seq_list' = Append(m_seq_list, p.seq)
  /\ UNCHANGED m_timestamp /\ given' = <<>>

\* Mutant of Begin: what is left of the unit before is kept.
BeginAfter(p) ==
  /\ m_timestamp' = p.timestamp
  /\ m_buffer' = Append(m_buffer, p) /\ m_seq_list' = Append(m_seq_list, p.seq)
  /\ given' = <<>>

Begin(p) ==
  /\ m_timestamp' = p.timestamp
  /\ m_buffer' = <<p>> /\ m_seq_list' = <<p.seq>>
  /\ given' = <<>>

(* The last fragment: all of it or nothing. *)
End(p) ==
  /\ Clear
  /\ Commit(IF Contiguous(Append(m_seq_list, p.seq)) THEN Append(m_buffer, p) ELSE <<>>)

(* add() of a JPEG packet. *)
AddJpeg(p) ==
  LET follows == p.timestamp = m_timestamp /\ p.index - 1 = Len(m_buffer) IN
  \/ /\ p.form = "single"
     /\ m_timestamp' = 0 /\ m_buffer' = <<>> /\ m_seq_list' = <<p.seq>>
     /\ Commit(<<p>>)
  \/ p.form = "first" /\ Begin(p)
  \/ p.form \in {"middle", "last"} /\ ~follows /\ Drop
  \/ p.form = "middle" /\ follows /\ Append1(p)
  \/ p.form = "last" /\ follows /\ End(p)

(* add() of an AVC packet. *)
AddAvc(p) ==
  LET follows == p.timestamp = m_timestamp IN
  \/ p.form = "single" /\ Clear /\ Commit(<<p>>)
  \/ p.form = "first" /\ Begin(p)
  \/ p.form \in {"middle", "last"} /\ ~follows /\ Drop
  \/ p.form = "middle" /\ follows /\ Len(m_buffer) < MaxKept /\ Append1(p)
  \/ p.form = "last" /\ follows /\ End(p)

(* The fragments of one unit that have come one after the other, from the  *)
(* first; a unit that is complete is not continued.                        *)
Streak(p) ==
  IF p.index = 1 THEN <<p>>
  ELSE IF streak # <<>> /\ streak[Len(streak)].unit = p.unit
                        /\ streak[Len(streak)].index + 1 = p.index
       THEN Append(streak, p)
       ELSE <<>>

Add(p) ==
  /\ streak' = Streak(p)
  /\ IF p.jpeg THEN AddJpeg(p) ELSE AddAvc(p)

NotAdded == UNCHANGED <<m_timestamp, m_seq_list, m_buffer, streak>> /\ given' = <<>>

=============================================================================
