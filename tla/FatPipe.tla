------------------------------- MODULE FatPipe -------------------------------
(***************************************************************************)
(* G::FatPipe and G::FatPipeReceiver (glib/gfatpipe.cpp), with the classes *)
(* at its two ends: Gv::ImageOutput, which pings its viewer every second   *)
(* (gvideo/gvimageoutput.cpp), and Gv::ViewerInput, which may rest for a   *)
(* while after each image (gvideo/gvviewerinput.cpp).                      *)
(*                                                                         *)
(* A one-way pipe from a parent process to a child.  The parent copies the *)
(* message into a data segment, under a semaphore in a control segment,    *)
(* and pokes the child with a datagram over a socketpair.  When a message  *)
(* does not fit the parent makes a new data segment and passes its file    *)
(* descriptor with the poke.                                               *)
(*                                                                         *)
(* Abstractions: a message is its serial number; a data segment is known   *)
(* by the order of its creation and stands for its descriptors; the two    *)
(* halves of a copy (type and payload) are separate steps so that a mixed  *)
(* message would show; all that happens once is the fork.                  *)
(***************************************************************************)
EXTENDS Integers, Sequences

CONSTANTS
  Sizes,        \* message sizes
  Backlog,      \* datagrams the socket holds (net.unix.max_dgram_qlen)
  RateLimited,  \* the viewer rests after each image
  Mortal,       \* the processes that may be killed, of {"parent", "child"}
  MaxSent       \* bound: number of messages sent

ASSUME ConstantsAssumption ==
  /\ Sizes \subseteq Nat \ {0}
  /\ Backlog \in Nat \ {0}
  /\ RateLimited \in BOOLEAN
  /\ Mortal \subseteq {"parent", "child"}
  /\ MaxSent \in Nat

VARIABLES
  \* the shared memory
  mutex,     \* who holds the semaphore: "parent", "child" or "free"
  made,      \* the number of data segments made so far: m_shmem_data is the
             \* last of them
  mem,       \* their contents: size, type, data_size and payload
  \* the socketpair
  pipe,      \* the datagrams in it: a character and a segment, zero for none
  \* the parent
  pc,        \* where it is
  newfd,     \* m_new_data_fd: the segment whose descriptor is to be passed on
  size,      \* data_total of the send() under way
  sent,      \* number of messages copied into the shared memory
  poked,     \* the last message that the child was told of
  viewerUp,  \* m_viewer_up
  \* the child
  rpc,       \* where it is
  info,      \* what flush() has found so far
  seg,       \* the segment it has mapped, zero for none
  buffer,    \* the payload copied by the receive() under way, zero for none
  got        \* the last message handed to the viewer: its type, its payload

shared == <<mutex, made, mem>>
parent == <<pc, newfd, size, sent, poked, viewerUp>>
child  == <<rpc, info, seg, buffer, got>>
vars   == <<shared, pipe, parent, child>>

ParentLocked == {"type", "payload"}
ParentPcs == ParentLocked \union {"idle", "lock", "poke", "threw", "gone", "dead"}
ChildLocked == {"copy", "finish"}
ChildPcs == ChildLocked \union {"waiting", "flush", "lock", "resting", "closed",
                                "dead"}

ChildThere == rpc \notin {"closed", "dead"}

NoInfo == [data |-> FALSE, eof |-> FALSE, fd |-> 0]

(* A new data segment, with room for half as much again. *)
NewSegment(n) == [size |-> n + n \div 2, type |-> 0, len |-> 0, body |-> 0]

Poke(c, fd) == pipe' = Append(pipe, [c |-> c, fd |-> fd])

(* What the parent leaves for the child when it goes: an "x", if there is  *)
(* room for it.  The kernel tells a datagram socket nothing else.          *)
SayGoodbye ==
  pipe' = IF Len(pipe) < Backlog /\ ChildThere
          THEN Append(pipe, [c |-> "x", fd |-> 0]) ELSE pipe

Segments == 0 .. MaxSent

TypeOK ==
  /\ mutex \in {"parent", "child", "free"}
  /\ made \in Segments
  /\ mem \in [1 .. MaxSent -> [size : Nat, type : Nat, len : Nat, body : Nat]]
  /\ pipe \in Seq([c : {".", "p", "x"}, fd : Segments]) /\ Len(pipe) <= Backlog
  /\ pc \in ParentPcs /\ newfd \in Segments /\ size \in Nat
  /\ sent \in 0 .. MaxSent /\ poked \in 0 .. MaxSent /\ viewerUp \in BOOLEAN
  /\ rpc \in ChildPcs /\ seg \in Segments /\ buffer \in 0 .. MaxSent
  /\ info \in [data : BOOLEAN, eof : BOOLEAN, fd : Segments]
  /\ got \in [type : 0 .. MaxSent, body : 0 .. MaxSent]

Init ==
  /\ mutex = "free" /\ pipe = <<>>
  /\ made = 0 /\ mem = [g \in 1 .. MaxSent |-> NewSegment(0)]
  /\ pc = "idle" /\ newfd = 0 /\ size = 0 /\ sent = 0 /\ poked = 0
  /\ viewerUp = FALSE
  /\ rpc = "waiting" /\ info = NoInfo /\ seg = 0 /\ buffer = 0
  /\ got = [type |-> 0, body |-> 0]

-----------------------------------------------------------------------------
(* FatPipe::send() *)

(* Make a new data segment if there is none, or if it is too small. *)
StartSend(n) ==
  /\ pc = "idle" /\ sent < MaxSent
  /\ size' = n
  /\ IF made = 0 \/ n > mem[made].size
     THEN /\ made' = made + 1 /\ newfd' = made + 1
          /\ mem' = [mem EXCEPT ![made + 1] = NewSegment(n)]
     ELSE UNCHANGED <<made, mem, newfd>>
  /\ pc' = "lock"
  /\ UNCHANGED <<mutex, pipe, sent, poked, viewerUp, child>>

\* Mutant of LockToSend: the semaphore is not waited for.
LockToSendAtOnce ==
  /\ pc = "lock"
  /\ mutex' = "parent" /\ pc' = "type"
  /\ UNCHANGED <<made, mem, pipe, newfd, size, sent, poked, viewerUp, child>>

LockToSend ==
  /\ pc = "lock" /\ mutex = "free"
  /\ mutex' = "parent" /\ pc' = "type"
  /\ UNCHANGED <<made, mem, pipe, newfd, size, sent, poked, viewerUp, child>>

WriteType ==
  /\ pc = "type"
  /\ mem' = [mem EXCEPT ![made].type = sent + 1]
  /\ pc' = "payload"
  /\ UNCHANGED <<mutex, made, pipe, newfd, size, sent, poked, viewerUp, child>>

WritePayload ==
  /\ pc = "payload"
  /\ mem' = [mem EXCEPT ![made].body = sent + 1, ![made].len = size]
  /\ sent' = sent + 1
  /\ mutex' = "free" /\ pc' = "poke"
  /\ UNCHANGED <<made, pipe, newfd, size, poked, viewerUp, child>>

(* The poke waits for room in the socket only if it has a descriptor to    *)
(* pass.                                                                   *)
PokeChild ==
  /\ pc = "poke" /\ ChildThere /\ Len(pipe) < Backlog
  /\ Poke(".", newfd)
  /\ poked' = sent /\ newfd' = 0 /\ pc' = "idle"
  /\ UNCHANGED <<shared, size, sent, viewerUp, child>>

PokeFails ==
  /\ pc = "poke"
  /\ ~ChildThere \/ (newfd = 0 /\ Len(pipe) = Backlog)
  /\ pc' = "threw"
  /\ UNCHANGED <<shared, pipe, newfd, size, sent, poked, viewerUp, child>>

(* ImageOutput::onPingTimeout(): a ping that does not get through means    *)
(* that the viewer has gone, if one ever did get through.                  *)
Ping ==
  /\ pc = "idle"
  /\ \/ /\ ChildThere /\ Len(pipe) < Backlog
        /\ Poke("p", 0)
        /\ viewerUp' = TRUE
        /\ UNCHANGED pc
     \/ /\ ~ChildThere \/ Len(pipe) = Backlog
        /\ pc' = IF viewerUp THEN "threw" ELSE pc
        /\ UNCHANGED <<pipe, viewerUp>>
  /\ UNCHANGED <<shared, newfd, size, sent, poked, child>>

(* The destructor. *)
Exit ==
  /\ pc \in {"idle", "threw"}
  /\ SayGoodbye
  /\ pc' = "gone"
  /\ UNCHANGED <<shared, newfd, size, sent, poked, viewerUp, child>>

KillParent ==
  /\ "parent" \in Mortal /\ pc \notin {"gone", "dead"}
  /\ pc' = "dead"
  /\ UNCHANGED <<shared, pipe, newfd, size, sent, poked, viewerUp, child>>

(* The signal handler, wherever the thread is. *)
SignalParent ==
  /\ "parent" \in Mortal /\ pc \notin {"gone", "dead"}
  /\ SayGoodbye
  /\ pc' = "gone"
  /\ UNCHANGED <<shared, newfd, size, sent, poked, viewerUp, child>>

-----------------------------------------------------------------------------
(* FatPipeReceiver::receive(), called when the pipe is readable *)

StartReceive ==
  /\ rpc = "waiting" /\ pipe # <<>>
  /\ rpc' = "flush" /\ info' = NoInfo /\ buffer' = 0
  /\ UNCHANGED <<shared, pipe, parent, seg, got>>

\* Mutant of Note: the first descriptor wins.
NoteFirstFd(d) ==
  [data |-> info.data \/ d.c = ".", eof |-> info.eof \/ d.c = "x",
   fd |-> IF info.fd # 0 THEN info.fd ELSE d.fd]

Note(d) ==
  [data |-> info.data \/ d.c = ".", eof |-> info.eof \/ d.c = "x",
   fd |-> IF d.fd # 0 THEN d.fd ELSE info.fd]

FlushOne ==
  /\ rpc = "flush" /\ pipe # <<>>
  /\ info' = Note(Head(pipe)) /\ pipe' = Tail(pipe)
  /\ UNCHANGED <<shared, parent, rpc, seg, buffer, got>>

(* Nothing more to read.  An end-of-file, or data in a segment that was    *)
(* never received, make receive() return false, which ends the viewer.     *)
FlushDone ==
  /\ rpc = "flush" /\ pipe = <<>>
  /\ IF info.eof \/ (seg = 0 /\ info.data /\ info.fd = 0)
     THEN rpc' = "closed" /\ UNCHANGED seg
     ELSE /\ rpc' = IF info.data THEN "lock" ELSE "waiting"
          /\ seg' = IF info.fd # 0 THEN info.fd ELSE seg
  /\ UNCHANGED <<shared, pipe, parent, info, buffer, got>>

LockToCopy ==
  /\ rpc = "lock" /\ mutex = "free"
  /\ mutex' = "child" /\ rpc' = "copy"
  /\ UNCHANGED <<made, mem, pipe, parent, info, seg, buffer, got>>

CopyPayload ==
  /\ rpc = "copy"
  /\ buffer' = IF mem[seg].len # 0 THEN mem[seg].body ELSE 0
  /\ rpc' = "finish"
  /\ UNCHANGED <<shared, pipe, parent, info, seg, got>>

\* Mutants of CopyType: the segment is not marked as read; an early return
\* for an empty buffer keeps the semaphore.
CopyTypeKeepingLock ==
  /\ rpc = "finish"
  /\ mem' = [mem EXCEPT ![seg].len = 0]
  /\ IF buffer # 0
     THEN /\ got' = [type |-> mem[seg].type, body |-> buffer]
          /\ rpc' = IF RateLimited THEN "resting" ELSE "waiting"
          /\ mutex' = "free"
     ELSE UNCHANGED <<got, mutex>> /\ rpc' = "waiting"
  /\ UNCHANGED <<made, pipe, parent, info, seg, buffer>>

CopyTypeLeavingData ==
  /\ rpc = "finish"
  /\ mutex' = "free"
  /\ IF buffer # 0
     THEN /\ got' = [type |-> mem[seg].type, body |-> buffer]
          /\ rpc' = IF RateLimited THEN "resting" ELSE "waiting"
     ELSE UNCHANGED got /\ rpc' = "waiting"
  /\ UNCHANGED <<made, mem, pipe, parent, info, seg, buffer>>

(* The type, and the mark that the data has been read.  An empty buffer is *)
(* ignored by the viewer; after an image it may drop the descriptor from   *)
(* the event loop for a while.                                             *)
CopyType ==
  /\ rpc = "finish"
  /\ mem' = [mem EXCEPT ![seg].len = 0]
  /\ mutex' = "free"
  /\ IF buffer # 0
     THEN /\ got' = [type |-> mem[seg].type, body |-> buffer]
          /\ rpc' = IF RateLimited THEN "resting" ELSE "waiting"
     ELSE UNCHANGED got /\ rpc' = "waiting"
  /\ UNCHANGED <<made, pipe, parent, info, seg, buffer>>

RateTimeout ==
  /\ rpc = "resting"
  /\ rpc' = "waiting"
  /\ UNCHANGED <<shared, pipe, parent, info, seg, buffer, got>>

KillChild ==
  /\ "child" \in Mortal /\ ChildThere
  /\ rpc' = "dead"
  /\ UNCHANGED <<shared, pipe, parent, info, seg, buffer, got>>

-----------------------------------------------------------------------------
SendStep == LockToSend \/ WriteType \/ WritePayload \/ PokeChild \/ PokeFails

ReceiveStep ==
  StartReceive \/ FlushOne \/ FlushDone \/ LockToCopy \/ CopyPayload
  \/ CopyType \/ RateTimeout

Next ==
  \/ \E n \in Sizes : StartSend(n)
  \/ SendStep \/ Ping \/ Exit \/ KillParent \/ SignalParent
  \/ ReceiveStep \/ KillChild

Spec == Init /\ [][Next]_vars

(* Both processes run, and whoever waits for the semaphore or for room in  *)
(* the socket gets it in its turn; the event loop serves a readable        *)
(* descriptor and an expired timer, and flush() reads faster than the      *)
(* pings of one a second arrive, so that it ends.  Nothing makes the       *)
(* parent send, ping or go away, but a thrown exception unwinds to the     *)
(* destructor.                                                             *)
FairSpec ==
  /\ Spec
  /\ SF_vars(SendStep) /\ WF_vars(pc = "threw" /\ Exit)
  /\ SF_vars(ReceiveStep)
  /\ []<>(rpc # "flush")

-----------------------------------------------------------------------------
(* A message is handed to the viewer whole: the type of one message is     *)
(* never combined with the payload of another, also when the parent moves  *)
(* to another segment, or is killed, between the two.                      *)
MessagesWhole == got.type = got.body

(* Why: whoever copies holds the semaphore, a message whose type and       *)
(* payload differ is never left without it, and the child copies from a    *)
(* segment that has been made.                                             *)
CopiesLocked ==
  /\ pc \in ParentLocked => mutex = "parent"
  /\ pc \in {"idle", "lock", "poke"} => mutex # "parent"
  /\ rpc \in ChildLocked => mutex = "child"

SegmentsWhole ==
  /\ \A g \in 1 .. MaxSent :
       mem[g].len # 0 /\ mem[g].type # mem[g].body => mutex = "parent" /\ g = made
  /\ pc = "payload" => mem[made].type = sent + 1

SegmentsMade ==
  /\ seg <= made /\ info.fd <= made /\ newfd <= made
  /\ \A k \in 1 .. Len(pipe) : pipe[k].fd <= made
  /\ made <= MaxSent
  /\ made <= sent \/ pc \in {"lock", "type", "payload", "gone", "dead"}
  /\ pc \in {"lock", "type", "payload"} => made \in 1 .. sent + 1 /\ sent < MaxSent
  /\ rpc \in {"lock", "copy", "finish"} => seg # 0

CopyWhole ==
  rpc = "finish" /\ buffer # 0 => mem[seg].type = buffer /\ mem[seg].body = buffer

CopyInvariant ==
  CopiesLocked /\ SegmentsWhole /\ SegmentsMade /\ CopyWhole /\ MessagesWhole

PipeInvariant == TypeOK /\ CopyInvariant

(* The viewer is never handed a message again, nor one that is older than  *)
(* what it has seen, though pokes and segments may be several to a read.   *)
MessagesInOrder ==
  [][rpc = "finish" /\ buffer # 0 /\ rpc' \in {"waiting", "resting"}
       => buffer > got.body]_vars

(* The pipe is unreliable, but not about the last message: when the parent *)
(* stops sending, the viewer is handed the last one it was told of, unless *)
(* one of the two goes away or is killed.                                  *)
LastMessageArrives ==
  \A n \in 1 .. MaxSent :
    (poked = n) ~> \/ got.body >= n \/ ~ChildThere
                   \/ pc \in {"threw", "gone", "dead"}

(* send() returns or throws, also when it has to wait for the child to     *)
(* make room for a descriptor; only a kill, which may leave the semaphore  *)
(* taken for good, excuses it.                                             *)
SendReturns ==
  (pc = "lock") ~> pc \in {"idle", "threw", "gone", "dead"} \/ ~ChildThere

-----------------------------------------------------------------------------
(* A statement of the documentation that does not hold. *)

(* receive() "returns false if the pipe breaks" (gfatpipe.h): a child      *)
(* whose parent has gone away comes to an end.                             *)
GoodbyeArrives == (pc = "gone") ~> ~ChildThere

=============================================================================
