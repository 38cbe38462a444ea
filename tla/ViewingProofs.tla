--------------------------- MODULE ViewingProofs ---------------------------
(* Theorems about images on their way from a camera to a viewer.  The fat  *)
(* pipe: a message is never mixed with another, for any sizes, any length  *)
(* of the socket's queue and any number of messages.  The camera: what a   *)
(* handler keeps does not change under it, for any number of handlers and  *)
(* of tasks.                                                               *)
EXTENDS FatPipe, Camera, SequenceTheorems, SubsequenceProofs, TLAPS

-----------------------------------------------------------------------------
(* The fat pipe *)

Datagram == [c : {".", "p", "x"}, fd : Nat]
Segment == [size : Nat, type : Nat, len : Nat, body : Nat]

(* The types the argument needs: those of the memory and of the segments'  *)
(* numbers.                                                                *)
MemoryTyped ==
  /\ made \in Nat /\ sent \in Nat /\ size \in Nat
  /\ mem \in [1 .. MaxSent -> Segment]

NumbersTyped == newfd \in Nat /\ seg \in Nat /\ info.fd \in Nat
PipeTyped == pipe \in Seq(Datagram)

PairTyped == MemoryTyped /\ NumbersTyped /\ PipeTyped

FatPipeInvariant == PairTyped /\ CopyInvariant

LEMMA FatPipeInit == Init => FatPipeInvariant
<1> SUFFICES ASSUME Init PROVE FatPipeInvariant
  OBVIOUS
<1>1. NewSegment(0) = [size |-> 0, type |-> 0, len |-> 0, body |-> 0]
  BY DEF NewSegment
<1>2. MemoryTyped
  BY <1>1, ConstantsAssumption DEF Init, MemoryTyped, Segment
<1>3. NumbersTyped /\ PipeTyped
  BY DEF Init, NumbersTyped, PipeTyped, NoInfo
<1>4. SegmentsWhole
  BY <1>1 DEF Init, SegmentsWhole
<1>5. CopiesLocked /\ CopyWhole /\ MessagesWhole
  BY DEF Init, CopiesLocked, CopyWhole, MessagesWhole, ParentLocked,
         ChildLocked
<1>6. SegmentsMade
  <2>1. info.fd = 0 /\ Len(pipe) = 0
    BY DEF Init, NoInfo
  <2> QED  BY <2>1, ConstantsAssumption DEF Init, SegmentsMade
<1> QED
  BY <1>2, <1>3, <1>4, <1>5, <1>6 DEF FatPipeInvariant, PairTyped, CopyInvariant

(* What is put into the pipe and taken out of it keeps its type and names  *)
(* segments that have been made.                                           *)
LEMMA PipeAppended ==
  ASSUME PipeTyped, NEW d \in Datagram, NEW m \in Nat, d.fd <= m,
         \A k \in 1 .. Len(pipe) : pipe[k].fd <= m, pipe' = Append(pipe, d)
  PROVE  PipeTyped' /\ \A k \in 1 .. Len(pipe') : pipe'[k].fd <= m
<1>1. pipe' \in Seq(Datagram) /\ Len(pipe') = Len(pipe) + 1
  BY DEF PipeTyped
<1>2. ASSUME NEW k \in 1 .. Len(pipe') PROVE pipe'[k].fd <= m
  BY <1>1, <1>2 DEF PipeTyped
<1> QED  BY <1>1, <1>2 DEF PipeTyped

LEMMA PipeShortened ==
  ASSUME PipeTyped, pipe # <<>>, NEW m \in Nat,
         \A k \in 1 .. Len(pipe) : pipe[k].fd <= m, pipe' = Tail(pipe)
  PROVE  /\ PipeTyped' /\ \A k \in 1 .. Len(pipe') : pipe'[k].fd <= m
         /\ Head(pipe) \in Datagram /\ Head(pipe).fd <= m
<1>1. pipe' \in Seq(Datagram) /\ Len(pipe') = Len(pipe) - 1 /\ Len(pipe) \in Nat \ {0}
      /\ Head(pipe) = pipe[1] /\ Head(pipe) \in Datagram
  BY DEF PipeTyped
<1>2. ASSUME NEW k \in 1 .. Len(pipe') PROVE pipe'[k].fd <= m
  <2>1. pipe'[k] = pipe[k + 1] /\ k + 1 \in 1 .. Len(pipe)
    BY <1>1, <1>2 DEF PipeTyped
  <2> QED  BY <2>1
<1>3. 1 \in 1 .. Len(pipe)
  BY <1>1
<1> QED  BY <1>1, <1>2, <1>3 DEF PipeTyped

LEMMA DescriptorsNat ==
  ASSUME PipeTyped, NEW k \in 1 .. Len(pipe)
  PROVE  pipe[k] \in Datagram /\ pipe[k].fd \in Nat
<1>1. pipe[k] \in Datagram
  BY DEF PipeTyped
<1> QED  BY <1>1 DEF Datagram

LEMMA AppendAt ==
  ASSUME PipeTyped, NEW d \in Datagram, pipe' = Append(pipe, d)
  PROVE  /\ Len(pipe) \in Nat /\ Len(pipe') = Len(pipe) + 1
         /\ pipe'[Len(pipe) + 1] = d
         /\ \A k \in 1 .. Len(pipe) : pipe'[k] = pipe[k]
BY DEF PipeTyped

LEMMA TailAt ==
  ASSUME PipeTyped, pipe # <<>>, pipe' = Tail(pipe)
  PROVE  /\ Len(pipe) \in Nat \ {0} /\ Len(pipe') = Len(pipe) - 1
         /\ Head(pipe) = pipe[1]
         /\ \A k \in 1 .. Len(pipe') :
              pipe'[k] = pipe[k + 1] /\ k + 1 \in 1 .. Len(pipe)
BY DEF PipeTyped

-----------------------------------------------------------------------------
(* The parent's steps. *)

LEMMA SendKeeps ==
  ASSUME FatPipeInvariant, NEW n \in Sizes, StartSend(n)
  PROVE  FatPipeInvariant'
<1> USE DEF FatPipeInvariant, PairTyped, CopyInvariant
<1>0. n \in Nat /\ MaxSent \in Nat
  BY ConstantsAssumption
<1>1. CASE UNCHANGED <<made, mem, newfd>>
  BY <1>0, <1>1 DEF StartSend, child, MemoryTyped, NumbersTyped, PipeTyped,
     CopiesLocked, SegmentsWhole, SegmentsMade, CopyWhole, MessagesWhole,
     ParentLocked
<1>2. CASE /\ made' = made + 1 /\ newfd' = made + 1
           /\ mem' = [mem EXCEPT ![made + 1] = NewSegment(n)]
  <2>1. NewSegment(n) \in Segment /\ NewSegment(n).len = 0
    BY <1>0 DEF NewSegment, Segment
  <2>2. made <= sent /\ sent < MaxSent /\ pc' = "lock" /\ pc = "idle"
        /\ UNCHANGED <<mutex, pipe, sent, child>> /\ size' = n
    BY DEF StartSend, SegmentsMade
  <2>3. MemoryTyped' /\ NumbersTyped' /\ PipeTyped'
    BY <1>0, <1>2, <2>1, <2>2 DEF MemoryTyped, NumbersTyped, PipeTyped, child
  <2>4. SegmentsWhole'
    <3>1. mutex # "parent"
      BY <2>2 DEF CopiesLocked
    <3> QED  BY <1>2, <2>1, <2>2, <3>1 DEF SegmentsWhole, MemoryTyped
  <2>5. SegmentsMade'
    <3>1. ASSUME NEW k \in 1 .. Len(pipe) PROVE pipe[k].fd <= made + 1
      <4>1. pipe[k] \in Datagram /\ pipe[k].fd <= made
        BY <3>1 DEF PipeTyped, SegmentsMade
      <4> QED  BY <4>1 DEF Datagram, MemoryTyped
    <3>2. /\ seg <= made + 1 /\ info.fd <= made + 1 /\ made + 1 \in 1 .. sent + 1
          /\ made + 1 <= MaxSent
      BY <1>0, <2>2 DEF SegmentsMade, MemoryTyped, NumbersTyped
    <3> QED  BY <1>2, <2>2, <3>1, <3>2 DEF SegmentsMade, child
  <2>6. CopyWhole'
    BY <1>2, <2>2 DEF CopyWhole, CopiesLocked, SegmentsMade, MemoryTyped,
                      NumbersTyped, ChildLocked, child
  <2>7. CopiesLocked' /\ MessagesWhole'
    BY <2>2 DEF CopiesLocked, MessagesWhole, ParentLocked, child
  <2> QED  BY <2>3, <2>4, <2>5, <2>6, <2>7
<1> QED  BY <1>1, <1>2 DEF StartSend

LEMMA WriteKeeps ==
  ASSUME FatPipeInvariant, WriteType \/ WritePayload
  PROVE  FatPipeInvariant'
<1> USE DEF FatPipeInvariant, PairTyped, CopyInvariant
<1>0. /\ pc \in {"type", "payload"} /\ mutex = "parent" /\ rpc \notin ChildLocked
      /\ made \in 1 .. MaxSent /\ MaxSent \in Nat
      /\ UNCHANGED <<made, pipe, newfd, size, child>>
  BY ConstantsAssumption
     DEF WriteType, WritePayload, CopiesLocked, ParentLocked, ChildLocked,
         SegmentsMade, MemoryTyped
<1>1. NumbersTyped' /\ PipeTyped' /\ CopyWhole' /\ MessagesWhole'
  BY <1>0 DEF NumbersTyped, PipeTyped, CopyWhole, MessagesWhole, child, ChildLocked
<1>2. CASE WriteType
  <2>1. MemoryTyped'
    <3>1. [mem[made] EXCEPT !.type = sent + 1] \in Segment
      BY <1>0 DEF MemoryTyped, Segment
    <3> QED  BY <1>0, <1>2, <3>1 DEF WriteType, MemoryTyped
  <2>2. CopiesLocked'
    BY <1>0, <1>2 DEF WriteType, CopiesLocked, ParentLocked, child
  <2>3. SegmentsWhole'
    BY <1>0, <1>2 DEF WriteType, SegmentsWhole, MemoryTyped, Segment
  <2>4. SegmentsMade'
    BY <1>0, <1>2 DEF WriteType, SegmentsMade, child
  <2> QED  BY <1>1, <2>1, <2>2, <2>3, <2>4
<1>3. CASE WritePayload
  <2>1. MemoryTyped'
    <3>1. /\ mem' = [mem EXCEPT ![made].body = sent + 1, ![made].len = size]
          /\ mem \in [1 .. MaxSent -> Segment] /\ sent + 1 \in Nat /\ size \in Nat
      BY <1>0, <1>3 DEF WritePayload, MemoryTyped, NumbersTyped
    <3>2. mem' \in [1 .. MaxSent -> Segment]
      BY <1>0, <3>1 DEF Segment
    <3>3. sent' = sent + 1 /\ size' = size /\ made' = made
      BY <1>0, <1>3 DEF WritePayload
    <3> QED  BY <3>2, <3>3 DEF MemoryTyped
  <2>2. CopiesLocked'
    BY <1>0, <1>3 DEF WritePayload, CopiesLocked, ParentLocked, ChildLocked, child
  <2>3. SegmentsWhole'
    <3>1. /\ sent' = sent + 1 /\ pc' = "poke" /\ pc = "payload"
          /\ mem' = [mem EXCEPT ![made].body = sent + 1, ![made].len = size]
          /\ mem[made].type = sent + 1
      BY <1>3 DEF WritePayload, SegmentsWhole
    <3>2. mem'[made].type = mem'[made].body
      BY <1>0, <3>1 DEF MemoryTyped, Segment
    <3>3. ASSUME NEW g \in 1 .. MaxSent, g # made
          PROVE  mem'[g] = mem[g]
      BY <3>1, <3>3 DEF MemoryTyped
    <3> QED  BY <1>0, <3>1, <3>2, <3>3 DEF SegmentsWhole
  <2>4. SegmentsMade'
    BY <1>0, <1>3 DEF WritePayload, SegmentsMade, MemoryTyped, child
  <2> QED  BY <1>1, <2>1, <2>2, <2>3, <2>4
<1> QED  BY <1>2, <1>3

(* The parent's steps that leave the segments alone. *)
LEMMA ParentKeeps ==
  ASSUME FatPipeInvariant,
         LockToSend \/ PokeChild \/ PokeFails \/ Ping \/ Exit \/ KillParent
         \/ SignalParent
  PROVE  FatPipeInvariant'
<1> USE DEF FatPipeInvariant, PairTyped, CopyInvariant
<1>0. UNCHANGED <<made, mem, size, sent, child>> /\ newfd' \in {0, newfd}
  BY DEF LockToSend, PokeChild, PokeFails, Ping, Exit, KillParent,
         SignalParent, shared, parent
<1>1. MemoryTyped' /\ NumbersTyped' /\ CopyWhole' /\ MessagesWhole'
  BY <1>0 DEF MemoryTyped, NumbersTyped, CopyWhole, MessagesWhole, child
<1>2. CopiesLocked' /\ SegmentsWhole'
  BY <1>0 DEF LockToSend, PokeChild, PokeFails, Ping, Exit, KillParent,
              SignalParent, CopiesLocked, SegmentsWhole, ParentLocked,
              ChildLocked, child, shared
<1>3. PipeTyped' /\ \A k \in 1 .. Len(pipe') : pipe'[k].fd <= made
  <2>0. made \in Nat /\ newfd \in Nat /\ newfd <= made
        /\ \A k \in 1 .. Len(pipe) : pipe[k].fd <= made
    BY DEF MemoryTyped, NumbersTyped, SegmentsMade
  <2>1. CASE pipe' = pipe
    BY <2>0, <2>1 DEF PipeTyped
  <2>2. ASSUME NEW d \in Datagram, d.fd \in {0, newfd}, pipe' = Append(pipe, d)
        PROVE  PipeTyped' /\ \A k \in 1 .. Len(pipe') : pipe'[k].fd <= made
    BY <2>0, <2>2, PipeAppended
  <2>3. /\ [c |-> ".", fd |-> newfd] \in Datagram
        /\ [c |-> "p", fd |-> 0] \in Datagram
        /\ [c |-> "x", fd |-> 0] \in Datagram
    BY <2>0 DEF Datagram
  <2> QED
    BY <2>1, <2>2, <2>3
       DEF LockToSend, PokeChild, PokeFails, Ping, Exit, KillParent,
           SignalParent, SayGoodbye, Poke
<1>4. SegmentsMade'
  BY <1>0, <1>3
     DEF LockToSend, PokeChild, PokeFails, Ping, Exit, KillParent,
         SignalParent, SegmentsMade, MemoryTyped, NumbersTyped, child
<1> QED  BY <1>1, <1>2, <1>3, <1>4

-----------------------------------------------------------------------------
(* The child's steps. *)

LEMMA FlushKeeps ==
  ASSUME FatPipeInvariant, StartReceive \/ FlushOne \/ FlushDone
  PROVE  FatPipeInvariant'
<1> USE DEF FatPipeInvariant, PairTyped, CopyInvariant
<1>0. /\ rpc \in {"waiting", "flush"} /\ rpc' \notin {"copy", "finish"}
      /\ UNCHANGED <<mutex, made, mem, parent, got>>
  BY DEF StartReceive, FlushOne, FlushDone, shared
<1>1. MemoryTyped' /\ CopiesLocked' /\ SegmentsWhole' /\ MessagesWhole' /\ CopyWhole'
  BY <1>0 DEF MemoryTyped, CopiesLocked, SegmentsWhole, MessagesWhole,
              CopyWhole, ChildLocked, ParentLocked, parent
<1>2. CASE StartReceive
  BY <1>0, <1>1, <1>2 DEF StartReceive, NoInfo, NumbersTyped, PipeTyped,
     SegmentsMade, MemoryTyped, parent
<1>3. CASE FlushOne
  <2>1. pipe # <<>> /\ pipe' = Tail(pipe) /\ UNCHANGED <<rpc, seg>>
    BY <1>3 DEF FlushOne
  <2>2. /\ PipeTyped' /\ \A k \in 1 .. Len(pipe') : pipe'[k].fd <= made
        /\ Head(pipe) \in Datagram /\ Head(pipe).fd <= made
    BY <2>1, PipeShortened DEF SegmentsMade, MemoryTyped
  <2>3. info'.fd \in {Head(pipe).fd, info.fd}
    BY <1>3 DEF FlushOne, Note
  <2>4. Head(pipe).fd \in Nat
    BY <2>2 DEF Datagram
  <2> QED
    BY <1>0, <1>1, <2>1, <2>2, <2>3, <2>4
       DEF NumbersTyped, SegmentsMade, MemoryTyped, parent
<1>4. CASE FlushDone
  <2>1. seg' \in {seg, info.fd} /\ UNCHANGED <<pipe, info>>
    BY <1>4 DEF FlushDone
  <2>2. rpc' = "lock" => seg' # 0
    BY <1>4 DEF FlushDone
  <2> QED
    BY <1>0, <1>1, <2>1, <2>2
       DEF NumbersTyped, PipeTyped, SegmentsMade, MemoryTyped, parent
<1> QED  BY <1>2, <1>3, <1>4

LEMMA CopyKeeps ==
  ASSUME FatPipeInvariant,
         LockToCopy \/ CopyPayload \/ CopyType \/ RateTimeout \/ KillChild
  PROVE  FatPipeInvariant'
<1> USE DEF FatPipeInvariant, PairTyped, CopyInvariant
<1>0. UNCHANGED <<made, pipe, parent, info, seg>>
  BY DEF LockToCopy, CopyPayload, CopyType, RateTimeout, KillChild, shared
<1>1. NumbersTyped' /\ PipeTyped'
  BY <1>0 DEF NumbersTyped, PipeTyped, parent
<1>2. SegmentsMade'
  BY <1>0 DEF LockToCopy, CopyPayload, CopyType, RateTimeout, KillChild,
              SegmentsMade, parent
<1>3. CASE LockToCopy \/ RateTimeout \/ KillChild
  BY <1>0, <1>1, <1>2, <1>3
     DEF LockToCopy, RateTimeout, KillChild, MemoryTyped, CopiesLocked,
         SegmentsWhole, CopyWhole, MessagesWhole, ParentLocked, ChildLocked,
         shared, parent
<1>4. CASE CopyPayload
  <2>1. /\ rpc = "copy" /\ rpc' = "finish" /\ UNCHANGED <<mutex, mem, got>>
        /\ buffer' = IF mem[seg].len # 0 THEN mem[seg].body ELSE 0
    BY <1>4 DEF CopyPayload, shared
  <2>2. mutex = "child" /\ seg \in 1 .. MaxSent
    BY <2>1, ConstantsAssumption
       DEF CopiesLocked, ChildLocked, SegmentsMade, MemoryTyped, NumbersTyped
  <2>3. CopyWhole'
    BY <1>0, <2>1, <2>2 DEF CopyWhole, SegmentsWhole
  <2> QED
    BY <1>0, <1>1, <1>2, <2>1, <2>2, <2>3
       DEF MemoryTyped, CopiesLocked, SegmentsWhole, MessagesWhole,
           ChildLocked, ParentLocked, parent
<1>5. CASE CopyType
  <2>1. /\ rpc = "finish" /\ rpc' \in {"resting", "waiting"} /\ mutex' = "free"
        /\ mem' = [mem EXCEPT ![seg].len = 0]
        /\ got' = got \/ (buffer # 0 /\ got' = [type |-> mem[seg].type, body |-> buffer])
    BY <1>5 DEF CopyType
  <2>2. mutex = "child" /\ seg \in 1 .. MaxSent
    BY <2>1, ConstantsAssumption
       DEF CopiesLocked, ChildLocked, SegmentsMade, MemoryTyped, NumbersTyped
  <2>3. MemoryTyped'
    BY <1>0, <2>1, <2>2 DEF MemoryTyped, Segment, parent
  <2>4. MessagesWhole' /\ CopyWhole'
    BY <2>1 DEF MessagesWhole, CopyWhole
  <2>5. SegmentsWhole'
    BY <1>0, <2>1, <2>2 DEF SegmentsWhole, CopiesLocked, ParentLocked,
                            MemoryTyped, Segment, parent
  <2>6. CopiesLocked'
    BY <1>0, <2>1, <2>2 DEF CopiesLocked, ChildLocked, ParentLocked, parent
  <2> QED  BY <1>1, <1>2, <2>3, <2>4, <2>5, <2>6
<1> QED  BY <1>3, <1>4, <1>5

(* A message that is copied is whole, through every growth of the segment, *)
(* kill and signal.                                                        *)
LEMMA CopiedWhole == Spec => []FatPipeInvariant
<1>1. FatPipeInvariant /\ [Next]_vars => FatPipeInvariant'
  <2> SUFFICES ASSUME FatPipeInvariant, [Next]_vars PROVE FatPipeInvariant'
    OBVIOUS
  <2>1. CASE Next
    BY <2>1, SendKeeps, WriteKeeps, ParentKeeps, FlushKeeps, CopyKeeps
       DEF Next, SendStep, ReceiveStep
  <2>2. CASE UNCHANGED vars
    BY <2>2 DEF vars, shared, parent, child, FatPipeInvariant, PairTyped,
       MemoryTyped, NumbersTyped, PipeTyped, CopyInvariant, CopiesLocked,
       SegmentsWhole, SegmentsMade, CopyWhole, MessagesWhole
  <2> QED  BY <2>1, <2>2
<1> QED  BY <1>1, FatPipeInit, PTL DEF Spec

-----------------------------------------------------------------------------
(* The order of the messages.  Later segments hold later messages, later   *)
(* datagrams pass later segments, and what is unread where the child looks *)
(* is later than what the viewer has been handed.                          *)

SegmentsRise ==
  /\ \A g \in 1 .. MaxSent : mem[g].body <= sent /\ (mem[g].len # 0 => g <= made)
  /\ \A g, h \in 1 .. MaxSent : g < h /\ mem[h].len # 0 => mem[g].body < mem[h].body

DescriptorsRise ==
  /\ newfd # 0 => seg <= newfd /\ info.fd <= newfd
  /\ rpc = "flush" /\ info.fd # 0 => seg <= info.fd
  /\ \A k \in 1 .. Len(pipe) :
       /\ pipe[k].fd # 0 => seg <= pipe[k].fd /\ info.fd <= pipe[k].fd
       /\ newfd # 0 => pipe[k].fd <= newfd
       /\ \A j \in 1 .. k - 1 : pipe[k].fd # 0 => pipe[j].fd <= pipe[k].fd

NewsAhead ==
  /\ \A g \in 1 .. MaxSent : seg <= g /\ mem[g].len # 0 => got.body < mem[g].body
  /\ rpc = "finish" /\ buffer # 0 => mem[seg].len # 0

CountsBounded ==
  /\ buffer \in Nat /\ got \in [type : Nat, body : Nat] /\ poked \in Nat
  /\ buffer <= sent /\ got.body <= sent /\ poked <= sent /\ sent <= MaxSent

OrderInvariant ==
  SegmentsRise /\ DescriptorsRise /\ NewsAhead /\ CountsBounded

LEMMA OrderInit == Init => OrderInvariant
<1> SUFFICES ASSUME Init PROVE OrderInvariant
  OBVIOUS
<1>1. \A g \in 1 .. MaxSent : mem[g].len = 0 /\ mem[g].body = 0
  BY DEF Init, NewSegment
<1>2. info.fd = 0 /\ Len(pipe) = 0
  BY DEF Init, NoInfo
<1>3. SegmentsRise /\ NewsAhead /\ CountsBounded
  BY <1>1, ConstantsAssumption DEF Init, SegmentsRise, NewsAhead, CountsBounded
<1> QED  BY <1>2, <1>3 DEF Init, OrderInvariant, DescriptorsRise

LEMMA OrderStartSend ==
  ASSUME FatPipeInvariant, OrderInvariant, NEW n \in Sizes, StartSend(n)
  PROVE  OrderInvariant'
<1> USE DEF FatPipeInvariant, PairTyped, CopyInvariant, OrderInvariant
<1>0. /\ n \in Nat /\ MaxSent \in Nat /\ made \in Nat /\ sent \in Nat
      /\ seg \in Nat /\ info.fd \in Nat /\ newfd \in Nat
      /\ mem \in [1 .. MaxSent -> Segment]
      /\ UNCHANGED <<pipe, sent, poked, rpc, info, seg, buffer, got>>
      /\ rpc = "finish" => seg \in Nat \ {0} /\ seg <= made
  BY ConstantsAssumption
     DEF MemoryTyped, NumbersTyped, StartSend, child, SegmentsMade
<1>1. CountsBounded'
  BY <1>0 DEF CountsBounded
<1>2. CASE UNCHANGED <<made, mem, newfd>>
  BY <1>0, <1>1, <1>2 DEF SegmentsRise, DescriptorsRise, NewsAhead
<1>3. CASE /\ made' = made + 1 /\ newfd' = made + 1
           /\ mem' = [mem EXCEPT ![made + 1] = NewSegment(n)]
  <2>1. NewSegment(n).len = 0 /\ NewSegment(n).body = 0
    BY DEF NewSegment
  <2>2. \A g \in 1 .. MaxSent :
          /\ g # made + 1 => mem'[g] = mem[g]
          /\ mem'[g].len # 0 => mem'[g] = mem[g] /\ g # made + 1
          /\ mem'[g].body <= sent
    BY <1>0, <1>3, <2>1 DEF SegmentsRise
  <2>3. \A g \in 1 .. MaxSent : mem[g].body \in Nat /\ mem'[g].body \in Nat
                               /\ mem'[g].body <= mem[g].body
    <3>1. ASSUME NEW g \in 1 .. MaxSent
          PROVE  mem[g].body \in Nat
      BY <1>0 DEF Segment
    <3>2. made + 1 \in 1 .. MaxSent => mem'[made + 1].body = 0
      BY <1>0, <1>3, <2>1
    <3> QED  BY <1>0, <2>2, <3>1, <3>2
  <2>4. SegmentsRise'
    BY <1>0, <1>3, <2>2, <2>3 DEF SegmentsRise
  <2>5. NewsAhead'
    BY <1>0, <1>3, <2>2 DEF NewsAhead
  <2>6. DescriptorsRise'
    <3>1. \A k \in 1 .. Len(pipe) : pipe[k].fd \in Nat /\ pipe[k].fd <= made
      BY DescriptorsNat DEF SegmentsMade
    <3>2. seg <= made /\ info.fd <= made
      BY DEF SegmentsMade
    <3> QED  BY <1>0, <1>3, <3>1, <3>2 DEF DescriptorsRise
  <2> QED  BY <1>1, <2>4, <2>5, <2>6
<1> QED  BY <1>2, <1>3 DEF StartSend

LEMMA OrderWrite ==
  ASSUME FatPipeInvariant, OrderInvariant, WriteType \/ WritePayload
  PROVE  OrderInvariant'
<1> USE DEF FatPipeInvariant, PairTyped, CopyInvariant, OrderInvariant
<1>0. /\ MaxSent \in Nat /\ made \in 1 .. MaxSent /\ sent \in Nat /\ size \in Nat
      /\ sent < MaxSent /\ seg \in Nat /\ rpc # "finish"
      /\ mem \in [1 .. MaxSent -> Segment]
      /\ UNCHANGED <<made, newfd, pipe, poked, rpc, info, seg, buffer, got>>
  BY ConstantsAssumption
     DEF MemoryTyped, NumbersTyped, WriteType, WritePayload, child,
         SegmentsMade, CopiesLocked, ParentLocked, ChildLocked
<1>1. DescriptorsRise'
  BY <1>0 DEF DescriptorsRise
<1>2. CASE WriteType
  <2>1. /\ sent' = sent
        /\ \A g \in 1 .. MaxSent :
             mem'[g].len = mem[g].len /\ mem'[g].body = mem[g].body
    BY <1>0, <1>2 DEF WriteType, Segment
  <2> QED  BY <1>0, <1>1, <2>1 DEF SegmentsRise, NewsAhead, CountsBounded
<1>3. CASE WritePayload
  <2>1. /\ sent' = sent + 1 /\ mem'[made].body = sent + 1
        /\ \A g \in 1 .. MaxSent : g # made => mem'[g] = mem[g]
    BY <1>0, <1>3 DEF WritePayload, Segment
  <2>2. \A g \in 1 .. MaxSent : mem[g].body \in Nat /\ mem[g].len \in Nat
    BY <1>0 DEF Segment
  <2>3. CountsBounded'
    BY <1>0, <2>1 DEF CountsBounded
  <2>4. SegmentsRise'
    BY <1>0, <2>1, <2>2, SMTT(30) DEF SegmentsRise
  <2>5. NewsAhead'
    BY <1>0, <2>1, <2>2 DEF NewsAhead, CountsBounded
  <2> QED  BY <1>1, <2>3, <2>4, <2>5
<1> QED  BY <1>2, <1>3

(* A datagram with the latest descriptor, or none, is put at the end. *)
LEMMA OrderPoked ==
  ASSUME FatPipeInvariant, DescriptorsRise, NEW d \in Datagram,
         d.fd \in {0, newfd}, pipe' = Append(pipe, d),
         (newfd' = newfd /\ d.fd = 0) \/ newfd' = 0,
         UNCHANGED <<rpc, info, seg>>
  PROVE  DescriptorsRise'
<1>0. /\ newfd \in Nat /\ seg \in Nat /\ info.fd \in Nat /\ pipe \in Seq(Datagram)
  BY DEF FatPipeInvariant, PairTyped, NumbersTyped, PipeTyped
<1>1. /\ Len(pipe') = Len(pipe) + 1 /\ Len(pipe) \in Nat
      /\ pipe'[Len(pipe) + 1] = d
      /\ \A k \in 1 .. Len(pipe) : pipe'[k] = pipe[k] /\ pipe[k].fd \in Nat
  BY <1>0, AppendAt, DescriptorsNat DEF PipeTyped
<1>2. ASSUME NEW k \in 1 .. Len(pipe')
      PROVE  /\ pipe'[k].fd # 0 => seg <= pipe'[k].fd /\ info.fd <= pipe'[k].fd
             /\ newfd' # 0 => pipe'[k].fd <= newfd'
             /\ \A j \in 1 .. k - 1 :
                  pipe'[k].fd # 0 => pipe'[j].fd <= pipe'[k].fd
  <2>1. CASE k \in 1 .. Len(pipe)
    <3>1. /\ pipe[k].fd # 0 => seg <= pipe[k].fd /\ info.fd <= pipe[k].fd
          /\ newfd # 0 => pipe[k].fd <= newfd
          /\ \A j \in 1 .. k - 1 : pipe[k].fd # 0 => pipe[j].fd <= pipe[k].fd
      BY <2>1 DEF DescriptorsRise
    <3>2. pipe'[k] = pipe[k] /\ \A j \in 1 .. k - 1 : pipe'[j] = pipe[j]
      BY <1>1, <2>1
    <3>3. newfd' = newfd \/ newfd' = 0
      OBVIOUS
    <3> QED  BY <3>1, <3>2, <3>3
  <2>2. CASE k = Len(pipe) + 1
    <3>1. pipe'[k] = d /\ \A j \in 1 .. k - 1 : j \in 1 .. Len(pipe) /\ pipe'[j] = pipe[j]
      BY <1>1, <2>2
    <3>2. /\ newfd # 0 => seg <= newfd /\ info.fd <= newfd
          /\ newfd # 0 => \A j \in 1 .. Len(pipe) : pipe[j].fd <= newfd
      BY DEF DescriptorsRise
    <3>3. CASE d.fd = 0
      BY <1>0, <3>1, <3>3
    <3>4. CASE d.fd # 0
      <4>1. d.fd = newfd /\ newfd # 0 /\ newfd' = 0 /\ UNCHANGED <<seg, info>>
        BY <3>4
      <4> QED  BY <3>1, <3>2, <4>1
    <3> QED  BY <3>3, <3>4
  <2>3. k \in 1 .. Len(pipe) \/ k = Len(pipe) + 1
    BY <1>1
  <2> QED  BY <2>1, <2>2, <2>3
<1> QED  BY <1>0, <1>2 DEF DescriptorsRise

LEMMA OrderParent ==
  ASSUME FatPipeInvariant, OrderInvariant,
         LockToSend \/ PokeChild \/ PokeFails \/ Ping \/ Exit \/ KillParent
         \/ SignalParent
  PROVE  OrderInvariant'
<1> USE DEF OrderInvariant
<1>0. UNCHANGED <<made, mem, sent, rpc, info, seg, buffer, got>>
  BY DEF LockToSend, PokeChild, PokeFails, Ping, Exit, KillParent,
         SignalParent, shared, child
<1>1. SegmentsRise' /\ NewsAhead'
  BY <1>0 DEF SegmentsRise, NewsAhead
<1>2. CountsBounded'
  BY <1>0 DEF LockToSend, PokeChild, PokeFails, Ping, Exit, KillParent,
         SignalParent, CountsBounded, FatPipeInvariant, PairTyped, MemoryTyped
<1>3. DescriptorsRise'
  <2>1. CASE pipe' = pipe /\ newfd' = newfd
    BY <1>0, <2>1 DEF DescriptorsRise
  <2>2. ASSUME NEW d \in Datagram, d.fd \in {0, newfd}, pipe' = Append(pipe, d),
               (newfd' = newfd /\ d.fd = 0) \/ newfd' = 0
        PROVE  DescriptorsRise'
    BY <1>0, <2>2, OrderPoked
  <2>3. /\ [c |-> ".", fd |-> newfd] \in Datagram
        /\ [c |-> "p", fd |-> 0] \in Datagram
        /\ [c |-> "x", fd |-> 0] \in Datagram
    BY DEF Datagram, FatPipeInvariant, PairTyped, NumbersTyped
  <2> QED
    BY <2>1, <2>2, <2>3
       DEF LockToSend, PokeChild, PokeFails, Ping, Exit, KillParent,
           SignalParent, SayGoodbye, Poke
<1> QED  BY <1>1, <1>2, <1>3

LEMMA OrderFlush ==
  ASSUME FatPipeInvariant, OrderInvariant, StartReceive \/ FlushOne \/ FlushDone
  PROVE  OrderInvariant'
<1> USE DEF OrderInvariant
<1>0. /\ UNCHANGED <<made, mem, sent, poked, newfd, got>>
      /\ buffer' \in {0, buffer} /\ rpc' # "finish"
      /\ newfd \in Nat /\ seg \in Nat /\ info.fd \in Nat
      /\ pipe \in Seq(Datagram)
  BY DEF StartReceive, FlushOne, FlushDone, shared, parent, FatPipeInvariant,
         PairTyped, NumbersTyped, PipeTyped
<1>1. SegmentsRise'
  BY <1>0 DEF SegmentsRise
<1>2. CountsBounded'
  BY <1>0 DEF CountsBounded, FatPipeInvariant, PairTyped, MemoryTyped
<1>3. CASE StartReceive
  <2>1. info'.fd = 0 /\ UNCHANGED <<pipe, seg>>
    BY <1>3 DEF StartReceive, NoInfo
  <2>2. \A k \in 1 .. Len(pipe) : pipe[k].fd \in Nat
    BY <1>0, DescriptorsNat DEF PipeTyped
  <2>3. DescriptorsRise'
    BY <1>0, <2>1, <2>2 DEF DescriptorsRise
  <2> QED  BY <1>0, <1>1, <1>2, <2>1, <2>3 DEF NewsAhead
<1>4. CASE FlushOne
  <2>1. /\ rpc = "flush" /\ pipe # <<>> /\ pipe' = Tail(pipe) /\ UNCHANGED <<rpc, seg>>
        /\ info'.fd = IF Head(pipe).fd # 0 THEN Head(pipe).fd ELSE info.fd
    BY <1>4 DEF FlushOne, Note
  <2>2. /\ Len(pipe) \in Nat \ {0} /\ Len(pipe') = Len(pipe) - 1
        /\ Head(pipe) = pipe[1]
        /\ \A k \in 1 .. Len(pipe) : pipe[k].fd \in Nat
        /\ \A k \in 1 .. Len(pipe') : pipe'[k] = pipe[k + 1] /\ k + 1 \in 1 .. Len(pipe)
    BY <1>0, <2>1, TailAt, DescriptorsNat DEF PipeTyped
  <2>3. \A k \in 1 .. Len(pipe') :
          pipe'[k].fd # 0 => seg <= pipe'[k].fd /\ info'.fd <= pipe'[k].fd
    BY <1>0, <2>1, <2>2 DEF DescriptorsRise
  <2>4. newfd # 0 => seg <= newfd /\ info'.fd <= newfd
    BY <1>0, <2>1, <2>2 DEF DescriptorsRise
  <2>5. info'.fd # 0 => seg <= info'.fd
    BY <1>0, <2>1, <2>2 DEF DescriptorsRise
  <2>6. \A k \in 1 .. Len(pipe') :
          /\ newfd # 0 => pipe'[k].fd <= newfd
          /\ \A j \in 1 .. k - 1 : pipe'[k].fd # 0 => pipe'[j].fd <= pipe'[k].fd
    <3>1. ASSUME NEW k \in 1 .. Len(pipe')
          PROVE  newfd # 0 => pipe'[k].fd <= newfd
      BY <2>2, <3>1 DEF DescriptorsRise
    <3>2. ASSUME NEW k \in 1 .. Len(pipe'), NEW j \in 1 .. k - 1, pipe'[k].fd # 0
          PROVE  pipe'[j].fd <= pipe'[k].fd
      <4>1. /\ k + 1 \in 1 .. Len(pipe) /\ j + 1 \in 1 .. (k + 1) - 1
            /\ j \in 1 .. Len(pipe')
        BY <2>2, <3>2
      <4>2. pipe'[k] = pipe[k + 1] /\ pipe'[j] = pipe[j + 1]
        BY <2>2, <4>1
      <4> QED  BY <3>2, <4>1, <4>2 DEF DescriptorsRise
    <3> QED  BY <3>1, <3>2
  <2>7. DescriptorsRise'
    BY <1>0, <2>1, <2>3, <2>4, <2>5, <2>6 DEF DescriptorsRise
  <2> QED  BY <1>0, <1>1, <1>2, <2>1, <2>7 DEF NewsAhead
<1>5. CASE FlushDone
  <2>1. /\ rpc = "flush" /\ rpc' # "flush" /\ pipe = <<>> /\ UNCHANGED <<pipe, info>>
        /\ seg' = seg \/ (info.fd # 0 /\ seg' = info.fd)
    BY <1>5 DEF FlushDone
  <2>2. seg' \in Nat /\ seg <= seg' /\ (newfd # 0 => seg' <= newfd)
    BY <1>0, <2>1 DEF DescriptorsRise
  <2>3. DescriptorsRise'
    BY <1>0, <2>1, <2>2 DEF DescriptorsRise
  <2>4. NewsAhead'
    BY <1>0, <2>2 DEF NewsAhead
  <2> QED  BY <1>1, <1>2, <2>3, <2>4
<1> QED  BY <1>3, <1>4, <1>5

LEMMA OrderCopy ==
  ASSUME FatPipeInvariant, OrderInvariant,
         LockToCopy \/ CopyPayload \/ CopyType \/ RateTimeout \/ KillChild
  PROVE  OrderInvariant'
<1> USE DEF FatPipeInvariant, PairTyped, CopyInvariant, OrderInvariant
<1>0. /\ UNCHANGED <<made, pipe, newfd, sent, poked, info, seg>>
      /\ rpc' # "flush"
      /\ MaxSent \in Nat /\ made \in Nat /\ sent \in Nat /\ seg \in Nat
      /\ mem \in [1 .. MaxSent -> Segment]
  BY ConstantsAssumption
     DEF LockToCopy, CopyPayload, CopyType, RateTimeout, KillChild, shared,
         parent, MemoryTyped, NumbersTyped
<1>1. DescriptorsRise'
  BY <1>0 DEF DescriptorsRise
<1>2. CASE LockToCopy \/ RateTimeout \/ KillChild
  BY <1>0, <1>1, <1>2
     DEF LockToCopy, RateTimeout, KillChild, shared, SegmentsRise, NewsAhead,
         CountsBounded
<1>3. CASE CopyPayload
  <2>1. /\ seg \in 1 .. MaxSent /\ UNCHANGED <<mem, got>>
        /\ buffer' = IF mem[seg].len # 0 THEN mem[seg].body ELSE 0
    BY <1>0, <1>3 DEF CopyPayload, shared, SegmentsMade
  <2>2. mem[seg].body \in Nat /\ mem[seg].body <= sent
    BY <1>0, <2>1 DEF SegmentsRise, Segment
  <2>3. CountsBounded'
    BY <1>0, <2>1, <2>2 DEF CountsBounded
  <2> QED  BY <1>0, <1>1, <2>1, <2>3 DEF SegmentsRise, NewsAhead
<1>4. CASE CopyType
  <2>1. /\ rpc = "finish" /\ rpc' # "finish" /\ seg \in 1 .. MaxSent
        /\ buffer' = buffer /\ mem' = [mem EXCEPT ![seg].len = 0]
        /\ got' = IF buffer # 0 THEN [type |-> mem[seg].type, body |-> buffer] ELSE got
    BY <1>0, <1>4 DEF CopyType, SegmentsMade
  <2>2. /\ \A g \in 1 .. MaxSent :
             /\ mem'[g].body = mem[g].body
             /\ g # seg => mem'[g].len = mem[g].len
        /\ mem'[seg].len = 0
    BY <1>0, <2>1 DEF Segment
  <2>3. SegmentsRise'
    BY <1>0, <2>1, <2>2 DEF SegmentsRise
  <2>4. buffer # 0 => buffer = mem[seg].body /\ mem[seg].type \in Nat
    BY <1>0, <2>1 DEF CopyWhole, Segment
  <2>5. CountsBounded'
    BY <1>0, <2>1, <2>4 DEF CountsBounded
  <2>6. NewsAhead'
    <3>1. ASSUME NEW g \in 1 .. MaxSent, seg <= g, mem'[g].len # 0
          PROVE  got'.body < mem'[g].body
      <4>1. g # seg /\ seg < g /\ mem[g].len # 0
        BY <1>0, <2>2, <3>1
      <4>2. mem[seg].body < mem[g].body
        BY <2>1, <3>1, <4>1 DEF SegmentsRise
      <4>3. got.body < mem[g].body
        BY <3>1, <4>1 DEF NewsAhead
      <4> QED  BY <2>1, <2>2, <2>4, <4>2, <4>3
    <3> QED  BY <1>0, <2>1, <3>1 DEF NewsAhead
  <2> QED  BY <1>1, <2>3, <2>5, <2>6
<1> QED  BY <1>2, <1>3, <1>4

LEMMA OrderKept == Spec => []OrderInvariant
<1>1. FatPipeInvariant /\ OrderInvariant /\ [Next]_vars => OrderInvariant'
  <2> SUFFICES ASSUME FatPipeInvariant, OrderInvariant, [Next]_vars
               PROVE  OrderInvariant'
    OBVIOUS
  <2>1. CASE Next
    BY <2>1, OrderStartSend, OrderWrite, OrderParent, OrderFlush, OrderCopy
       DEF Next, SendStep, ReceiveStep
  <2>2. CASE UNCHANGED vars
    BY <2>2 DEF vars, shared, parent, child, OrderInvariant, SegmentsRise,
       DescriptorsRise, NewsAhead, CountsBounded
  <2> QED  BY <2>1, <2>2
<1> QED  BY <1>1, OrderInit, CopiedWhole, PTL DEF Spec

(* The viewer is never handed a message again, nor an older one, however   *)
(* many segments there have been and however many pokes one read takes in. *)
THEOREM NeverBack == Spec => MessagesInOrder
<1>1. FatPipeInvariant /\ OrderInvariant /\ [Next]_vars =>
        [rpc = "finish" /\ buffer # 0 /\ rpc' \in {"waiting", "resting"}
           => buffer > got.body]_vars
  <2> SUFFICES ASSUME FatPipeInvariant, OrderInvariant, rpc = "finish",
                      buffer # 0
               PROVE  buffer > got.body
    OBVIOUS
  <2>1. seg \in 1 .. MaxSent
    BY ConstantsAssumption
       DEF FatPipeInvariant, CopyInvariant, PairTyped, MemoryTyped,
           NumbersTyped, SegmentsMade
  <2>2. mem[seg].len # 0 /\ mem[seg].body = buffer
    BY DEF FatPipeInvariant, CopyInvariant, CopyWhole, OrderInvariant, NewsAhead
  <2>3. got.body < mem[seg].body
    BY <2>1, <2>2 DEF OrderInvariant, NewsAhead
  <2> QED
    BY <2>2, <2>3 DEF OrderInvariant, CountsBounded
<1> QED
  BY <1>1, CopiedWhole, OrderKept, PTL DEF Spec, MessagesInOrder

-----------------------------------------------------------------------------
(* Type correctness, with the bounds that the order of the messages gives. *)

PlacesTyped ==
  /\ mutex \in {"parent", "child", "free"}
  /\ pc \in ParentPcs /\ rpc \in ChildPcs /\ viewerUp \in BOOLEAN

InfoTyped == info \in [data : BOOLEAN, eof : BOOLEAN, fd : Nat]

LEMMA PlacesKept == PlacesTyped /\ [Next]_vars => PlacesTyped'
BY ZenonT(60) DEF PlacesTyped, Next, vars, SendStep, ReceiveStep, StartSend, LockToSend,
       WriteType, WritePayload, PokeChild, PokeFails, Ping, Exit, KillParent,
       SignalParent, StartReceive, FlushOne, FlushDone, LockToCopy,
       CopyPayload, CopyType, RateTimeout, KillChild, shared, parent, child,
       ParentPcs, ChildPcs, ParentLocked, ChildLocked

LEMMA InfoKept ==
  ASSUME FatPipeInvariant, InfoTyped, [Next]_vars
  PROVE  InfoTyped'
<1>1. CASE FlushOne
  <2>1. pipe # <<>> /\ pipe \in Seq(Datagram)
    BY <1>1 DEF FlushOne, FatPipeInvariant, PairTyped, PipeTyped
  <2>2. Head(pipe) \in Datagram
    BY <2>1
  <2>3. Head(pipe).fd \in Nat /\ info.fd \in Nat
    BY <2>2 DEF Datagram, InfoTyped
  <2>4. Note(Head(pipe)) \in [data : BOOLEAN, eof : BOOLEAN, fd : Nat]
    <3> DEFINE f == IF Head(pipe).fd # 0 THEN Head(pipe).fd ELSE info.fd
    <3>1. f \in Nat
      BY <2>3
    <3> DEFINE a == info.data \/ Head(pipe).c = "."
    <3> DEFINE b == info.eof \/ Head(pipe).c = "x"
    <3>2. a \in BOOLEAN /\ b \in BOOLEAN
      OBVIOUS
    <3>3. Note(Head(pipe)) = [data |-> a, eof |-> b, fd |-> f]
      BY DEF Note
    <3> HIDE DEF a, b, f
    <3> QED  BY <3>1, <3>2, <3>3
  <2> QED  BY <1>1, <2>4 DEF FlushOne, InfoTyped
<1>2. NoInfo \in [data : BOOLEAN, eof : BOOLEAN, fd : Nat]
  BY DEF NoInfo
<1>3. FlushOne \/ info' = info \/ info' = NoInfo
  BY DEF Next, vars, SendStep, ReceiveStep, StartSend, LockToSend,
       WriteType, WritePayload, PokeChild, PokeFails, Ping, Exit, KillParent,
       SignalParent, StartReceive, FlushDone, LockToCopy,
       CopyPayload, CopyType, RateTimeout, KillChild, child
<1> QED  BY <1>1, <1>2, <1>3 DEF InfoTyped

LEMMA PipeLength ==
  ASSUME PipeTyped, Len(pipe) <= Backlog, [Next]_vars
  PROVE  Len(pipe') <= Backlog
<1>0. Backlog \in Nat /\ pipe \in Seq(Datagram)
  BY ConstantsAssumption DEF PipeTyped
<1>1. \/ pipe' = pipe
      \/ pipe # <<>> /\ pipe' = Tail(pipe)
      \/ Len(pipe) < Backlog /\ \E d : pipe' = Append(pipe, d)
  BY DEF Next, vars, SendStep, ReceiveStep, StartSend, LockToSend,
       WriteType, WritePayload, PokeChild, PokeFails, Ping, Exit, KillParent,
       SignalParent, StartReceive, FlushOne, FlushDone, LockToCopy,
       CopyPayload, CopyType, RateTimeout, KillChild, Poke, SayGoodbye
<1>2. ASSUME NEW d, pipe' = Append(pipe, d) PROVE Len(pipe') = Len(pipe) + 1
  BY <1>0, <1>2, AppendProperties
<1>3. Len(pipe) \in Nat
  BY <1>0
<1> QED  BY <1>0, <1>1, <1>2, <1>3

(* What the parent and the child keep stays of its type: no more segments  *)
(* and descriptors than messages, no more datagrams than the socket holds; *)
(* and what is copied is whole, the semaphore being held.                  *)
THEOREM PipeCorrect == Spec => []PipeInvariant
<1> DEFINE Rest == PlacesTyped /\ InfoTyped /\ Len(pipe) <= Backlog
<1>1. Init => Rest
  <2>1. Init => PlacesTyped
    BY DEF Init, PlacesTyped, ParentPcs, ChildPcs
  <2>2. Init => InfoTyped
    BY DEF Init, InfoTyped, NoInfo
  <2>3. Init => Len(pipe) <= Backlog
    BY ConstantsAssumption DEF Init
  <2> QED  BY <2>1, <2>2, <2>3
<1>2. FatPipeInvariant /\ Rest /\ [Next]_vars => Rest'
  BY PlacesKept, InfoKept, PipeLength DEF FatPipeInvariant, PairTyped
<1>3. FatPipeInvariant /\ OrderInvariant /\ Rest => PipeInvariant
  <2> SUFFICES ASSUME FatPipeInvariant, OrderInvariant, Rest PROVE TypeOK
    BY DEF PipeInvariant, FatPipeInvariant
  <2>0. MaxSent \in Nat
    BY ConstantsAssumption
  <2>1. /\ made \in Nat /\ sent \in Nat /\ size \in Nat /\ newfd \in Nat /\ seg \in Nat
        /\ info.fd \in Nat /\ pipe \in Seq(Datagram)
        /\ mem \in [1 .. MaxSent -> Segment]
        /\ made <= MaxSent /\ seg <= made /\ info.fd <= made /\ newfd <= made
        /\ \A k \in 1 .. Len(pipe) : pipe[k].fd <= made
    BY DEF FatPipeInvariant, PairTyped, MemoryTyped, NumbersTyped, PipeTyped,
           CopyInvariant, SegmentsMade
  <2>2. made \in Segments /\ newfd \in Segments /\ seg \in Segments
        /\ info.fd \in Segments
    BY <2>0, <2>1 DEF Segments
  <2>3. sent \in 0 .. MaxSent /\ poked \in 0 .. MaxSent /\ buffer \in 0 .. MaxSent
        /\ got \in [type : 0 .. MaxSent, body : 0 .. MaxSent]
    BY <2>0, <2>1 DEF OrderInvariant, CountsBounded, FatPipeInvariant,
                      CopyInvariant, MessagesWhole
  <2>4. pipe \in Seq([c : {".", "p", "x"}, fd : Segments])
    <3>1. ASSUME NEW k \in 1 .. Len(pipe)
          PROVE  pipe[k] \in [c : {".", "p", "x"}, fd : Segments]
      <4>1. pipe[k] \in Datagram /\ pipe[k].fd \in Nat /\ pipe[k].fd <= made
        BY <2>1, DescriptorsNat DEF PipeTyped
      <4>2. pipe[k].fd \in Segments
        BY <2>0, <2>1, <4>1 DEF Segments
      <4> QED  BY <4>1, <4>2 DEF Datagram
    <3>2. pipe = [k \in 1 .. Len(pipe) |-> pipe[k]] /\ Len(pipe) \in Nat
      BY <2>1
    <3>3. pipe \in [1 .. Len(pipe) -> [c : {".", "p", "x"}, fd : Segments]]
      BY <3>1, <3>2
    <3> QED  BY <3>2, <3>3, SeqDef, ZenonT(40)
  <2>5. info \in [data : BOOLEAN, eof : BOOLEAN, fd : Segments]
    BY <2>2 DEF InfoTyped
  <2>6. mutex \in {"parent", "child", "free"} /\ pc \in ParentPcs
        /\ rpc \in ChildPcs /\ viewerUp \in BOOLEAN
    BY DEF PlacesTyped
  <2> QED
    BY <2>1, <2>2, <2>3, <2>4, <2>5, <2>6 DEF TypeOK, Segment
<1> HIDE DEF Rest
<1> QED  BY <1>1, <1>2, <1>3, CopiedWhole, OrderKept, PTL DEF Spec

-----------------------------------------------------------------------------
(* The camera: pointers to its images *)

LEMMA ImageOfFunction ==
  ASSUME NEW S, IsFiniteSet(S), NEW f, DOMAIN f = S
  PROVE  /\ IsFiniteSet({f[x] : x \in S})
         /\ Cardinality({f[x] : x \in S}) <= Cardinality(S)
<1> DEFINE T == {f[x] : x \in S}
           g == [x \in S |-> f[x]]
<1>1. g \in Surjection(S, T)
  BY DEF Surjection
<1> QED  BY <1>1, FS_Surjection

LEMMA Finite ==
  ASSUME NEW tasks \in Seq(Tasks)
  PROVE  /\ IsFiniteSet(DOMAIN tasks) /\ Cardinality(DOMAIN tasks) = Len(tasks)
         /\ IsFiniteSet(Handler) /\ Cardinality(Handler) \in Nat /\ MaxTasks \in Nat
         /\ IsFiniteSet(Buffers) /\ Cardinality(Buffers) = MaxTasks + Cardinality(Handler) + 1
<1>1. IsFiniteSet(Handler) /\ MaxTasks \in Nat
  BY BufferAssumption
<1>2. Cardinality(Handler) \in Nat
  BY <1>1, FS_CardinalityType
<1>3. DOMAIN tasks = 1 .. Len(tasks) /\ Len(tasks) \in Nat
  OBVIOUS
<1>4. IsFiniteSet(1 .. Len(tasks)) /\ Cardinality(1 .. Len(tasks)) = Len(tasks)
  BY <1>3, CountTo
<1> DEFINE n == MaxTasks + Cardinality(Handler) + 1
<1>5. n \in Nat
  BY <1>1, <1>2
<1>6. IsFiniteSet(1 .. n) /\ Cardinality(1 .. n) = n
  BY <1>5, CountTo
<1> QED  BY <1>1, <1>2, <1>3, <1>4, <1>6 DEF Buffers

(* Who points to a buffer.                                                 *)
LEMMA Uses ==
  ASSUME NEW tasks \in Seq(Tasks), NEW b
  PROVE  /\ UseCount(b, tasks) \in Nat
         /\ UseCount(b, tasks) = 0 <=> /\ m_image # b
                                       /\ \A i \in DOMAIN tasks : tasks[i].image # b
                                       /\ \A h \in Handler : held[h] # b
         /\ m_image = b =>
              (UseCount(b, tasks) = 1 <=> /\ \A i \in DOMAIN tasks : tasks[i].image # b
                                          /\ \A h \in Handler : held[h] # b)
         /\ \A i \in DOMAIN tasks : tasks[i].image = b =>
              (UseCount(b, tasks) = 1 <=>
                 /\ m_image # b /\ \A h \in Handler : held[h] # b
                 /\ \A j \in DOMAIN tasks : tasks[j].image = b => j = i)
<1> DEFINE T == {i \in DOMAIN tasks : tasks[i].image = b}
           H == {h \in Handler : held[h] = b}
           m == IF m_image = b THEN 1 ELSE 0
<1>1. /\ IsFiniteSet(T) /\ IsFiniteSet(H)
  <2>1. T \in SUBSET DOMAIN tasks /\ H \in SUBSET Handler
    OBVIOUS
  <2> QED  BY <2>1, Finite, FS_Subset
<1>2. /\ Cardinality(T) \in Nat /\ Cardinality(H) \in Nat
      /\ Cardinality(T) = 0 <=> T = {}
      /\ Cardinality(H) = 0 <=> H = {}
  BY <1>1, FS_CardinalityType, FS_EmptySet
<1>3. /\ T = {} <=> \A i \in DOMAIN tasks : tasks[i].image # b
      /\ H = {} <=> \A h \in Handler : held[h] # b
  OBVIOUS
<1>4. UseCount(b, tasks) = Cardinality(T) + Cardinality(H) + m
  BY DEF UseCount
<1>5. ASSUME NEW i \in DOMAIN tasks, tasks[i].image = b
      PROVE  Cardinality(T) = 1 <=> \A j \in DOMAIN tasks : tasks[j].image = b => j = i
  <2>1. i \in T
    BY <1>5
  <2>2. Cardinality(T) = 1 <=> T = {i}
    <3>1. Cardinality(T) = 1 => \E x : T = {x}
      BY <1>1, FS_Singleton
    <3>2. Cardinality({i}) = 1
      BY FS_Singleton
    <3> QED  BY <2>1, <3>1, <3>2
  <2> QED  BY <2>1, <2>2
<1>6. \A i \in DOMAIN tasks : tasks[i].image = b => i \in T
  OBVIOUS
<1> HIDE DEF T, H
<1>7. m \in {0, 1} /\ (m = 0 <=> m_image # b)
  OBVIOUS
<1> HIDE DEF m
<1>8. ASSUME NEW i \in DOMAIN tasks, tasks[i].image = b
      PROVE  UseCount(b, tasks) = 1 <=>
               /\ m_image # b /\ \A h \in Handler : held[h] # b
               /\ \A j \in DOMAIN tasks : tasks[j].image = b => j = i
  <2>1. Cardinality(T) # 0
    BY <1>2, <1>6, <1>8
  <2>2. UseCount(b, tasks) = 1 <=> Cardinality(T) = 1 /\ Cardinality(H) = 0 /\ m = 0
    BY <1>2, <1>4, <1>7, <2>1
  <2> QED  BY <1>2, <1>3, <1>5, <1>7, <1>8, <2>2
<1>9. /\ UseCount(b, tasks) \in Nat
      /\ UseCount(b, tasks) = 0 <=> Cardinality(T) = 0 /\ Cardinality(H) = 0 /\ m = 0
      /\ m = 1 => (UseCount(b, tasks) = 1 <=> Cardinality(T) = 0 /\ Cardinality(H) = 0)
  BY <1>2, <1>4, <1>7
<1> QED  BY <1>2, <1>3, <1>7, <1>8, <1>9

(* There is a buffer for whoever lacks one or shares his: the others are   *)
(* one less than the buffers.                                              *)
LEMMA SomeFree ==
  ASSUME NEW tasks \in Seq(Tasks), Len(tasks) <= MaxTasks, held \in [Handler -> Pointers],
         NEW p, p = m_image \/ \E i \in DOMAIN tasks : p = tasks[i].image,
         p \notin Buffers \/ UseCount(p, tasks) # 1
  PROVE  \E b \in Buffers : UseCount(b, tasks) = 0
<1> SUFFICES ASSUME \A b \in Buffers : UseCount(b, tasks) # 0 PROVE FALSE
  OBVIOUS
<1> DEFINE PH == {held[h] : h \in Handler}
           C == Cardinality(Handler)
<1>1. /\ IsFiniteSet(DOMAIN tasks) /\ Cardinality(DOMAIN tasks) = Len(tasks)
      /\ IsFiniteSet(Handler) /\ C \in Nat /\ MaxTasks \in Nat /\ Len(tasks) \in Nat
      /\ IsFiniteSet(Buffers) /\ Cardinality(Buffers) = MaxTasks + C + 1
  BY Finite
<1>2. IsFiniteSet(PH) /\ Cardinality(PH) <= C /\ Cardinality(PH) \in Nat
  <2>1. DOMAIN held = Handler
    OBVIOUS
  <2>2. IsFiniteSet(PH) /\ Cardinality(PH) <= C
    BY <1>1, <2>1, ImageOfFunction
  <2> QED  BY <2>2, FS_CardinalityType
<1>3. ASSUME NEW S, IsFiniteSet(S), NEW n \in Nat, n <= MaxTasks, Cardinality(S) <= n,
             Buffers \subseteq S \union PH
      PROVE  FALSE
  <2> HIDE DEF PH, C
  <2>1. Cardinality(S) \in Nat
    BY <1>3, FS_CardinalityType
  <2>2. /\ IsFiniteSet(S \union PH) /\ Cardinality(S \union PH) \in Nat
        /\ Cardinality(S \union PH) <= n + C
    <3>1. /\ IsFiniteSet(S \union PH)
          /\ Cardinality(S \union PH) = Cardinality(S) + Cardinality(PH) - Cardinality(S \cap PH)
      BY <1>2, <1>3, FS_Union
    <3>2. IsFiniteSet(S \cap PH)
      BY <1>3, FS_Intersection
    <3>3. Cardinality(S \cap PH) \in Nat /\ Cardinality(S \union PH) \in Nat
      BY <3>1, <3>2, FS_CardinalityType
    <3> QED  BY <1>1, <1>2, <1>3, <2>1, <3>1, <3>3
  <2>3. Cardinality(Buffers) <= Cardinality(S \union PH)
    <3>1. Buffers \in SUBSET (S \union PH)
      BY <1>3
    <3> QED  BY <2>2, <3>1, FS_Subset
  <2> QED  BY <1>1, <1>3, <2>2, <2>3
<1>4. \A b \in Buffers : \/ m_image = b \/ b \in PH
                         \/ \E i \in DOMAIN tasks : tasks[i].image = b
  <2> SUFFICES ASSUME NEW b \in Buffers, m_image # b, b \notin PH,
                      \A i \in DOMAIN tasks : tasks[i].image # b
               PROVE  FALSE
    OBVIOUS
  <2>1. \A h \in Handler : held[h] # b
    OBVIOUS
  <2> HIDE DEF PH
  <2> QED  BY <2>1, Uses
<1>5. CASE p = m_image
  <2> DEFINE f == [i \in DOMAIN tasks |-> tasks[i].image]
             PT == {f[i] : i \in DOMAIN tasks}
  <2>1. IsFiniteSet(PT) /\ Cardinality(PT) <= Len(tasks)
    <3>1. DOMAIN f = DOMAIN tasks
      OBVIOUS
    <3> HIDE DEF f
    <3> QED  BY <1>1, <3>1, ImageOfFunction
  <2>2. m_image \in Buffers => m_image \in PH \/ \E i \in DOMAIN tasks : tasks[i].image = m_image
    <3> SUFFICES ASSUME m_image \in Buffers, m_image \notin PH,
                        \A i \in DOMAIN tasks : tasks[i].image # m_image
                 PROVE  FALSE
      OBVIOUS
    <3>1. \A h \in Handler : held[h] # m_image
      OBVIOUS
    <3>2. UseCount(m_image, tasks) = 1
      BY <3>1, Uses
    <3> QED  BY <1>5, <3>2
  <2>3. Buffers \subseteq PT \union PH
    BY <1>4, <2>2
  <2> HIDE DEF PT, PH
  <2> QED  BY <1>1, <1>3, <2>1, <2>3
<1>6. CASE p # m_image
  <2>1. PICK i \in DOMAIN tasks : p = tasks[i].image
    BY <1>6
  <2> DEFINE D == DOMAIN tasks \ {i}
             f == [j \in D |-> tasks[j].image]
             PD == {f[j] : j \in D}
             PT == PD \union {m_image}
  <2>2. IsFiniteSet(D) /\ Cardinality(D) = Len(tasks) - 1
    <3> DEFINE E == DOMAIN tasks
    <3>1. IsFiniteSet(E) /\ i \in E /\ Cardinality(E) = Len(tasks) /\ D = E \ {i}
      BY <1>1
    <3> HIDE DEF E, D
    <3> QED  BY <3>1, FS_RemoveElement
  <2>3. IsFiniteSet(PD) /\ Cardinality(PD) <= Len(tasks) - 1
    <3>1. DOMAIN f = D
      OBVIOUS
    <3> HIDE DEF f, D
    <3> QED  BY <2>2, <3>1, ImageOfFunction
  <2>4. IsFiniteSet(PT) /\ Cardinality(PT) <= Len(tasks)
    <3> HIDE DEF PD
    <3>1. Cardinality(PD) \in Nat
      BY <2>3, FS_CardinalityType
    <3>2. /\ IsFiniteSet(PT)
          /\ Cardinality(PT) = IF m_image \in PD THEN Cardinality(PD) ELSE Cardinality(PD) + 1
      BY <2>3, FS_AddElement
    <3> HIDE DEF PT
    <3> QED  BY <1>1, <2>3, <3>1, <3>2
  <2>5. p \in Buffers => \/ p \in PH \/ m_image = p
                         \/ \E j \in D : tasks[j].image = p
    <3> SUFFICES ASSUME p \in Buffers, p \notin PH, m_image # p,
                        \A j \in D : tasks[j].image # p
                 PROVE  FALSE
      OBVIOUS
    <3>1. \A h \in Handler : held[h] # p
      OBVIOUS
    <3>2. \A j \in DOMAIN tasks : tasks[j].image = p => j = i
      OBVIOUS
    <3>3. UseCount(p, tasks) = 1
      BY <2>1, <3>1, <3>2, Uses
    <3> QED  BY <3>3
  <2>6. Buffers \subseteq PT \union PH
    BY <1>4, <2>1, <2>5
  <2> HIDE DEF PT, PH
  <2> QED  BY <1>1, <1>3, <2>4, <2>6
<1> QED  BY <1>5, <1>6

LEMMA NewIsFree ==
  ASSUME NEW tasks \in Seq(Tasks), \E b \in Buffers : UseCount(b, tasks) = 0
  PROVE  NewBuffer(tasks) \in Buffers /\ UseCount(NewBuffer(tasks), tasks) = 0
<1> DEFINE F == {b \in Buffers : UseCount(b, tasks) = 0}
<1>0. MaxTasks + Cardinality(Handler) + 1 \in Nat
  BY Finite
<1>1. F \subseteq Nat /\ F # {}
  BY <1>0 DEF Buffers
<1>2. PICK b \in F : \A c \in F : b <= c
  BY <1>1, NatMinimum
<1>3. b \in Buffers /\ UseCount(b, tasks) = 0
  OBVIOUS
<1>4. \A c \in 1 .. b - 1 : UseCount(c, tasks) > 0
  <2> SUFFICES ASSUME NEW c \in 1 .. b - 1 PROVE UseCount(c, tasks) > 0
    OBVIOUS
  <2>1. c \in Buffers /\ ~(b <= c)
    BY <1>0, <1>3 DEF Buffers
  <2>2. c \notin F
    BY <1>2, <2>1
  <2>3. UseCount(c, tasks) \in Nat /\ UseCount(c, tasks) # 0
    BY <2>1, <2>2, Uses
  <2> QED  BY <2>3
<1> QED  BY <1>3, <1>4 DEF NewBuffer

(* What recycle() returns is not kept by a handler.                        *)
LEMMA Recycled ==
  ASSUME NEW tasks \in Seq(Tasks), Len(tasks) <= MaxTasks, held \in [Handler -> Pointers],
         NEW p \in Pointers, p = m_image \/ \E i \in DOMAIN tasks : p = tasks[i].image
  PROVE  Recycle(p, tasks) \in Buffers /\ \A h \in Handler : held[h] # Recycle(p, tasks)
<1>1. Null \notin Buffers
  BY WantsAssumption
<1>2. CASE p # Null /\ UseCount(p, tasks) = 1
  <2>1. Recycle(p, tasks) = p /\ p \in Buffers
    BY <1>2 DEF Recycle, Pointers
  <2>2. \A h \in Handler : held[h] # p
    BY <1>2, Uses
  <2> QED  BY <2>1, <2>2
<1>3. CASE ~(p # Null /\ UseCount(p, tasks) = 1)
  <2>1. Recycle(p, tasks) = NewBuffer(tasks)
    BY <1>3 DEF Recycle
  <2>2. p \notin Buffers \/ UseCount(p, tasks) # 1
    BY <1>1, <1>3
  <2>3. NewBuffer(tasks) \in Buffers /\ UseCount(NewBuffer(tasks), tasks) = 0
    BY <2>2, SomeFree, NewIsFree
  <2>4. \A h \in Handler : held[h] # NewBuffer(tasks)
    BY <2>3, Uses
  <2> QED  BY <2>1, <2>3, <2>4
<1> QED  BY <1>2, <1>3

-----------------------------------------------------------------------------
(* The camera: conversions *)

(* What has been done so far changes nothing that a handler keeps.         *)
DoneTyped(done) ==
  /\ done = [tasks |-> done.tasks, data |-> done.data]
  /\ done.tasks \in Seq(Tasks) /\ Len(done.tasks) = Len(m_tasks)
  /\ done.data \in [Buffers -> Contents]
  /\ \A i \in 1 .. Len(m_tasks) : done.tasks[i].handler = m_tasks[i].handler

HeldKept(contents) ==
  \A h \in Handler : held[h] # Null => contents[held[h]] = data[held[h]]

LEMMA ImageSet ==
  ASSUME NEW done, DoneTyped(done), NEW i \in 1 .. Len(m_tasks), NEW p \in Pointers
  PROVE  /\ DoneTyped(WithImage(done, i, p)) /\ WithImage(done, i, p).data = done.data
<1> DEFINE new == WithImage(done, i, p)
<1>1. /\ new.tasks = [done.tasks EXCEPT ![i] = [done.tasks[i] EXCEPT !.image = p]]
      /\ new.data = done.data /\ new = [tasks |-> new.tasks, data |-> new.data]
  <2>1. PICK ts, d : done = [tasks |-> ts, data |-> d]
    BY DEF DoneTyped
  <2>2. done.tasks = ts /\ done.data = d
    BY <2>1
  <2>3. DOMAIN done = {"tasks", "data"}
    BY <2>1
  <2>4. new = [tasks |-> [ts EXCEPT ![i] = [ts[i] EXCEPT !.image = p]], data |-> d]
    BY <2>1, <2>2, <2>3 DEF WithImage
  <2> HIDE DEF new
  <2> QED  BY <2>2, <2>4
<1> HIDE DEF new
<1>2. /\ done.tasks \in Seq(Tasks) /\ DOMAIN done.tasks = 1 .. Len(m_tasks)
      /\ Len(done.tasks) = Len(m_tasks)
  BY DEF DoneTyped
<1> DEFINE t == [done.tasks[i] EXCEPT !.image = p]
<1>3. done.tasks[i] \in Tasks
  BY <1>2
<1>4. t \in Tasks /\ t.handler = done.tasks[i].handler
  BY <1>3 DEF Tasks
<1> HIDE DEF t
<1>5. new.tasks = [done.tasks EXCEPT ![i] = t]
  BY <1>1 DEF t
<1>6. new.tasks \in Seq(Tasks) /\ Len(new.tasks) = Len(m_tasks)
  BY <1>2, <1>4, <1>5
<1>7. \A j \in 1 .. Len(m_tasks) : new.tasks[j].handler = done.tasks[j].handler
  BY <1>2, <1>4, <1>5
<1>8. DoneTyped(new)
  BY <1>1, <1>6, <1>7 DEF DoneTyped
<1> QED  BY <1>1, <1>8 DEF new

LEMMA FirstLikeIn ==
  ASSUME NEW i \in Nat \ {0}
  PROVE  FirstLike(i) \in 1 .. i
<1> DEFINE F == {j \in 1 .. i : m_tasks[j].conversion = m_tasks[i].conversion}
<1>1. F \subseteq Nat /\ i \in F
  OBVIOUS
<1>2. PICK j \in F : \A k \in F : j <= k
  BY <1>1, NatMinimum
<1>3. j \in 1 .. i /\ m_tasks[j].conversion = m_tasks[i].conversion
  OBVIOUS
<1>4. \A k \in 1 .. j - 1 : m_tasks[k].conversion # m_tasks[i].conversion
  <2> SUFFICES ASSUME NEW k \in 1 .. j - 1 PROVE k \notin F
    BY <1>3
  <2>1. ~(j <= k)
    BY <1>3
  <2> QED  BY <1>2, <2>1
<1> QED  BY <1>3, <1>4 DEF FirstLike

LEMMA ConvertKeeps ==
  ASSUME BuffersTyped, m_image # Null, NEW i \in 1 .. Len(m_tasks),
         NEW done, DoneTyped(done), HeldKept(done.data)
  PROVE  DoneTyped(Convert(done, i)) /\ HeldKept(Convert(done, i).data)
<1> DEFINE p == done.tasks[i].image
           b == Recycle(p, done.tasks)
           f == FirstLike(i)
<1>1. /\ m_tasks \in Seq(Tasks) /\ Len(m_tasks) <= MaxTasks /\ held \in [Handler -> Pointers]
      /\ m_image \in Buffers /\ Len(m_tasks) \in Nat
  BY DEF BuffersTyped, Pointers
<1>2. /\ done.tasks \in Seq(Tasks) /\ Len(done.tasks) = Len(m_tasks)
      /\ \A j \in 1 .. Len(m_tasks) : done.tasks[j] \in Tasks
      /\ done.data \in [Buffers -> Contents]
      /\ done = [tasks |-> done.tasks, data |-> done.data]
  BY DEF DoneTyped
<1>3. f \in 1 .. Len(m_tasks)
  <2>1. f \in 1 .. i
    BY FirstLikeIn
  <2> QED  BY <1>1, <2>1
<1>4. p \in Pointers /\ done.tasks[f].image \in Pointers /\ Null \in Pointers
  <2> HIDE DEF f
  <2> QED  BY <1>2, <1>3 DEF Tasks, Pointers
<1>5. b \in Buffers /\ \A h \in Handler : held[h] # b
  <2>1. i \in DOMAIN done.tasks
    BY <1>2
  <2> HIDE DEF b
  <2> QED  BY <1>1, <1>2, <1>4, <2>1, Recycled DEF b
<1>6. \/ Convert(done, i) = done
      \/ Convert(done, i) = WithImage(done, i, done.tasks[f].image)
      \/ Convert(done, i) = WithImage(done, i, Null)
      \/ Convert(done, i) = WithImage([done EXCEPT !.data[b] = done.data[m_image]], i, b)
  BY DEF Convert
<1> HIDE DEF b, f, p
<1>7. CASE Convert(done, i) = done
  BY <1>7
<1>8. ASSUME NEW q \in Pointers, Convert(done, i) = WithImage(done, i, q)
      PROVE  DoneTyped(Convert(done, i)) /\ HeldKept(Convert(done, i).data)
  BY <1>8, ImageSet
<1>9. CASE Convert(done, i) = WithImage([done EXCEPT !.data[b] = done.data[m_image]], i, b)
  <2> DEFINE wrote == [done EXCEPT !.data[b] = done.data[m_image]]
  <2>1. /\ wrote = [tasks |-> wrote.tasks, data |-> wrote.data]
        /\ wrote.tasks = done.tasks /\ wrote.data = [done.data EXCEPT ![b] = done.data[m_image]]
    BY <1>2
  <2> HIDE DEF wrote
  <2>2. wrote.data \in [Buffers -> Contents]
    BY <1>1, <1>2, <1>5, <2>1
  <2>3. DoneTyped(wrote)
    BY <2>1, <2>2 DEF DoneTyped
  <2>4. HeldKept(wrote.data)
    <3> SUFFICES ASSUME NEW h \in Handler, held[h] # Null
                 PROVE  wrote.data[held[h]] = data[held[h]]
      BY DEF HeldKept
    <3>1. held[h] \in Buffers /\ held[h] # b
      BY <1>1, <1>5 DEF Pointers
    <3>2. wrote.data[held[h]] = done.data[held[h]]
      BY <1>2, <2>1, <3>1
    <3> QED  BY <3>2 DEF HeldKept
  <2>5. b \in Pointers
    BY <1>5 DEF Pointers
  <2>6. Convert(done, i) = WithImage(wrote, i, b)
    BY <1>9 DEF wrote
  <2> QED  BY <2>3, <2>4, <2>5, <2>6, ImageSet
<1> QED  BY <1>4, <1>6, <1>7, <1>8, <1>9

-----------------------------------------------------------------------------
(* The source goes through its tasks *)

(* What the recursive definition of Converted stands for.                  *)
Unconverted == [tasks |-> m_tasks, data |-> data]

Runs(g, n) == g = [i \in 0 .. n |-> IF i = 0 THEN Unconverted ELSE Convert(g[i - 1], i)]

LEMMA RunsExist ==
  ASSUME NEW N \in Nat
  PROVE  \E g : Runs(g, N)
<1> DEFINE S == {n \in 0 .. N : \E g : Runs(g, n)}
<1>1. 0 \in S
  <2> DEFINE g == [i \in 0 .. 0 |-> Unconverted]
  <2>1. Runs(g, 0)
    BY DEF Runs
  <2> QED  BY <2>1
<1>2. ASSUME NEW k \in 1 .. N, k - 1 \in S PROVE k \in S
  <2>1. PICK g : Runs(g, k - 1)
    BY <1>2
  <2> DEFINE h == [i \in 0 .. k |-> IF i = k THEN Convert(g[k - 1], k) ELSE g[i]]
  <2>2. \A i \in 0 .. k - 1 : h[i] = g[i]
    OBVIOUS
  <2>3. \A i \in 0 .. k - 1 : g[i] = IF i = 0 THEN Unconverted ELSE Convert(g[i - 1], i)
    BY <2>1 DEF Runs
  <2>4. \A i \in 0 .. k : h[i] = IF i = 0 THEN Unconverted ELSE Convert(h[i - 1], i)
    <3> SUFFICES ASSUME NEW i \in 0 .. k
                 PROVE  h[i] = IF i = 0 THEN Unconverted ELSE Convert(h[i - 1], i)
      OBVIOUS
    <3>1. CASE i = k
      <4>1. h[k] = Convert(g[k - 1], k) /\ h[k - 1] = g[k - 1] /\ k # 0
        BY <2>2
      <4> QED  BY <3>1, <4>1
    <3>2. CASE i # k
      <4>1. i \in 0 .. k - 1 /\ (i # 0 => i - 1 \in 0 .. k - 1)
        BY <3>2
      <4> HIDE DEF h
      <4>2. i # 0 => h[i - 1] = g[i - 1]
        BY <4>1, <2>2
      <4> QED  BY <2>2, <2>3, <4>1, <4>2
    <3> QED  BY <3>1, <3>2
  <2>5. Runs(h, k)
    BY <2>4 DEF Runs
  <2> QED  BY <2>5
<1>3. \A k \in 0 .. N : k \in S
  <2> HIDE DEF S
  <2> QED  BY <1>1, <1>2, UpToLast
<1> QED  BY <1>3

LEMMA ConvertedRuns ==
  ASSUME Len(m_tasks) \in Nat
  PROVE  \E g : /\ Converted = g[Len(m_tasks)] /\ g[0] = Unconverted
                /\ \A i \in 1 .. Len(m_tasks) : g[i] = Convert(g[i - 1], i)
<1> DEFINE g == CHOOSE f : Runs(f, Len(m_tasks))
<1>1. Runs(g, Len(m_tasks))
  BY RunsExist
<1>2. Converted = g[Len(m_tasks)]
  BY DEF Converted, Runs, Unconverted
<1>3. g[0] = Unconverted /\ \A i \in 1 .. Len(m_tasks) : g[i] = Convert(g[i - 1], i)
  <2> HIDE DEF g
  <2>1. \A i \in 0 .. Len(m_tasks) : g[i] = IF i = 0 THEN Unconverted ELSE Convert(g[i - 1], i)
    BY <1>1 DEF Runs
  <2> QED  BY <2>1
<1> QED  BY <1>2, <1>3

LEMMA ConvertedKeeps ==
  ASSUME BuffersTyped, m_image # Null
  PROVE  DoneTyped(Converted) /\ HeldKept(Converted.data)
<1> DEFINE N == Len(m_tasks)
<1>1. N \in Nat /\ m_tasks \in Seq(Tasks) /\ data \in [Buffers -> Contents]
  BY DEF BuffersTyped
<1>2. PICK g : /\ Converted = g[N] /\ g[0] = Unconverted
               /\ \A i \in 1 .. N : g[i] = Convert(g[i - 1], i)
  BY <1>1, ConvertedRuns
<1> DEFINE S == {k \in 0 .. N : DoneTyped(g[k]) /\ HeldKept(g[k].data)}
<1>3. 0 \in S
  <2>1. DoneTyped(Unconverted) /\ HeldKept(Unconverted.data)
    BY <1>1 DEF DoneTyped, HeldKept, Unconverted
  <2> QED  BY <1>1, <1>2, <2>1
<1>4. ASSUME NEW k \in 1 .. N, k - 1 \in S PROVE k \in S
  <2>1. DoneTyped(g[k - 1]) /\ HeldKept(g[k - 1].data)
    BY <1>4
  <2>2. DoneTyped(Convert(g[k - 1], k)) /\ HeldKept(Convert(g[k - 1], k).data)
    BY <2>1, ConvertKeeps
  <2> QED  BY <1>1, <1>2, <2>2
<1>5. N \in S
  <2> HIDE DEF S, N
  <2>1. \A k \in 0 .. N : k \in S
    BY <1>1, <1>3, <1>4, UpToLast
  <2> QED  BY <1>1, <2>1
<1> QED  BY <1>2, <1>5

-----------------------------------------------------------------------------
(* What becomes of the buffers *)

LEMMA FreedKeeps ==
  ASSUME NEW contents \in [Buffers -> Contents]
  PROVE  /\ Freed(contents) \in [Buffers -> Contents]
         /\ \A h \in Handler : held'[h] \in Buffers => Freed(contents)[held'[h]] = contents[held'[h]]
BY DEF Freed, Contents

(* Nothing that is kept has changed, and whatever else was written is      *)
(* freed or not.                                                           *)
LEMMA KeptThrough ==
  ASSUME BuffersTyped, HeldUnchanged, UNCHANGED <<held, given>>,
         NEW contents \in [Buffers -> Contents], HeldKept(contents), data' = Freed(contents)
  PROVE  data' \in [Buffers -> Contents] /\ HeldUnchanged'
<1>1. /\ data' \in [Buffers -> Contents]
      /\ \A h \in Handler : held'[h] \in Buffers => data'[held'[h]] = contents[held'[h]]
  BY FreedKeeps
<1>2. \A h \in Handler : held[h] # Null => held[h] \in Buffers
  BY DEF BuffersTyped, Pointers
<1>3. HeldUnchanged'
  BY <1>1, <1>2 DEF HeldUnchanged, HeldKept
<1> QED  BY <1>1, <1>3

LEMMA RecycledImage ==
  ASSUME BuffersTyped
  PROVE  /\ Recycle(m_image, m_tasks) \in Buffers
         /\ \A h \in Handler : held[h] # Recycle(m_image, m_tasks)
<1>1. /\ m_tasks \in Seq(Tasks) /\ Len(m_tasks) <= MaxTasks
      /\ held \in [Handler -> Pointers] /\ m_image \in Pointers
  BY DEF BuffersTyped
<1> QED  BY <1>1, Recycled

LEMMA BlankKeeps ==
  ASSUME BuffersTyped, HeldUnchanged, Blank
  PROVE  BuffersTyped' /\ HeldUnchanged'
<1>1. /\ m_image' = Recycle(m_image, m_tasks) /\ data' = Freed(data)
      /\ UNCHANGED <<m_tasks, held, given>>
  BY DEF Blank
<1>2. data \in [Buffers -> Contents] /\ HeldKept(data)
  BY DEF BuffersTyped, HeldKept
<1>3. data' \in [Buffers -> Contents] /\ HeldUnchanged'
  BY <1>1, <1>2, KeptThrough
<1>4. m_image' \in Pointers
  BY <1>1, RecycledImage DEF Pointers
<1> QED  BY <1>1, <1>3, <1>4 DEF BuffersTyped

LEMMA FillKeeps ==
  ASSUME BuffersTyped, HeldUnchanged, NEW contents \in Contents, Fill(contents)
  PROVE  BuffersTyped' /\ HeldUnchanged'
<1> DEFINE b == Recycle(m_image, m_tasks)
           new == [data EXCEPT ![b] = contents]
<1>1. /\ m_image' = b /\ data' = Freed(new)
      /\ UNCHANGED <<m_tasks, held, given>>
  BY DEF Fill
<1>2. b \in Buffers /\ \A h \in Handler : held[h] # b
  BY RecycledImage
<1> HIDE DEF b
<1>3. data \in [Buffers -> Contents] /\ held \in [Handler -> Pointers]
  BY DEF BuffersTyped
<1>4. new \in [Buffers -> Contents] /\ HeldKept(new)
  BY <1>2, <1>3 DEF HeldKept, Pointers
<1> HIDE DEF new
<1>5. data' \in [Buffers -> Contents] /\ HeldUnchanged'
  BY <1>1, <1>4, KeptThrough
<1>6. m_image' \in Pointers
  BY <1>1, <1>2 DEF Pointers
<1> QED  BY <1>1, <1>5, <1>6 DEF BuffersTyped

LEMMA AddKeeps ==
  ASSUME BuffersTyped, HeldUnchanged, NEW h \in Handler, NEW type \in Wants[h], Add(h, type)
  PROVE  BuffersTyped' /\ HeldUnchanged'
<1>1. /\ m_tasks' = Append(m_tasks, [handler |-> h, conversion |-> type, image |-> Null])
      /\ Len(m_tasks) < MaxTasks /\ UNCHANGED <<m_image, held, given, data>>
  BY DEF Add
<1>2. m_tasks \in Seq(Tasks) /\ MaxTasks \in Nat
  BY BufferAssumption DEF BuffersTyped
<1>3. [handler |-> h, conversion |-> type, image |-> Null] \in Tasks
  <2>1. type \in Types
    BY WantsAssumption
  <2> QED  BY <2>1 DEF Tasks, Pointers
<1>4. m_tasks' \in Seq(Tasks) /\ Len(m_tasks') <= MaxTasks
  BY <1>1, <1>2, <1>3
<1>5. BuffersTyped'
  BY <1>1, <1>4 DEF BuffersTyped
<1> QED  BY <1>1, <1>5 DEF HeldUnchanged

LEMMA RemoveKeeps ==
  ASSUME BuffersTyped, HeldUnchanged, NEW h \in Handler, Remove(h)
  PROVE  BuffersTyped' /\ HeldUnchanged'
<1>1. /\ m_tasks' = [i \in DOMAIN m_tasks |->
                       IF m_tasks[i].handler = h
                       THEN [m_tasks[i] EXCEPT !.handler = NoHandler] ELSE m_tasks[i]]
      /\ UNCHANGED <<m_image, held, given, data>>
  BY DEF Remove
<1>2. /\ m_tasks \in Seq(Tasks) /\ Len(m_tasks) <= MaxTasks /\ Len(m_tasks) \in Nat
      /\ DOMAIN m_tasks = 1 .. Len(m_tasks)
  BY DEF BuffersTyped
<1>3. \A i \in 1 .. Len(m_tasks) :
        (IF m_tasks[i].handler = h
         THEN [m_tasks[i] EXCEPT !.handler = NoHandler] ELSE m_tasks[i]) \in Tasks
  <2> SUFFICES ASSUME NEW i \in 1 .. Len(m_tasks)
               PROVE  /\ m_tasks[i] \in Tasks
                      /\ [m_tasks[i] EXCEPT !.handler = NoHandler] \in Tasks
    OBVIOUS
  <2>1. m_tasks[i] \in Tasks
    BY <1>2
  <2> QED  BY <2>1 DEF Tasks
<1>4. m_tasks' \in Seq(Tasks) /\ Len(m_tasks') = Len(m_tasks)
  BY <1>1, <1>2, <1>3
<1>5. BuffersTyped'
  BY <1>1, <1>2, <1>4 DEF BuffersTyped
<1> QED  BY <1>1, <1>5 DEF HeldUnchanged

LEMMA ForgetKeeps ==
  ASSUME BuffersTyped, HeldUnchanged, NEW h \in Handler, Forget(h)
  PROVE  BuffersTyped' /\ HeldUnchanged'
<1>1. /\ held' = [held EXCEPT ![h] = Null] /\ given' = [given EXCEPT ![h] = "zero"]
      /\ UNCHANGED <<m_image, m_tasks>> /\ data' = Freed(data)
  BY DEF Forget
<1>2. /\ held \in [Handler -> Pointers] /\ given \in [Handler -> Contents]
      /\ data \in [Buffers -> Contents]
  BY DEF BuffersTyped
<1>3. /\ data' \in [Buffers -> Contents]
      /\ \A i \in Handler : held'[i] \in Buffers => data'[held'[i]] = data[held'[i]]
  BY <1>1, <1>2, FreedKeeps
<1>4. held' \in [Handler -> Pointers] /\ given' \in [Handler -> Contents]
  BY <1>1, <1>2 DEF Pointers, Contents
<1>5. \A i \in Handler : held'[i] # Null =>
        held'[i] = held[i] /\ given'[i] = given[i] /\ held'[i] \in Buffers
  BY <1>1, <1>2, <1>4 DEF Pointers
<1>6. HeldUnchanged'
  BY <1>3, <1>5 DEF HeldUnchanged
<1>7. BuffersTyped'
  BY <1>1, <1>3, <1>4 DEF BuffersTyped
<1> QED  BY <1>6, <1>7

LEMMA SendKeepsImages ==
  ASSUME BuffersTyped, HeldUnchanged, m_image # Null, Send
  PROVE  BuffersTyped' /\ HeldUnchanged'
<1> DEFINE done == Converted
           Of(h) == CHOOSE i \in DOMAIN m_tasks : m_tasks[i].handler = h
           Image(h) == IF done.tasks[Of(h)].image = Null THEN m_image
                       ELSE done.tasks[Of(h)].image
           places == {i \in DOMAIN m_tasks : m_tasks[i].handler # NoHandler}
<1>1. /\ m_tasks' = AtPlaces(done.tasks, places)
      /\ held' = [h \in Handler |-> IF HasTask(h) THEN Image(h) ELSE held[h]]
      /\ given' = [h \in Handler |-> IF HasTask(h) THEN done.data[held'[h]] ELSE given[h]]
      /\ m_image' = m_image /\ data' = Freed(done.data)
  BY DEF Send
<1>2. /\ m_tasks \in Seq(Tasks) /\ Len(m_tasks) <= MaxTasks /\ Len(m_tasks) \in Nat
      /\ DOMAIN m_tasks = 1 .. Len(m_tasks) /\ m_image \in Buffers /\ MaxTasks \in Nat
      /\ held \in [Handler -> Pointers] /\ given \in [Handler -> Contents]
  BY BufferAssumption DEF BuffersTyped, Pointers
<1>3. /\ done.tasks \in Seq(Tasks) /\ Len(done.tasks) = Len(m_tasks)
      /\ done.data \in [Buffers -> Contents] /\ HeldKept(done.data)
  BY ConvertedKeeps DEF DoneTyped
<1> HIDE DEF done
<1>4. m_tasks' \in Seq(Tasks) /\ Len(m_tasks') <= MaxTasks
  <2>1. places \subseteq DOMAIN done.tasks /\ places \in SUBSET (1 .. Len(m_tasks))
    BY <1>2, <1>3
  <2> HIDE DEF places
  <2>2. /\ m_tasks' \in Seq(Tasks) /\ Cardinality(places) \in Nat
        /\ DOMAIN m_tasks' = 1 .. Cardinality(places)
    <3> DEFINE kept == AtPlaces(done.tasks, places)
    <3>1. /\ kept \in Seq(Tasks) /\ Cardinality(places) \in Nat
          /\ DOMAIN kept = 1 .. Cardinality(places)
      BY <1>3, <2>1, LeftAtPlaces
    <3>2. m_tasks' = kept
      BY <1>1
    <3> HIDE DEF kept
    <3> QED  BY <3>1, <3>2
  <2>3. IsFiniteSet(1 .. Len(m_tasks)) /\ Cardinality(1 .. Len(m_tasks)) = Len(m_tasks)
    BY <1>2, CountTo
  <2>4. Cardinality(places) <= Len(m_tasks)
    BY <2>1, <2>3, FS_Subset
  <2>5. Len(m_tasks') = Cardinality(places)
    BY <2>2
  <2> QED  BY <1>2, <2>2, <2>4, <2>5
<1> HIDE DEF places
<1>5. \A h \in Handler : HasTask(h) => Image(h) \in Buffers
  <2> SUFFICES ASSUME NEW h \in Handler, HasTask(h) PROVE Image(h) \in Buffers
    OBVIOUS
  <2>1. Of(h) \in DOMAIN m_tasks
    BY DEF HasTask
  <2> HIDE DEF Of
  <2>2. done.tasks[Of(h)] \in Tasks
    BY <1>2, <1>3, <2>1
  <2>3. done.tasks[Of(h)].image \in Pointers
    BY <2>2 DEF Tasks
  <2> QED  BY <1>2, <2>3 DEF Pointers
<1> HIDE DEF Image
<1>6. \A h \in Handler :
        /\ HasTask(h) => held'[h] \in Buffers /\ given'[h] = done.data[held'[h]]
        /\ ~HasTask(h) => held'[h] = held[h] /\ given'[h] = given[h]
  BY <1>1, <1>5
<1>7. held' \in [Handler -> Pointers]
  BY <1>1, <1>2, <1>5 DEF Pointers
<1>8. given' \in [Handler -> Contents]
  <2>1. \A h \in Handler : given'[h] \in Contents
    BY <1>2, <1>3, <1>6
  <2>2. given' = [h \in Handler |-> given'[h]]
    BY <1>1
  <2> QED  BY <2>1, <2>2
<1>9. /\ data' \in [Buffers -> Contents]
      /\ \A h \in Handler : held'[h] \in Buffers => data'[held'[h]] = done.data[held'[h]]
  BY <1>1, <1>3, FreedKeeps
<1>10. HeldUnchanged'
  <2> SUFFICES ASSUME NEW h \in Handler, held'[h] # Null
               PROVE  data'[held'[h]] = given'[h]
    BY DEF HeldUnchanged
  <2>1. held'[h] \in Buffers
    BY <1>7 DEF Pointers
  <2>2. data'[held'[h]] = done.data[held'[h]]
    BY <1>9, <2>1
  <2>3. CASE HasTask(h)
    BY <1>6, <2>2, <2>3
  <2>4. CASE ~HasTask(h)
    <3>1. done.data[held[h]] = data[held[h]] /\ data[held[h]] = given[h]
      BY <1>3, <1>6, <2>4 DEF HeldKept, HeldUnchanged
    <3> QED  BY <1>6, <2>2, <2>4, <3>1
  <2> QED  BY <2>3, <2>4
<1>11. BuffersTyped'
  BY <1>1, <1>2, <1>4, <1>7, <1>8, <1>9 DEF BuffersTyped, Pointers
<1> QED  BY <1>10, <1>11

-----------------------------------------------------------------------------
(* The camera: its steps *)

LEMMA BuffersStay ==
  ASSUME BuffersTyped, HeldUnchanged, UNCHANGED bufferVars
  PROVE  BuffersTyped' /\ HeldUnchanged'
BY DEF BuffersTyped, HeldUnchanged, bufferVars

LEMMA BuffersStep ==
  ASSUME BuffersTyped, HeldUnchanged, [CameraNext]_cameraVars
  PROVE  BuffersTyped' /\ HeldUnchanged'
<1>1. CASE \E p \in Pictures : Read(Acquire(p))
  <2>1. PICK p \in Pictures : Fill(p)
    BY <1>1 DEF Read, ReadNow, ReadTimeout, Acquire
  <2>2. p \in Contents
    BY DEF Contents
  <2> QED  BY <2>1, <2>2, FillKeeps
<1>2. CASE Read(Fails)
  <2>1. Blank \/ Fill("crossed")
    BY <1>2 DEF Read, ReadNow, ReadTimeout, Fails, FailsToAcquire, LoseDevice
  <2>2. "crossed" \in Contents
    BY DEF Contents
  <2> QED  BY <2>1, <2>2, BlankKeeps, FillKeeps
<1>3. CASE SendTimeout
  <2>1. UNCHANGED bufferVars \/ (m_image # Null /\ Send)
    BY <1>3 DEF SendTimeout
  <2> QED  BY <2>1, BuffersStay, SendKeepsImages
<1>4. CASE FallAsleep \/ OpenTimeout \/ Plug \/ Unplug \/ UNCHANGED cameraVars
           \/ \E h \in Handler : Resend(h)
  <2>1. UNCHANGED bufferVars
    BY <1>4 DEF FallAsleep, OpenTimeout, Plug, Unplug, cameraVars, Resend
  <2> QED  BY <2>1, BuffersStay
<1>5. CASE \E h \in Handler : Go(h) \/ LetGo(h) \/ \E type \in Wants[h] : Come(h, type)
  <2>1. PICK h \in Handler : Remove(h) \/ Forget(h) \/ \E type \in Wants[h] : Add(h, type)
    BY <1>5 DEF Go, LetGo, Come
  <2> QED  BY <2>1, RemoveKeeps, ForgetKeeps, AddKeeps
<1> QED  BY <1>1, <1>2, <1>3, <1>4, <1>5 DEF CameraNext

CameraTyped ==
  /\ option \in Options /\ running \in BOOLEAN
  /\ plugged \in BOOLEAN
  /\ m_capture \in {"none", "open", "lost"} /\ registered \in BOOLEAN
  /\ openTimer \in BOOLEAN /\ readTimer \in BOOLEAN /\ sendTimer \in BOOLEAN

LEMMA WatchingStep ==
  ASSUME CameraTyped, Watching, [CameraNext]_cameraVars
  PROVE  CameraTyped' /\ Watching'
<1>1. option.sleep \in BOOLEAN /\ option.oneShot \in BOOLEAN
  BY OptionAssumption DEF CameraTyped
<1>2. CASE \E p \in Pictures : Read(Acquire(p))
  <2>1. PICK p \in Pictures : Read(Acquire(p))
    BY <1>2
  <2>2. /\ m_capture = "open" /\ registered' = TRUE /\ sendTimer' = TRUE
        /\ UNCHANGED <<m_capture, openTimer, running>>
    BY <2>1 DEF Read, ReadNow, ReadTimeout, Acquire
  <2>3. running /\ UNCHANGED <<option, plugged>> /\ readTimer' = FALSE
    BY <1>1, <2>1 DEF Read, ReadNow, ReadTimeout, Readable, Watching, CameraTyped
  <2> QED  BY <2>2, <2>3 DEF CameraTyped, Watching
<1>3. CASE Read(Fails)
  <2>1. running /\ UNCHANGED <<option, plugged>> /\ readTimer' = FALSE
    BY <1>1, <1>3 DEF Read, ReadNow, ReadTimeout, Readable, Watching, CameraTyped
  <2>2. FailsToAcquire \/ LoseDevice
    BY <1>3 DEF Read, ReadNow, ReadTimeout, Fails
  <2>3. CASE FailsToAcquire
    BY <2>1, <2>3 DEF FailsToAcquire, CameraTyped, Watching
  <2>4. CASE LoseDevice
    BY <1>1, <2>1, <2>4 DEF LoseDevice, CameraTyped, Watching
  <2> QED  BY <2>2, <2>3, <2>4
<1>4. CASE FallAsleep
  BY <1>4 DEF FallAsleep, Readable, CameraTyped, Watching
<1>5. CASE OpenTimeout
  BY <1>5 DEF OpenTimeout, CameraTyped, Watching
<1>6. CASE SendTimeout
  BY <1>6 DEF SendTimeout, CameraTyped, Watching
<1>7. CASE \E h \in Handler :
             Resend(h) \/ Go(h) \/ LetGo(h) \/ \E type \in Wants[h] : Come(h, type)
  <2>1. /\ UNCHANGED <<option, running, plugged, m_capture, registered, openTimer, readTimer>>
        /\ sendTimer' \in BOOLEAN
    BY <1>7 DEF Resend, Go, LetGo, Come, deviceVars, CameraTyped
  <2> QED  BY <2>1 DEF CameraTyped, Watching
<1>8. CASE Plug
  BY <1>8 DEF Plug, deviceVars, CameraTyped, Watching
<1>9. CASE Unplug
  BY <1>9 DEF Unplug, CameraTyped, Watching
<1>10. CASE UNCHANGED cameraVars
  BY <1>10 DEF cameraVars, deviceVars, CameraTyped, Watching
<1> QED  BY <1>2, <1>3, <1>4, <1>5, <1>6, <1>7, <1>8, <1>9, <1>10 DEF CameraNext

LEMMA InitRight ==
  ASSUME CameraInit
  PROVE  BuffersTyped /\ HeldUnchanged /\ CameraTyped /\ Watching
<1>1. BuffersTyped /\ HeldUnchanged
  <2>1. m_image = Null /\ m_tasks = <<>> /\ Len(m_tasks) = 0 /\ MaxTasks \in Nat
    BY BufferAssumption DEF CameraInit, BuffersInit
  <2>2. /\ held = [h \in Handler |-> Null] /\ given = [h \in Handler |-> "zero"]
        /\ data = [b \in Buffers |-> "zero"]
    BY DEF CameraInit, BuffersInit
  <2>3. m_tasks \in Seq(Tasks) /\ Null \in Pointers /\ "zero" \in Contents
    BY <2>1 DEF Pointers, Contents
  <2> QED  BY <2>1, <2>2, <2>3 DEF BuffersTyped, HeldUnchanged
<1>2. option.lazy \in BOOLEAN
  BY OptionAssumption DEF CameraInit
<1>3. CameraTyped /\ Watching
  <2>1. CASE plugged
    BY <1>2, <2>1 DEF CameraInit, CameraTyped, Watching
  <2>2. CASE ~plugged
    BY <1>2, <2>2 DEF CameraInit, CameraTyped, Watching
  <2> QED  BY <2>1, <2>2
<1> QED  BY <1>1, <1>3

(* What a handler keeps of a camera does not change under it, whoever      *)
(* comes and goes and whatever conversions the others want; and a camera   *)
(* that runs waits for its device, for its turn to read, or for a new      *)
(* device (grimage.cpp:117; gvcamera.cpp:80, 104, 119, 132).               *)
THEOREM CameraRight == CameraSpec => []CameraInvariant
<1>1. CameraInit => CameraInvariant
  BY InitRight DEF CameraInvariant, CameraTypeOK, CameraTyped
<1>2. CameraInvariant /\ [CameraNext]_cameraVars => CameraInvariant'
  <2> SUFFICES ASSUME CameraInvariant, [CameraNext]_cameraVars PROVE CameraInvariant'
    OBVIOUS
  <2>1. BuffersTyped /\ HeldUnchanged /\ CameraTyped /\ Watching
    BY DEF CameraInvariant, CameraTypeOK, CameraTyped
  <2>2. BuffersTyped' /\ HeldUnchanged' /\ CameraTyped' /\ Watching'
    BY <2>1, BuffersStep, WatchingStep
  <2> QED  BY <2>2 DEF CameraInvariant, CameraTypeOK, CameraTyped
<1> QED  BY <1>1, <1>2, PTL DEF CameraSpec

=============================================================================
