--------------------------- MODULE PublisherProofs ---------------------------
(* Theorems about Publisher, for every set of subscribers and every number *)
(* of slots.                                                               *)
EXTENDS Publisher, FiniteSetTheorems, TLAPS

(* The sequence number stays in range, and skips zero. *)
LEMMA NextSeqInRange ==
  ASSUME NEW s \in 0 .. SeqModulus - 1
  PROVE  NextSeq(s) \in 1 .. SeqModulus - 1
BY ConstantsAssumption DEF NextSeq

(* The new size of a segment has room for the message. *)
LEMMA MoreThanIsMore ==
  ASSUME NEW n \in Nat
  PROVE  morethan(n) \in Nat /\ morethan(n) > n
BY DEF morethan

LEMMA CountInNat == Cardinality({i \in Slots : slot[i].fd # NoFd}) \in Nat
<1>1. IsFiniteSet(Slots)
  BY FS_Interval, ConstantsAssumption DEF Slots
<1>2. IsFiniteSet({i \in Slots : slot[i].fd # NoFd})
  BY <1>1, FS_Subset
<1> QED  BY <1>2, FS_CardinalityType

LEMMA EmptySlotType == EmptySlot \in SlotType
BY ConstantsAssumption DEF EmptySlot, SlotType

-----------------------------------------------------------------------------
(* Type correctness.  The flags and the other variables are treated apart: *)
(* no prover deals with both.                                              *)

ValuesTyped == ControlTyped /\ DataTyped /\ PublisherTyped /\ SubscribersTyped
               /\ SocketsTyped

LEMMA TypeInit == Init => TypeOK
<1> SUFFICES ASSUME Init PROVE TypeOK
  OBVIOUS
<1> USE ConstantsAssumption DEF Init
<1>1. FlagsTyped
  BY DEF FlagsTyped
<1>2. ControlTyped
  BY EmptySlotType DEF ControlTyped
<1>3. DataTyped /\ PublisherTyped
  BY DEF DataTyped, PublisherTyped, PubPcs
<1>4. SubscribersTyped
  BY DEF SubscribersTyped, SubPcs, NothingYet, Slots
<1>5. SocketsTyped
  BY DEF SocketsTyped
<1> QED  BY <1>1, <1>2, <1>3, <1>4, <1>5 DEF TypeOK

LEMMA FlagsPublisher == FlagsTyped /\ PublisherStep => FlagsTyped'
BY DEF FlagsTyped, PublisherStep, StartPublish, LockToPublish, WriteHeader,
       WritePayload, Notify, EndPublish, Destruct, Terminate, Deactivate,
       CloseAllSlots, UnlinkData, UnlinkControl, KillPublisher, control, data,
       subs

LEMMA FlagsSubscriber ==
  ASSUME NEW p \in Sub, FlagsTyped, SubscriberStep(p)
  PROVE  FlagsTyped'
<1> USE DEF FlagsTyped, control, data, subs
<1>1. CASE OpenStep(p)
  BY <1>1 DEF OpenStep, OpenChannel, CreateSocket, LockToSubscribe, ClaimSlot,
              NoFreeSlots, ReadInfo
<1>2. CASE ReceiveStep(p)
  BY <1>2 DEF ReceiveStep, StartReceive, StartPeek, Flush, Getch, Attach,
              CheckAgain, LockToRead, ReadHeader, NothingNew, CopyPayload
<1>3. CASE CloseStep(p) \/ EndStep(p)
  BY <1>3 DEF CloseStep, EndStep, Close, LockToRelease, ReleaseSlot,
              CloseSocket, KillSubscriber, SignalSubscriber, ReleaseSlots
<1> QED  BY <1>1, <1>2, <1>3 DEF SubscriberStep

LEMMA NotifyTyped ==
  ASSUME ValuesTyped, NEW i \in Slots,
         NotifyOne(i) \/ NotifyFails(i) \/ TidySlot(i) \/ SkipSlot(i)
  PROVE  slot' \in [Slots -> SlotType] /\ pfds' \in Int /\ SocketsTyped'
<1>0. /\ slot \in [Slots -> SlotType] /\ pfds \in Int
      /\ path \in [Sub -> {"none", "live", "stale"}]
      /\ queue \in [Sub -> 0 .. Backlog]
      /\ Backlog \in Nat
  BY ConstantsAssumption
     DEF ValuesTyped, ControlTyped, PublisherTyped, SocketsTyped
<1>1. CASE NotifyOne(i)
  <2>1. PICK peer \in Sub :
          /\ slot' = [slot EXCEPT ![i].fd = peer]
          /\ queue' = [queue EXCEPT ![peer] = IF @ < Backlog THEN @ + 1 ELSE @]
    BY <1>1 DEF NotifyOne
  <2>2. slot' \in [Slots -> SlotType]
    BY <1>0, <2>1 DEF SlotType
  <2>3. (IF queue[peer] < Backlog THEN queue[peer] + 1 ELSE queue[peer])
          \in 0 .. Backlog
    BY <1>0
  <2>4. queue' \in [Sub -> 0 .. Backlog]
    BY <1>0, <2>1, <2>3
  <2>5. pfds' \in Int
    BY <1>0, <1>1 DEF NotifyOne
  <2>6. path' \in [Sub -> {"none", "live", "stale"}]
    BY <1>0, <1>1 DEF NotifyOne
  <2> QED  BY <2>2, <2>4, <2>5, <2>6 DEF SocketsTyped
<1>2. CASE NotifyFails(i)
  <2> DEFINE e == [slot[i] EXCEPT !.failed = TRUE, !.fd = NoFd]
  <2>1. slot' \in [Slots -> SlotType]
    <3>1. e \in SlotType
      BY <1>0 DEF SlotType
    <3>2. slot' = [slot EXCEPT ![i] = e]
      BY <1>0, <1>2 DEF NotifyFails
    <3> HIDE DEF e
    <3> QED  BY <1>0, <3>1, <3>2
  <2>2. pfds' \in Int
    BY <1>0, <1>2 DEF NotifyFails
  <2>3. path' \in [Sub -> {"none", "live", "stale"}]
    BY <1>0, <1>2 DEF NotifyFails
  <2> QED  BY <1>0, <1>2, <2>1, <2>2, <2>3 DEF NotifyFails, SocketsTyped
<1>3. CASE TidySlot(i) \/ SkipSlot(i)
  BY <1>0, <1>3, EmptySlotType DEF TidySlot, SkipSlot, socks, SocketsTyped
<1> QED  BY <1>1, <1>2, <1>3

LEMMA ValuesPublisher == ValuesTyped /\ PublisherStep => ValuesTyped'
<1> SUFFICES ASSUME ValuesTyped, PublisherStep PROVE ValuesTyped'
  OBVIOUS
<1> USE DEF ValuesTyped
<1>0. SubscribersTyped'
  BY DEF PublisherStep, StartPublish, LockToPublish, WriteHeader,
         WritePayload, Notify, EndPublish, Destruct, Terminate, Deactivate,
         CloseAllSlots, UnlinkData, UnlinkControl, KillPublisher, subs,
         SubscribersTyped
<1> SUFFICES ControlTyped' /\ DataTyped' /\ PublisherTyped' /\ SocketsTyped'
  BY <1>0
<1>1. ASSUME NEW n \in Sizes, StartPublish(n) PROVE ValuesTyped'
  <2>1. n \in Nat /\ morethan(n) \in Nat
    BY ConstantsAssumption, MoreThanIsMore
  <2>2. DataTyped' /\ PublisherTyped'
    BY <1>1, <2>1 DEF StartPublish, DataTyped, PublisherTyped, PubPcs
  <2> QED
    BY <1>0, <1>1, <2>2 DEF StartPublish, control, socks, ControlTyped, SocketsTyped
<1>2. CASE LockToPublish
  BY <1>2 DEF LockToPublish, data, socks, ControlTyped, DataTyped,
              PublisherTyped, SocketsTyped, PubPcs, PubLocked
<1>3. CASE WriteHeader
  <2>1. morethan(psize) \in Nat /\ NextSeq(seq) \in 0 .. SeqModulus - 1
    BY MoreThanIsMore, NextSeqInRange DEF ControlTyped, PublisherTyped
  <2>2. ControlTyped' /\ DataTyped'
    BY <1>3, <2>1 DEF WriteHeader, ControlTyped, DataTyped, PublisherTyped
  <2> QED
    BY <1>3, <2>2 DEF WriteHeader, socks, PublisherTyped, SocketsTyped,
                      PubPcs, PubLocked
<1>4. CASE WritePayload \/ EndPublish
  BY ConstantsAssumption, <1>4
     DEF WritePayload, EndPublish, control, data, socks, ControlTyped,
         DataTyped, PublisherTyped, SocketsTyped, PubPcs, PubLocked
<1>5. CASE Notify
  <2>1. pi \in Slots /\ pi + 1 \in 0 .. SLOTS
    BY ConstantsAssumption, <1>5 DEF Notify, Slots, PublisherTyped
  <2>2. slot' \in [Slots -> SlotType] /\ pfds' \in Int /\ SocketsTyped'
    BY <1>5, <2>1, NotifyTyped DEF Notify
  <2> QED
    BY <1>5, <2>1, <2>2 DEF Notify, data, ControlTyped, DataTyped, PublisherTyped
<1>6. CASE Destruct \/ Terminate
  BY <1>6 DEF Destruct, Terminate, control, data, socks, ControlTyped,
              DataTyped, PublisherTyped, SocketsTyped, PubPcs
<1>7. CASE Deactivate
  BY <1>7, ConstantsAssumption
     DEF Deactivate, data, socks, ControlTyped, DataTyped,
         PublisherTyped, SocketsTyped, PubPcs, PubLocked
<1>8. CASE CloseAllSlots
  <2>1. ControlTyped'
    BY <1>8, ConstantsAssumption DEF CloseAllSlots, ControlTyped, SlotType
  <2>2. pfds' \in Int
    BY <1>8, CountInNat DEF CloseAllSlots, PublisherTyped
  <2> QED
    BY <1>8, <2>1, <2>2 DEF CloseAllSlots, data, socks, DataTyped,
                            PublisherTyped, SocketsTyped, PubPcs
<1>9. CASE UnlinkData \/ UnlinkControl \/ KillPublisher
  BY <1>9 DEF UnlinkData, UnlinkControl, KillPublisher, control, data, socks,
              ControlTyped, DataTyped, PublisherTyped, SocketsTyped, PubPcs
<1> QED
  BY <1>1, <1>2, <1>3, <1>4, <1>5, <1>6, <1>7, <1>8, <1>9 DEF PublisherStep

LEMMA OrphanedTyped ==
  ASSUME NEW s \in [Slots -> SlotType], NEW p \in Sub
  PROVE  Orphaned(s, p) \in [Slots -> SlotType]
BY DEF Orphaned, SlotType

(* What a subscriber's own slots become when it is told to let them go. *)
LEMMA ReleasedTyped ==
  ASSUME NEW s \in [Slots -> SlotType], NEW p \in Sub,
         NEW t, t = [i \in Slots |->
                       IF ctlName /\ s[i].in_use /\ s[i].pid = p
                       THEN [s[i] EXCEPT !.in_use = FALSE, !.pid = NoProc]
                       ELSE s[i]]
  PROVE  t \in [Slots -> SlotType]
BY DEF SlotType

LEMMA ControlSubscriber ==
  ASSUME NEW p \in Sub, ControlTyped, SubscribersTyped, SubscriberStep(p)
  PROVE  ControlTyped'
<1>1. mutex' \in Sub \union {Pub, NoProc} /\ seq' = seq
  BY DEF ControlTyped, SubscriberStep, OpenStep, ReceiveStep, CloseStep,
         EndStep, OpenChannel, CreateSocket, LockToSubscribe, ClaimSlot,
         NoFreeSlots, ReadInfo, StartReceive, StartPeek, Flush, Getch, Attach,
         CheckAgain, LockToRead, ReadHeader, NothingNew, CopyPayload, Close,
         LockToRelease, ReleaseSlot, CloseSocket, KillSubscriber,
         SignalSubscriber, ReleaseSlots, control
<1>2. slot \in [Slots -> SlotType] /\ mine[p] \in Slots
      /\ seq \in 0 .. SeqModulus - 1
  BY DEF ControlTyped, SubscribersTyped
<1>3. slot' \in [Slots -> SlotType]
  <2>1. CASE OpenStep(p)
    <3>1. Claimed(p) \in SlotType
      BY EmptySlotType DEF Claimed, SlotType
    <3>2. CASE ClaimSlot(p)
      BY <1>2, <3>1, <3>2 DEF ClaimSlot
    <3> QED
      BY <1>2, <2>1, <3>2
         DEF OpenStep, OpenChannel, CreateSocket, LockToSubscribe,
             NoFreeSlots, ReadInfo, control
  <2>2. CASE ReceiveStep(p)
    <3>1. CASE ReadHeader(p)
      BY <1>2, <3>1 DEF ReadHeader, SlotType
    <3> QED
      BY <1>2, <2>2, <3>1
         DEF ReceiveStep, StartReceive, StartPeek, Flush, Getch, Attach,
             CheckAgain, LockToRead, NothingNew, CopyPayload, control
  <2>3. CASE CloseStep(p)
    <3>1. CASE ReleaseSlot(p)
      BY <1>2, <3>1 DEF ReleaseSlot, SlotType
    <3> QED
      BY <1>2, <2>3, <3>1, OrphanedTyped
         DEF CloseStep, Close, LockToRelease, CloseSocket, control
  <2>4. CASE EndStep(p)
    <3>1. CASE ReleaseSlots(p)
      <4> DEFINE t == [i \in Slots |->
                         IF ctlName /\ slot[i].in_use /\ slot[i].pid = p
                         THEN [slot[i] EXCEPT !.in_use = FALSE, !.pid = NoProc]
                         ELSE slot[i]]
      <4>1. t \in [Slots -> SlotType]
        BY <1>2, ReleasedTyped
      <4>2. slot' = Orphaned(t, p)
        BY <3>1 DEF ReleaseSlots
      <4> QED  BY <4>1, <4>2, OrphanedTyped
    <3> QED
      BY <1>2, <2>4, <3>1, OrphanedTyped
         DEF EndStep, KillSubscriber, SignalSubscriber, control
  <2> QED  BY <2>1, <2>2, <2>3, <2>4 DEF SubscriberStep
<1> QED  BY <1>1, <1>2, <1>3 DEF ControlTyped

LEMMA GotoTyped ==
  ASSUME NEW p \in Sub, NEW x \in SubPcs, spc \in [Sub -> SubPcs], Goto(p, x)
  PROVE  spc' \in [Sub -> SubPcs]
BY DEF Goto

LEMMA PlacesTyped ==
  ASSUME NEW p \in Sub, spc \in [Sub -> SubPcs], SubscriberStep(p)
  PROVE  spc' \in [Sub -> SubPcs]
<1> USE GotoTyped DEF SubPcs, HasSocket, Subscribed
<1>1. CASE OpenStep(p)
  BY <1>1 DEF OpenStep, OpenChannel, CreateSocket, LockToSubscribe, ClaimSlot,
              NoFreeSlots, ReadInfo
<1>2. CASE ReceiveStep(p)
  BY <1>2 DEF ReceiveStep, StartReceive, StartPeek, Flush, Getch, Attach,
              CheckAgain, LockToRead, ReadHeader, NothingNew, CopyPayload
<1>3. CASE CloseStep(p) \/ EndStep(p)
  BY <1>3 DEF CloseStep, EndStep, Close, LockToRelease, ReleaseSlot,
              CloseSocket, KillSubscriber, SignalSubscriber, ReleaseSlots
<1> QED  BY <1>1, <1>2, <1>3 DEF SubscriberStep

LEMMA SubscribersSubscriber ==
  ASSUME NEW p \in Sub, DataTyped, SubscribersTyped, SubscriberStep(p)
  PROVE  SubscribersTyped'
<1>0. /\ mine \in [Sub -> Slots] /\ mapped \in [Sub -> Nat]
      /\ hdr \in [Sub -> Nat] /\ got \in [Sub -> [head : Nat, body : Nat]]
      /\ dsize \in Nat /\ dlimit \in Nat /\ dhdr \in Nat /\ dpay \in Nat
  BY DEF DataTyped, SubscribersTyped
<1> SUFFICES /\ mine' \in [Sub -> Slots] /\ mapped' \in [Sub -> Nat]
             /\ hdr' \in [Sub -> Nat]
             /\ got' \in [Sub -> [head : Nat, body : Nat]]
  BY PlacesTyped DEF SubscribersTyped
<1>1. CASE OpenStep(p)
  <2>1. NothingYet \in [head : Nat, body : Nat]
    BY DEF NothingYet
  <2> QED
    BY <1>0, <1>1, <2>1
       DEF OpenStep, OpenChannel, CreateSocket, LockToSubscribe, ClaimSlot,
           NoFreeSlots, ReadInfo
<1>2. CASE ReceiveStep(p)
  <2>1. UNCHANGED mine
    BY <1>2
       DEF ReceiveStep, StartReceive, StartPeek, Flush, Getch, Attach,
           CheckAgain, LockToRead, ReadHeader, NothingNew, CopyPayload
  <2>2. mapped' \in [Sub -> Nat]
    BY <1>0, <1>2
       DEF ReceiveStep, StartReceive, StartPeek, Flush, Getch, Attach,
           CheckAgain, LockToRead, ReadHeader, NothingNew, CopyPayload, Follow
  <2>3. hdr' \in [Sub -> Nat]
    BY <1>0, <1>2
       DEF ReceiveStep, StartReceive, StartPeek, Flush, Getch, Attach,
           CheckAgain, LockToRead, ReadHeader, NothingNew, CopyPayload
  <2>4. got' \in [Sub -> [head : Nat, body : Nat]]
    BY <1>0, <1>2
       DEF ReceiveStep, StartReceive, StartPeek, Flush, Getch, Attach,
           CheckAgain, LockToRead, ReadHeader, NothingNew, CopyPayload
  <2> QED  BY <1>0, <2>1, <2>2, <2>3, <2>4
<1>3. CASE CloseStep(p) \/ EndStep(p)
  <2>1. UNCHANGED <<mine, hdr, got>>
    BY <1>3
       DEF CloseStep, EndStep, Close, LockToRelease, ReleaseSlot, CloseSocket,
           KillSubscriber, SignalSubscriber, ReleaseSlots
  <2>2. UNCHANGED mapped \/ mapped' = [mapped EXCEPT ![p] = 0]
    BY <1>3
       DEF CloseStep, EndStep, Close, LockToRelease, ReleaseSlot, CloseSocket,
           KillSubscriber, SignalSubscriber, ReleaseSlots
  <2> QED  BY <1>0, <2>1, <2>2
<1> QED  BY <1>1, <1>2, <1>3 DEF SubscriberStep

LEMMA SocketsSubscriber ==
  ASSUME NEW p \in Sub, SocketsTyped, SubscriberStep(p)
  PROVE  SocketsTyped'
<1>0. Backlog \in Nat
  BY ConstantsAssumption
<1>1. SocketGone(p) => SocketsTyped'
  BY <1>0 DEF SocketGone, SocketsTyped
<1>2. UNCHANGED socks => SocketsTyped'
  BY DEF socks, SocketsTyped
<1>3. CASE OpenStep(p)
  <2>1. CASE CreateSocket(p)
    BY <2>1 DEF CreateSocket, SocketsTyped
  <2> QED
    BY <1>1, <1>2, <1>3, <2>1
       DEF OpenStep, OpenChannel, LockToSubscribe, ClaimSlot, NoFreeSlots,
           ReadInfo
<1>4. CASE ReceiveStep(p)
  <2>1. CASE Flush(p)
    BY <1>0, <2>1 DEF Flush, SocketsTyped
  <2>2. CASE Getch(p)
    <3>1. queue[p] - 1 \in 0 .. Backlog
      BY <1>0, <2>2 DEF Getch, SocketsTyped
    <3> QED  BY <2>2, <3>1 DEF Getch, SocketsTyped
  <2> QED
    BY <1>2, <1>4, <2>1, <2>2
       DEF ReceiveStep, StartReceive, StartPeek, Attach, CheckAgain,
           LockToRead, ReadHeader, NothingNew, CopyPayload
<1>5. CASE CloseStep(p) \/ EndStep(p)
  BY <1>1, <1>2, <1>5
     DEF CloseStep, EndStep, Close, LockToRelease, ReleaseSlot, CloseSocket,
         KillSubscriber, SignalSubscriber, ReleaseSlots
<1> QED  BY <1>3, <1>4, <1>5 DEF SubscriberStep

LEMMA ValuesSubscriber ==
  ASSUME NEW p \in Sub, ValuesTyped, SubscriberStep(p)
  PROVE  ValuesTyped'
<1>1. UNCHANGED <<data, publ>>
  BY DEF SubscriberStep, OpenStep, ReceiveStep, CloseStep,
         EndStep, OpenChannel, CreateSocket, LockToSubscribe, ClaimSlot,
         NoFreeSlots, ReadInfo, StartReceive, StartPeek, Flush, Getch, Attach,
         CheckAgain, LockToRead, ReadHeader, NothingNew, CopyPayload, Close,
         LockToRelease, ReleaseSlot, CloseSocket, KillSubscriber,
         SignalSubscriber, ReleaseSlots
<1>2. DataTyped' /\ PublisherTyped'
  BY <1>1 DEF ValuesTyped, DataTyped, PublisherTyped, data, publ
<1> QED
  BY <1>2, ControlSubscriber, SubscribersSubscriber, SocketsSubscriber
     DEF ValuesTyped

(* The variables of the channel keep their types: program counters, slots, *)
(* sizes and queues stay in range, whatever the interleaving.              *)
THEOREM TypeCorrect == Spec => []TypeOK
<1>1. TypeOK /\ [Next]_vars => TypeOK'
  <2> SUFFICES ASSUME TypeOK, [Next]_vars PROVE TypeOK'
    OBVIOUS
  <2>1. FlagsTyped /\ ValuesTyped
    BY DEF TypeOK, ValuesTyped
  <2>2. FlagsTyped' /\ ValuesTyped' => TypeOK'
    BY DEF TypeOK, ValuesTyped
  <2>3. CASE PublisherStep
    BY <2>1, <2>2, <2>3, FlagsPublisher, ValuesPublisher
  <2>4. ASSUME NEW p \in Sub, SubscriberStep(p) PROVE TypeOK'
    BY <2>1, <2>2, <2>4, FlagsSubscriber, ValuesSubscriber
  <2>5. CASE Purge
    <3>1. FlagsTyped'
      BY <2>1, <2>5 DEF Purge, FlagsTyped, data, subs
    <3>2. ValuesTyped'
      BY <2>1, <2>5, EmptySlotType
         DEF Purge, ValuesTyped, ControlTyped, DataTyped, PublisherTyped,
             SubscribersTyped, SocketsTyped, data, publ, subs, socks
    <3> QED  BY <2>2, <3>1, <3>2
  <2>6. CASE UNCHANGED vars
    BY <2>6 DEF vars, control, data, publ, subs, socks, TypeOK, FlagsTyped,
                ControlTyped, DataTyped, PublisherTyped, SubscribersTyped,
                SocketsTyped
  <2> QED  BY <2>3, <2>4, <2>5, <2>6 DEF Next
<1> QED  BY <1>1, TypeInit, PTL DEF Spec

-----------------------------------------------------------------------------
(* The sequence number is never the slot's "nothing seen yet". *)
THEOREM SeqNotZero == Spec => []SeqNeverZero
<1>1. Init => SeqNeverZero
  BY DEF Init, SeqNeverZero
<1>2. TypeOK /\ SeqNeverZero /\ [Next]_vars => SeqNeverZero'
  <2> SUFFICES ASSUME TypeOK, SeqNeverZero, [Next]_vars PROVE SeqNeverZero'
    OBVIOUS
  <2>1. seq' = seq \/ seq' = NextSeq(seq)
    BY ZenonT(60) DEF Next, vars, PublisherStep, StartPublish, LockToPublish, WriteHeader,
           WritePayload, Notify, EndPublish, Destruct, Terminate, Deactivate,
           CloseAllSlots, UnlinkData, UnlinkControl, KillPublisher,
           SubscriberStep, OpenStep, ReceiveStep, CloseStep, EndStep,
           OpenChannel, CreateSocket, LockToSubscribe, ClaimSlot, NoFreeSlots,
           ReadInfo, StartReceive, StartPeek, Flush, Getch, Attach, CheckAgain,
           LockToRead, ReadHeader, NothingNew, CopyPayload, Close,
           LockToRelease, ReleaseSlot, CloseSocket, KillSubscriber,
           SignalSubscriber, ReleaseSlots, Purge, control
  <2>2. NextSeq(seq) # 0
    BY NextSeqInRange DEF TypeOK, ControlTyped
  <2> QED  BY <2>1, <2>2 DEF SeqNeverZero
<1> QED  BY <1>1, <1>2, TypeCorrect, PTL DEF Spec

-----------------------------------------------------------------------------
(* No torn reads.  The semaphore is held in every locked section, so that  *)
(* the publisher cannot be writing while a subscriber copies; and a        *)
(* message that was left half-written is left with the semaphore taken.    *)

LEMMA ReadInit == Init => ReadInvariant
BY DEF Init, ReadInvariant, LocksHeld, MessageWhole, NoTornRead, PubLocked,
       SubLocked

LEMMA ReadPublisher ==
  ASSUME TypeOK, ReadInvariant, PublisherStep
  PROVE  ReadInvariant'
<1>0. /\ dlen \in Nat /\ dlimit \in Nat /\ psize \in Nat
      /\ mapped \in [Sub -> Nat] /\ spc \in [Sub -> SubPcs]
  BY DEF TypeOK, DataTyped, PublisherTyped, SubscribersTyped
<1>1. Pub \notin Sub /\ NoProc \notin Sub /\ NoProc # Pub
  BY ConstantsAssumption
<1> USE <1>0, <1>1 DEF ReadInvariant, LocksHeld, MessageWhole, NoTornRead,
                       PubLocked, SubLocked, subs, data
<1>2. ASSUME NEW n \in Sizes, StartPublish(n) PROVE ReadInvariant'
  <2>1. n \in Nat /\ morethan(n) \in Nat
    BY MoreThanIsMore, ConstantsAssumption
  <2> QED  BY <1>2, <2>1 DEF StartPublish, control
<1>3. CASE LockToPublish
  BY <1>3 DEF LockToPublish
<1>4. CASE WriteHeader
  BY <1>4, MoreThanIsMore DEF WriteHeader
<1>5. CASE WritePayload \/ EndPublish
  BY <1>5 DEF WritePayload, EndPublish, control
<1>6. CASE Notify
  BY <1>6 DEF Notify
<1>7. CASE Destruct \/ Terminate \/ Deactivate
  BY <1>7 DEF Destruct, Terminate, Deactivate, control
<1>8. CASE CloseAllSlots
  BY <1>8 DEF CloseAllSlots
<1>9. CASE UnlinkData \/ UnlinkControl \/ KillPublisher
  BY <1>9 DEF UnlinkData, UnlinkControl, KillPublisher, control
<1> QED
  BY <1>2, <1>3, <1>4, <1>5, <1>6, <1>7, <1>8, <1>9 DEF PublisherStep

LEMMA ReadSubscriber ==
  ASSUME TypeOK, ReadInvariant, NEW p \in Sub, SubscriberStep(p)
  PROVE  ReadInvariant'
<1>0. /\ dlen \in Nat /\ dlimit \in Nat
      /\ mapped \in [Sub -> Nat] /\ hdr \in [Sub -> Nat]
      /\ spc \in [Sub -> SubPcs]
  BY DEF TypeOK, DataTyped, SubscribersTyped
<1>1. Pub \notin Sub /\ NoProc \notin Sub /\ NoProc # Pub
  BY ConstantsAssumption
<1> USE <1>0, <1>1 DEF ReadInvariant, LocksHeld, MessageWhole, NoTornRead,
                       PubLocked, SubLocked, data, publ, control, Goto
<1>2. CASE OpenStep(p)
  BY <1>2 DEF OpenStep, OpenChannel, CreateSocket, LockToSubscribe, ClaimSlot,
              NoFreeSlots, ReadInfo
<1>3. CASE StartReceive(p) \/ StartPeek(p) \/ Flush(p) \/ Getch(p)
  BY <1>3 DEF StartReceive, StartPeek, Flush, Getch
<1>4. CASE Attach(p) \/ CheckAgain(p)
  BY <1>4 DEF Attach, CheckAgain
<1>5. CASE LockToRead(p)
  BY <1>5 DEF LockToRead
<1>6. CASE ReadHeader(p)
  BY <1>6 DEF ReadHeader, Follow
<1>7. CASE NothingNew(p) \/ CopyPayload(p)
  BY <1>7 DEF NothingNew, CopyPayload, Follow
<1>8. CASE CloseStep(p)
  BY <1>8 DEF CloseStep, Close, LockToRelease, ReleaseSlot, CloseSocket
<1>9. CASE EndStep(p)
  BY <1>9 DEF EndStep, KillSubscriber, SignalSubscriber, ReleaseSlots
<1> QED
  BY <1>2, <1>3, <1>4, <1>5, <1>6, <1>7, <1>8, <1>9
     DEF SubscriberStep, ReceiveStep

(* The semaphore is held in every locked section, a message half-written   *)
(* is left with the semaphore taken, and the segment has room for the      *)
(* message in it, for any number of readers, any sizes and any process     *)
(* being killed or signalled at any step.                                  *)
THEOREM ReadsLocked == Spec => []ReadInvariant
<1>1. TypeOK /\ ReadInvariant /\ [Next]_vars => ReadInvariant'
  <2> SUFFICES ASSUME TypeOK, ReadInvariant, [Next]_vars PROVE ReadInvariant'
    OBVIOUS
  <2>1. CASE PublisherStep
    BY <2>1, ReadPublisher
  <2>2. ASSUME NEW p \in Sub, SubscriberStep(p) PROVE ReadInvariant'
    BY <2>2, ReadSubscriber
  <2>3. CASE Purge \/ UNCHANGED vars
    BY <2>3 DEF Purge, vars, control, data, publ, subs, socks, ReadInvariant,
                LocksHeld, MessageWhole, NoTornRead
  <2> QED  BY <2>1, <2>2, <2>3 DEF Next
<1> QED  BY <1>1, ReadInit, TypeCorrect, PTL DEF Spec

-----------------------------------------------------------------------------
(* The publisher's descriptors.  The count of them changes with the slot   *)
(* that a step changes, and a slot that may be purged has none.            *)

Connected(s) == {i \in Slots : s[i].fd # NoFd}

LEMMA ConnectedFinite ==
  ASSUME NEW s
  PROVE  IsFiniteSet(Connected(s)) /\ Cardinality(Connected(s)) \in Nat
<1>1. IsFiniteSet(Slots)
  BY FS_Interval, ConstantsAssumption DEF Slots
<1>2. IsFiniteSet(Connected(s))
  BY <1>1, FS_Subset DEF Connected
<1> QED  BY <1>2, FS_CardinalityType

(* One slot is connected, or disconnected. *)
LEMMA ConnectedMore ==
  ASSUME NEW s, NEW t, NEW i \in Slots, s[i].fd = NoFd, t[i].fd # NoFd,
         \A j \in Slots \ {i} : t[j].fd = s[j].fd
  PROVE  Cardinality(Connected(t)) = Cardinality(Connected(s)) + 1
<1>1. Connected(t) = Connected(s) \union {i} /\ i \notin Connected(s)
  BY DEF Connected
<1> QED  BY <1>1, ConnectedFinite, FS_AddElement

LEMMA ConnectedFewer ==
  ASSUME NEW s, NEW t, NEW i \in Slots, s[i].fd # NoFd, t[i].fd = NoFd,
         \A j \in Slots \ {i} : t[j].fd = s[j].fd
  PROVE  Cardinality(Connected(t)) = Cardinality(Connected(s)) - 1
<1>1. Cardinality(Connected(s)) = Cardinality(Connected(t)) + 1
  BY ConnectedMore
<1> QED  BY <1>1, ConnectedFinite

(* A slot that has failed has no descriptor. *)
FailedClosed == \A i \in Slots : slot[i].failed => slot[i].fd = NoFd

(* What the invariant reads is unchanged, or is changed by nothing that    *)
(* opens or closes a descriptor.                                           *)
LEMMA BalanceKept ==
  ASSUME FailedClosed, DescriptorsBalanced, ppc' # "crashed" => ppc # "crashed",
         pfds' = pfds, Connected(slot') = Connected(slot),
         \A i \in Slots : slot'[i].failed => slot[i].failed \/ slot'[i].fd = NoFd
  PROVE  FailedClosed' /\ DescriptorsBalanced'
<1>1. FailedClosed'
  BY DEF FailedClosed, Connected
<1> QED  BY <1>1 DEF DescriptorsBalanced, Connected

LEMMA BalanceNotify ==
  ASSUME TypeOK, FailedClosed, DescriptorsBalanced, Notify
  PROVE  FailedClosed' /\ DescriptorsBalanced'
<1>0. /\ slot \in [Slots -> SlotType] /\ pi \in Slots /\ pfds \in Int
      /\ ppc # "crashed" /\ ppc' = ppc
      /\ NoFd \notin Sub
  BY ConstantsAssumption
     DEF TypeOK, ControlTyped, PublisherTyped, Notify, Slots
<1>1. CASE NotifyOne(pi)
  <2>1. PICK peer \in Sub :
          /\ slot' = [slot EXCEPT ![pi].fd = peer]
          /\ pfds' = IF slot[pi].fd = NoFd THEN pfds + 1 ELSE pfds
    BY <1>1 DEF NotifyOne
  <2>2. ~slot[pi].failed
    BY <1>1 DEF NotifyOne
  <2>3. slot'[pi].fd # NoFd /\ \A j \in Slots \ {pi} : slot'[j] = slot[j]
    BY <1>0, <2>1 DEF SlotType
  <2>4. FailedClosed'
    BY <1>0, <2>1, <2>2 DEF FailedClosed, SlotType
  <2>5. CASE slot[pi].fd = NoFd
    <3>1. Cardinality(Connected(slot')) = Cardinality(Connected(slot)) + 1
      BY <1>0, <2>3, <2>5, ConnectedMore
    <3> QED  BY <1>0, <2>1, <2>4, <2>5, <3>1 DEF DescriptorsBalanced, Connected
  <2>6. CASE slot[pi].fd # NoFd
    <3>1. Connected(slot') = Connected(slot)
      BY <1>0, <2>3, <2>6 DEF Connected
    <3> QED  BY <1>0, <2>1, <2>4, <2>6, <3>1 DEF DescriptorsBalanced, Connected
  <2> QED  BY <2>5, <2>6
<1>2. CASE NotifyFails(pi) \/ TidySlot(pi)
  <2>1. /\ slot'[pi].fd = NoFd /\ \A j \in Slots \ {pi} : slot'[j] = slot[j]
        /\ pfds' = IF slot[pi].fd = NoFd THEN pfds ELSE pfds - 1
    BY <1>0, <1>2 DEF NotifyFails, TidySlot, SlotType, EmptySlot
  <2>2. FailedClosed'
    BY <2>1 DEF FailedClosed
  <2>3. CASE slot[pi].fd # NoFd
    <3>1. Cardinality(Connected(slot')) = Cardinality(Connected(slot)) - 1
      BY <1>0, <2>1, <2>3, ConnectedFewer
    <3> QED  BY <1>0, <2>1, <2>2, <2>3, <3>1 DEF DescriptorsBalanced, Connected
  <2>4. CASE slot[pi].fd = NoFd
    <3>1. Connected(slot') = Connected(slot)
      BY <1>0, <2>1, <2>4 DEF Connected
    <3> QED  BY <1>0, <2>1, <2>2, <2>4, <3>1 DEF DescriptorsBalanced, Connected
  <2> QED  BY <2>3, <2>4
<1>3. CASE SkipSlot(pi)
  BY <1>0, <1>3 DEF SkipSlot, FailedClosed, DescriptorsBalanced
<1> QED  BY <1>1, <1>2, <1>3 DEF Notify

LEMMA BalancePublisher ==
  ASSUME TypeOK, FailedClosed, DescriptorsBalanced, PublisherStep
  PROVE  FailedClosed' /\ DescriptorsBalanced'
<1>0. pfds \in Int /\ slot \in [Slots -> SlotType]
  BY DEF TypeOK, ControlTyped, PublisherTyped
<1>1. CASE KillPublisher
  BY <1>1 DEF KillPublisher, control, FailedClosed, DescriptorsBalanced
<1>2. CASE CloseAllSlots
  <2>1. /\ \A i \in Slots : slot'[i].fd = NoFd
        /\ pfds' = pfds - Cardinality(Connected(slot)) /\ ppc # "crashed"
    BY <1>0, <1>2 DEF CloseAllSlots, SlotType, Connected
  <2>2. FailedClosed' /\ Connected(slot') = {}
    BY <2>1 DEF FailedClosed, Connected
  <2>3. pfds' = 0
    BY <1>0, <2>1, ConnectedFinite DEF DescriptorsBalanced, Connected
  <2> QED  BY <2>2, <2>3, FS_EmptySet DEF DescriptorsBalanced, Connected
<1>3. CASE Notify
  BY <1>3, BalanceNotify
<1>4. CASE \/ \E n \in Sizes : StartPublish(n)
           \/ LockToPublish \/ WriteHeader \/ WritePayload \/ EndPublish
           \/ Destruct \/ Terminate \/ Deactivate \/ UnlinkData
           \/ UnlinkControl
  <2>1. UNCHANGED <<slot, pfds>> /\ ppc # "crashed"
    BY <1>4 DEF StartPublish, LockToPublish, WriteHeader, WritePayload,
       EndPublish, Destruct, Terminate, Deactivate, UnlinkData, UnlinkControl,
       control
  <2> QED  BY <2>1 DEF FailedClosed, DescriptorsBalanced
<1> QED  BY <1>1, <1>2, <1>3, <1>4 DEF PublisherStep

LEMMA BalanceSubscriber ==
  ASSUME TypeOK, FailedClosed, DescriptorsBalanced, NEW p \in Sub,
         SubscriberStep(p)
  PROVE  FailedClosed' /\ DescriptorsBalanced'
<1>0. /\ slot \in [Slots -> SlotType] /\ mine \in [Sub -> Slots]
      /\ NoFd \notin Sub /\ Dead # NoFd
  BY ConstantsAssumption DEF TypeOK, ControlTyped, SubscribersTyped
<1>1. UNCHANGED <<ppc, pfds>>
  BY DEF SubscriberStep, OpenStep, ReceiveStep, CloseStep,
         EndStep, OpenChannel, CreateSocket, LockToSubscribe, ClaimSlot,
         NoFreeSlots, ReadInfo, StartReceive, StartPeek, Flush, Getch, Attach,
         CheckAgain, LockToRead, ReadHeader, NothingNew, CopyPayload, Close,
         LockToRelease, ReleaseSlot, CloseSocket, KillSubscriber,
         SignalSubscriber, ReleaseSlots, publ
<1> SUFFICES /\ Connected(slot') = Connected(slot)
             /\ \A i \in Slots :
                  slot'[i].failed => slot[i].failed \/ slot'[i].fd = NoFd
  BY <1>1, BalanceKept
<1>2. CASE slot' = slot
  BY <1>2
<1>3. ASSUME NEW s \in [Slots -> SlotType], slot' = Orphaned(s, p),
             \A i \in Slots : s[i].fd = slot[i].fd /\ s[i].failed = slot[i].failed
      PROVE  /\ Connected(slot') = Connected(slot)
             /\ \A i \in Slots : slot'[i].failed => slot[i].failed
  <2>1. \A i \in Slots : /\ slot'[i].failed = slot[i].failed
                         /\ slot'[i].fd = NoFd <=> slot[i].fd = NoFd
    BY <1>0, <1>3 DEF Orphaned, SlotType
  <2> QED  BY <2>1 DEF Connected
<1>4. CASE ClaimSlot(p)
  <2>1. PICK i \in Slots : /\ slot[i].fd = NoFd
                          /\ slot' = [slot EXCEPT ![i] = Claimed(p)]
    BY <1>4 DEF ClaimSlot, IsFirstFree, FreeSlots
  <2>2. Claimed(p).fd = NoFd
    BY DEF Claimed, EmptySlot
  <2> QED  BY <1>0, <2>1, <2>2 DEF Connected
<1>5. CASE ReadHeader(p)
  BY <1>0, <1>5 DEF ReadHeader, Connected, SlotType
<1>6. CASE ReleaseSlot(p)
  BY <1>0, <1>6 DEF ReleaseSlot, Connected, SlotType
<1>7. CASE CloseSocket(p) \/ KillSubscriber(p)
  BY <1>0, <1>3, <1>7 DEF CloseSocket, KillSubscriber
<1>8. CASE ReleaseSlots(p)
  <2> DEFINE t == [i \in Slots |->
                     IF ctlName /\ slot[i].in_use /\ slot[i].pid = p
                     THEN [slot[i] EXCEPT !.in_use = FALSE, !.pid = NoProc]
                     ELSE slot[i]]
  <2>1. slot' = Orphaned(t, p)
    BY <1>8 DEF ReleaseSlots
  <2>2. t \in [Slots -> SlotType]
    BY <1>0, ReleasedTyped
  <2>3. \A i \in Slots : t[i].fd = slot[i].fd /\ t[i].failed = slot[i].failed
    BY <1>0 DEF SlotType
  <2> HIDE DEF t
  <2> QED  BY <1>3, <2>1, <2>2, <2>3
<1>9. SubscriberStep(p) =>
        \/ ClaimSlot(p) \/ ReadHeader(p) \/ ReleaseSlot(p) \/ CloseSocket(p)
        \/ KillSubscriber(p) \/ ReleaseSlots(p) \/ slot' = slot
  BY DEF SubscriberStep, OpenStep, ReceiveStep, CloseStep, EndStep,
         OpenChannel, CreateSocket, LockToSubscribe, NoFreeSlots, ReadInfo,
         StartReceive, StartPeek, Flush, Getch, Attach, CheckAgain, LockToRead,
         NothingNew, CopyPayload, Close, LockToRelease, SignalSubscriber,
         control
<1> QED  BY <1>2, <1>4, <1>5, <1>6, <1>7, <1>8, <1>9

(* The publisher counts as many open sockets as its slots hold, through    *)
(* every reconnection, failure, tidying-up and purge, for any number of    *)
(* slots and subscribers: none leaks and none is closed twice.             *)
THEOREM NoDescriptorLost == Spec => []DescriptorsBalanced
<1>1. Init => FailedClosed /\ DescriptorsBalanced
  <2>1. Init => FailedClosed /\ Connected(slot) = {} /\ pfds = 0
    BY DEF Init, FailedClosed, Connected, EmptySlot
  <2> QED  BY <2>1, FS_EmptySet DEF DescriptorsBalanced, Connected
<1>2. TypeOK /\ FailedClosed /\ DescriptorsBalanced /\ [Next]_vars
        => FailedClosed' /\ DescriptorsBalanced'
  <2> SUFFICES ASSUME TypeOK, FailedClosed, DescriptorsBalanced, [Next]_vars
               PROVE  FailedClosed' /\ DescriptorsBalanced'
    OBVIOUS
  <2>1. CASE Purge
    <3>1. /\ UNCHANGED <<ppc, pfds>>
          /\ slot' = [i \in Slots |-> IF Purgeable(i) THEN EmptySlot ELSE slot[i]]
      BY <2>1 DEF Purge, publ
    <3>2. \A i \in Slots : slot'[i].fd = slot[i].fd
      BY <3>1 DEF Purgeable, FailedClosed, EmptySlot
    <3>3. \A i \in Slots : slot'[i].failed => slot[i].failed
      BY <3>1 DEF EmptySlot
    <3> QED  BY <3>1, <3>2, <3>3, BalanceKept DEF Connected
  <2>2. CASE UNCHANGED vars
    BY <2>2 DEF vars, control, publ, FailedClosed, DescriptorsBalanced
  <2> QED
    BY <2>1, <2>2, BalancePublisher, BalanceSubscriber DEF Next
<1> QED  BY <1>1, <1>2, TypeCorrect, PTL DEF Spec

-----------------------------------------------------------------------------
(* The rest is of a publisher that may use every subscriber's socket path: *)
(* a subscription keeps its slot and stays within the publisher's reach,   *)
(* and the channel implements the broadcast of LatestValue.                *)

LEMMA SlotInit == Init => SlotInvariant
BY DEF Init, SlotInvariant, SlotHolders, SubscriptionsKept, DefunctOnTheWayOut,
       EmptySlot, Subscribed

(* The invariant reads the slots, the paths and the subscribers' places;   *)
(* the rest of a step matters only by what it does to the channel's marks. *)
LEMMA SlotsUntouched ==
  ASSUME SlotInvariant, UNCHANGED <<slot, path, spc, mine>>,
         magic' \/ (ctlName' /\ ppc' = "goodbye")
           => magic \/ (ctlName /\ ppc = "goodbye"),
         ctlName' => ctlName, DefunctOnTheWayOut'
  PROVE  SlotInvariant'
BY DEF SlotInvariant, SlotHolders, SubscriptionsKept, OwnsSlot, Reachable

(* A slot in use is in the hands of at most one live subscription. *)
LEMMA OneHolder ==
  ASSUME SlotInvariant, NEW i \in Slots, NEW p \in Sub,
         spc[p] \in Subscribed, slot[i].in_use, slot[i].pid = p
  PROVE  i = mine[p]
BY DEF SlotInvariant, SlotHolders, Subscribed

LEMMA SlotsNotifyOne ==
  ASSUME TypeOK, Denied = {}, SlotInvariant, ppc \in {"notify", "goodbye"},
         NEW i \in Slots, NotifyOne(i),
         UNCHANGED <<ctlName, magic, ppc, spc, mine>>
  PROVE  SlotInvariant'
<1>0. /\ slot \in [Slots -> SlotType] /\ mine \in [Sub -> Slots]
      /\ path \in [Sub -> {"none", "live", "stale"}]
  BY DEF TypeOK, ControlTyped, SubscribersTyped, SocketsTyped
<1>1. PICK peer \in Sub :
        /\ peer = Peer(slot[i])
        /\ slot' = [slot EXCEPT ![i].fd = peer]
  BY DEF NotifyOne
<1>2. slot[i].in_use /\ ~slot[i].failed
  BY DEF NotifyOne
<1>3. SlotHolders'
  BY <1>0, <1>1, <1>2 DEF SlotInvariant, SlotHolders, SlotType
<1>4. SubscriptionsKept'
  <2> SUFFICES ASSUME NEW p \in Sub
               PROVE  /\ spc[p] \in {"bound", "claiming"} => path'[p] = "live"
                      /\ spc[p] \in Subscribed =>
                           /\ OwnsSlot(p)'
                           /\ ctlName => ~slot'[mine[p]].failed
                           /\ magic \/ (ctlName /\ ppc = "goodbye")
                                => Reachable(p)'
    BY DEF SubscriptionsKept
  <2>1. CASE slot[i].pid = p
    <3>1. spc[p] \in Subscribed => i = mine[p]
      BY <2>1, <1>2, OneHolder
    <3>2. spc[p] \notin {"bound", "claiming"}
      BY <2>1, <1>2 DEF SlotInvariant, SlotHolders, Subscribed
    <3>3. ASSUME spc[p] \in Subscribed, magic \/ (ctlName /\ ppc = "goodbye")
          PROVE  Reachable(p)'
      <4>1. Reachable(p) /\ i = mine[p]
        BY <3>1, <3>3 DEF SlotInvariant, SubscriptionsKept
      <4>2. peer = p
        BY <1>1, <2>1, <4>1 DEF Reachable, Peer
      <4>3. path'[p] = "none"
        BY <1>0, <2>1, <4>1 DEF Reachable, NotifyOne
      <4> QED
        BY <1>0, <1>1, <4>1, <4>2, <4>3 DEF Reachable, SlotType
    <3>4. spc[p] \in Subscribed =>
            OwnsSlot(p)' /\ (ctlName => ~slot'[mine[p]].failed)
      BY <1>0, <1>1, <3>1
         DEF SlotInvariant, SubscriptionsKept, OwnsSlot, SlotType
    <3> QED  BY <3>2, <3>3, <3>4
  <2>2. CASE slot[i].pid # p
    <3>1. path'[p] = path[p]
      BY <1>0, <2>2 DEF NotifyOne
    <3>2. spc[p] \in Subscribed => mine[p] # i
      BY <2>2 DEF SlotInvariant, SubscriptionsKept, OwnsSlot
    <3>3. spc[p] \in Subscribed => slot'[mine[p]] = slot[mine[p]]
      BY <1>0, <1>1, <3>2
    <3> QED
      BY <3>1, <3>3 DEF SlotInvariant, SubscriptionsKept, OwnsSlot, Reachable
  <2> QED  BY <2>1, <2>2
<1> QED  BY <1>3, <1>4 DEF SlotInvariant, DefunctOnTheWayOut

(* Notification of a live subscription fails only when the channel has     *)
(* been marked as defunct and has lost its name.                           *)
LEMMA SlotsNotifyFails ==
  ASSUME TypeOK, Denied = {}, SlotInvariant, ppc \in {"notify", "goodbye"},
         NEW i \in Slots, NotifyFails(i),
         UNCHANGED <<ctlName, magic, ppc, spc, mine>>
  PROVE  SlotInvariant'
<1>0. /\ slot \in [Slots -> SlotType] /\ mine \in [Sub -> Slots]
      /\ path \in [Sub -> {"none", "live", "stale"}]
  BY DEF TypeOK, ControlTyped, SubscribersTyped, SocketsTyped
<1>1. /\ slot[i].in_use /\ Peer(slot[i]) \notin Sub
      /\ slot' = [slot EXCEPT ![i].failed = TRUE, ![i].fd = NoFd]
  BY DEF NotifyFails
<1>2. SlotHolders'
  BY <1>0, <1>1 DEF SlotInvariant, SlotHolders, SlotType
<1>3. SubscriptionsKept'
  <2> SUFFICES ASSUME NEW p \in Sub
               PROVE  /\ spc[p] \in {"bound", "claiming"} => path'[p] = "live"
                      /\ spc[p] \in Subscribed =>
                           /\ OwnsSlot(p)'
                           /\ ctlName => ~slot'[mine[p]].failed
                           /\ magic \/ (ctlName /\ ppc = "goodbye")
                                => Reachable(p)'
    BY DEF SubscriptionsKept
  <2>1. CASE slot[i].pid = p
    <3>1. spc[p] \in Subscribed => i = mine[p]
      BY <2>1, <1>1, OneHolder
    <3>2. spc[p] \notin {"bound", "claiming"}
      BY <2>1, <1>1 DEF SlotInvariant, SlotHolders, Subscribed
    <3>3. spc[p] \in Subscribed => ~(magic \/ (ctlName /\ ppc = "goodbye"))
      BY <1>1, <2>1, <3>1
         DEF SlotInvariant, SubscriptionsKept, Reachable, Peer
    <3>4. spc[p] \in Subscribed => ~ctlName
      BY <3>3 DEF SlotInvariant, DefunctOnTheWayOut
    <3>5. spc[p] \in Subscribed => OwnsSlot(p)'
      BY <1>0, <1>1, <3>1
         DEF SlotInvariant, SubscriptionsKept, OwnsSlot, SlotType
    <3> QED  BY <3>2, <3>3, <3>4, <3>5
  <2>2. CASE slot[i].pid # p
    <3>1. path'[p] = path[p]
      BY <1>0, <2>2 DEF NotifyFails
    <3>2. spc[p] \in Subscribed => mine[p] # i
      BY <2>2 DEF SlotInvariant, SubscriptionsKept, OwnsSlot
    <3>3. spc[p] \in Subscribed => slot'[mine[p]] = slot[mine[p]]
      BY <1>0, <1>1, <3>2
    <3> QED
      BY <3>1, <3>3 DEF SlotInvariant, SubscriptionsKept, OwnsSlot, Reachable
  <2> QED  BY <2>1, <2>2
<1> QED  BY <1>2, <1>3 DEF SlotInvariant, DefunctOnTheWayOut

(* tidying up leaves the slots of the live subscriptions alone *)
LEMMA SlotsTidy ==
  ASSUME TypeOK, SlotInvariant, NEW i \in Slots, TidySlot(i),
         UNCHANGED <<ctlName, magic, ppc, spc, mine>>
  PROVE  SlotInvariant'
<1>0. slot \in [Slots -> SlotType] /\ mine \in [Sub -> Slots]
  BY DEF TypeOK, ControlTyped, SubscribersTyped
<1>1. ~slot[i].in_use /\ slot' = [slot EXCEPT ![i] = EmptySlot]
  BY DEF TidySlot, SlotInvariant, SlotHolders
<1>2. SlotHolders'
  BY <1>0, <1>1 DEF SlotInvariant, SlotHolders, EmptySlot
<1>3. \A p \in Sub : spc[p] \in Subscribed => slot'[mine[p]] = slot[mine[p]]
  BY <1>0, <1>1 DEF SlotInvariant, SubscriptionsKept, OwnsSlot
<1>4. path' = path
  BY DEF TidySlot, socks
<1> QED
  BY <1>2, <1>3, <1>4 DEF SlotInvariant, SubscriptionsKept, OwnsSlot,
                          Reachable, DefunctOnTheWayOut

LEMMA SlotsPublisher ==
  ASSUME TypeOK, Denied = {}, SlotInvariant, PublisherStep
  PROVE  SlotInvariant'
<1>1. ASSUME NEW n \in Sizes, StartPublish(n) PROVE SlotInvariant'
  BY <1>1, SlotsUntouched
     DEF StartPublish, control, subs, socks, SlotInvariant, DefunctOnTheWayOut
<1>2. CASE LockToPublish \/ WriteHeader \/ WritePayload \/ EndPublish
  BY <1>2, SlotsUntouched
     DEF LockToPublish, WriteHeader, WritePayload, EndPublish, control, subs,
         socks, SlotInvariant, DefunctOnTheWayOut
<1>3. CASE Notify
  <2>1. pi \in Slots /\ ppc \in {"notify", "goodbye"}
        /\ UNCHANGED <<ctlName, magic, ppc, spc, mine>>
    BY <1>3, ConstantsAssumption
       DEF Notify, Slots, TypeOK, PublisherTyped, subs
  <2>2. CASE SkipSlot(pi)
    BY <2>1, <2>2, SlotsUntouched
       DEF SkipSlot, socks, SlotInvariant, DefunctOnTheWayOut
  <2> QED
    BY <1>3, <2>1, <2>2, SlotsNotifyOne, SlotsNotifyFails, SlotsTidy DEF Notify
<1>4. CASE Destruct \/ Terminate \/ Deactivate
  BY <1>4, SlotsUntouched
     DEF Destruct, Terminate, Deactivate, control, subs, socks, SlotInvariant,
         DefunctOnTheWayOut
<1>5. CASE CloseAllSlots
  <2>0. slot \in [Slots -> SlotType] /\ mine \in [Sub -> Slots]
    BY DEF TypeOK, ControlTyped, SubscribersTyped
  <2>1. /\ slot' = [i \in Slots |-> [slot[i] EXCEPT !.fd = NoFd]]
        /\ UNCHANGED <<ctlName, magic, path, spc, mine>>
        /\ ~magic /\ ppc' = "unlinkData"
    BY <1>5 DEF CloseAllSlots, SlotInvariant, DefunctOnTheWayOut, subs, socks
  <2>2. SlotHolders'
    BY <2>0, <2>1 DEF SlotInvariant, SlotHolders, SlotType
  <2>3. SubscriptionsKept'
    BY <2>0, <2>1 DEF SlotInvariant, SubscriptionsKept, OwnsSlot, SlotType
  <2> QED
    BY <2>1, <2>2, <2>3 DEF SlotInvariant, DefunctOnTheWayOut
<1>6. CASE UnlinkData \/ UnlinkControl \/ KillPublisher
  BY <1>6, SlotsUntouched
     DEF UnlinkData, UnlinkControl, KillPublisher, control, subs, socks,
         SlotInvariant, DefunctOnTheWayOut
<1> QED  BY <1>1, <1>2, <1>3, <1>4, <1>5, <1>6 DEF PublisherStep

-----------------------------------------------------------------------------
(* The subscribers' steps. *)

(* A step that moves a subscriber without touching slots or sockets, and   *)
(* neither into nor out of its subscription.                               *)
LEMMA SlotsMoved ==
  ASSUME TypeOK, SlotInvariant, NEW p \in Sub, NEW x \in SubPcs, Goto(p, x),
         UNCHANGED <<slot, path, mine, ctlName, magic, ppc>>,
         x \in Subscribed => spc[p] \in Subscribed,
         spc[p] \in Subscribed => x \in Subscribed \union {"trapping", "dead"},
         spc[p] \in {"trapping", "dead"} => x \in {"trapping", "dead"},
         x \in {"bound", "claiming"} => path[p] = "live"
  PROVE  SlotInvariant'
<1>0. spc \in [Sub -> SubPcs]
  BY DEF TypeOK, SubscribersTyped
<1>1. spc' = [spc EXCEPT ![p] = x]
  BY DEF Goto
<1>2. SlotHolders'
  BY <1>0, <1>1 DEF SlotInvariant, SlotHolders
<1>3. SubscriptionsKept'
  BY <1>0, <1>1 DEF SlotInvariant, SubscriptionsKept, OwnsSlot, Reachable
<1> QED  BY <1>2, <1>3 DEF SlotInvariant, DefunctOnTheWayOut

LEMMA SlotsCreateSocket ==
  ASSUME TypeOK, SlotInvariant, NEW p \in Sub, CreateSocket(p)
  PROVE  SlotInvariant'
<1>0. spc \in [Sub -> SubPcs] /\ path \in [Sub -> {"none", "live", "stale"}]
  BY DEF TypeOK, SubscribersTyped, SocketsTyped
<1>1. /\ spc[p] = "mapped"
      /\ UNCHANGED <<slot, mine, ctlName, magic, ppc>>
      /\ \/ /\ spc' = [spc EXCEPT ![p] = "bound"]
            /\ path' = [path EXCEPT ![p] = "live"]
         \/ spc' = [spc EXCEPT ![p] = "closed"] /\ path' = path
  BY DEF CreateSocket, Goto, control, publ
<1>2. SlotHolders'
  BY <1>0, <1>1 DEF SlotInvariant, SlotHolders, Subscribed
<1>3. SubscriptionsKept'
  BY <1>0, <1>1 DEF SlotInvariant, SubscriptionsKept, OwnsSlot, Reachable,
                    Subscribed
<1> QED  BY <1>1, <1>2, <1>3 DEF SlotInvariant, DefunctOnTheWayOut

LEMMA SlotsClaimSlot ==
  ASSUME TypeOK, SlotInvariant, NEW p \in Sub, ClaimSlot(p)
  PROVE  SlotInvariant'
<1>0. /\ spc \in [Sub -> SubPcs] /\ slot \in [Slots -> SlotType]
      /\ mine \in [Sub -> Slots] /\ NoProc \notin Sub
  BY ConstantsAssumption DEF TypeOK, ControlTyped, SubscribersTyped
<1>1. PICK i \in Slots : /\ i \in FreeSlots
                        /\ slot' = [slot EXCEPT ![i] = Claimed(p)]
                        /\ mine' = [mine EXCEPT ![p] = i]
  BY DEF ClaimSlot, IsFirstFree
<1>2. /\ spc[p] = "claiming" /\ spc' = [spc EXCEPT ![p] = "claimed"]
      /\ UNCHANGED <<path, ctlName, magic, ppc>>
  BY DEF ClaimSlot, Goto, publ, socks
<1>3. ~slot[i].in_use
  BY <1>1 DEF FreeSlots
<1>4. /\ Claimed(p).in_use /\ ~Claimed(p).failed
      /\ Claimed(p).pid = p /\ Claimed(p).fd = NoFd
  BY DEF Claimed, EmptySlot
<1>5. SlotHolders'
  BY <1>0, <1>1, <1>2, <1>3, <1>4 DEF SlotInvariant, SlotHolders, Subscribed
<1>6. SubscriptionsKept'
  <2> SUFFICES ASSUME NEW q \in Sub
               PROVE  /\ spc'[q] \in {"bound", "claiming"} => path[q] = "live"
                      /\ spc'[q] \in Subscribed =>
                           /\ OwnsSlot(q)'
                           /\ ctlName => ~slot'[mine'[q]].failed
                           /\ magic \/ (ctlName /\ ppc = "goodbye")
                                => Reachable(q)'
    BY <1>2 DEF SubscriptionsKept
  <2>1. CASE q = p
    <3>1. slot'[mine'[q]] = Claimed(p) /\ path[q] = "live" /\ path' = path
      BY <1>0, <1>1, <1>2, <2>1 DEF SlotInvariant, SubscriptionsKept
    <3> QED
      BY <1>0, <1>2, <1>4, <2>1, <3>1 DEF OwnsSlot, Reachable
  <2>2. CASE q # p
    <3>1. spc'[q] = spc[q] /\ mine'[q] = mine[q]
      BY <1>0, <1>1, <1>2, <2>2
    <3>2. spc[q] \in Subscribed => slot'[mine[q]] = slot[mine[q]]
      BY <1>0, <1>1, <1>3 DEF SlotInvariant, SubscriptionsKept, OwnsSlot
    <3> QED
      BY <1>2, <3>1, <3>2
         DEF SlotInvariant, SubscriptionsKept, OwnsSlot, Reachable
  <2> QED  BY <2>1, <2>2
<1> QED  BY <1>2, <1>5, <1>6 DEF SlotInvariant, DefunctOnTheWayOut

(* A process lets go of its own slot only: nobody else's subscription is   *)
(* in it.                                                                  *)
LEMMA SlotsReleaseSlot ==
  ASSUME TypeOK, SlotInvariant, NEW p \in Sub, ReleaseSlot(p)
  PROVE  SlotInvariant'
<1>0. /\ spc \in [Sub -> SubPcs] /\ slot \in [Slots -> SlotType]
      /\ mine \in [Sub -> Slots]
  BY DEF TypeOK, ControlTyped, SubscribersTyped
<1>1. /\ spc[p] = "releasing" /\ spc' = [spc EXCEPT ![p] = "released"]
      /\ slot' = [slot EXCEPT ![mine[p]].in_use = FALSE]
      /\ UNCHANGED <<path, mine, ctlName, magic, ppc>>
  BY DEF ReleaseSlot, Goto, publ, socks
<1>2. OwnsSlot(p)
  BY <1>1 DEF SlotInvariant, SubscriptionsKept, Subscribed
<1>3. SlotHolders'
  <2> SUFFICES ASSUME NEW i \in Slots
               PROVE  /\ slot'[i].failed => slot'[i].fd = NoFd
                      /\ slot'[i].in_use =>
                           \A q \in Sub : slot'[i].pid = q =>
                             \/ spc'[q] \in Subscribed /\ i = mine[q]
                             \/ spc'[q] \in {"trapping", "dead"}
    BY <1>1 DEF SlotHolders
  <2>1. CASE i = mine[p]
    BY <1>0, <1>1, <2>1 DEF SlotInvariant, SlotHolders, SlotType
  <2>2. CASE i # mine[p]
    BY <1>0, <1>1, <2>2 DEF SlotInvariant, SlotHolders, Subscribed
  <2> QED  BY <2>1, <2>2
<1>4. ASSUME NEW q \in Sub, q # p, spc[q] \in Subscribed
      PROVE  slot'[mine[q]] = slot[mine[q]]
  <2>1. mine[q] # mine[p]
    BY <1>2, <1>4 DEF SlotInvariant, SubscriptionsKept, OwnsSlot
  <2> QED  BY <1>0, <1>1, <2>1
<1>5. SubscriptionsKept'
  BY <1>0, <1>1, <1>4
     DEF SlotInvariant, SubscriptionsKept, OwnsSlot, Reachable, Subscribed
<1> QED  BY <1>1, <1>3, <1>5 DEF SlotInvariant, DefunctOnTheWayOut

(* The end of a socket: only those connected to it notice. *)
LEMMA SlotsOrphaned ==
  ASSUME TypeOK, SlotInvariant, NEW p \in Sub, NEW s, NEW x \in SubPcs,
         s \in [Slots -> SlotType],
         \A i \in Slots : s[i].fd = slot[i].fd /\ s[i].failed = slot[i].failed,
         \A i \in Slots : s[i] = slot[i] \/ (~s[i].in_use /\ slot[i].pid = p),
         slot' = Orphaned(s, p), SocketGone(p), Goto(p, x),
         x \notin Subscribed \union {"bound", "claiming"},
         spc[p] \notin Subscribed \/ x = "dead",
         spc[p] \in {"trapping", "dead"} => x = "dead",
         UNCHANGED <<mine, ctlName, magic, ppc>>
  PROVE  SlotInvariant'
<1>0. /\ spc \in [Sub -> SubPcs] /\ slot \in [Slots -> SlotType]
      /\ mine \in [Sub -> Slots] /\ path \in [Sub -> {"none", "live", "stale"}]
      /\ NoFd \notin Sub
  BY ConstantsAssumption
     DEF TypeOK, ControlTyped, SubscribersTyped, SocketsTyped
<1>1. spc' = [spc EXCEPT ![p] = x]
  BY DEF Goto
<1>2. ASSUME NEW i \in Slots
      PROVE  /\ slot'[i].in_use = s[i].in_use /\ slot'[i].pid = s[i].pid
             /\ slot'[i].failed = s[i].failed
             /\ slot'[i].fd = IF s[i].fd = p THEN Dead ELSE s[i].fd
  BY DEF Orphaned, SlotType
<1>3. SlotHolders'
  <2> SUFFICES ASSUME NEW i \in Slots
               PROVE  /\ slot'[i].failed => slot'[i].fd = NoFd
                      /\ slot'[i].in_use =>
                           \A q \in Sub : slot'[i].pid = q =>
                             \/ spc'[q] \in Subscribed /\ i = mine[q]
                             \/ spc'[q] \in {"trapping", "dead"}
    BY DEF SlotHolders
  <2>1. slot'[i].failed => slot'[i].fd = NoFd
    BY <1>0, <1>2 DEF SlotInvariant, SlotHolders
  <2>2. ASSUME slot'[i].in_use, NEW q \in Sub, slot'[i].pid = q
        PROVE  \/ spc'[q] \in Subscribed /\ i = mine[q]
               \/ spc'[q] \in {"trapping", "dead"}
    <3>1. s[i] = slot[i] /\ slot[i].in_use /\ slot[i].pid = q
      BY <1>2, <2>2
    <3> QED
      BY <1>0, <1>1, <3>1 DEF SlotInvariant, SlotHolders
  <2> QED  BY <2>1, <2>2
<1>4. SubscriptionsKept'
  <2> SUFFICES ASSUME NEW q \in Sub
               PROVE  /\ spc'[q] \in {"bound", "claiming"} => path'[q] = "live"
                      /\ spc'[q] \in Subscribed =>
                           /\ OwnsSlot(q)'
                           /\ ctlName => ~slot'[mine[q]].failed
                           /\ magic \/ (ctlName /\ ppc = "goodbye")
                                => Reachable(q)'
    BY DEF SubscriptionsKept
  <2>1. CASE q = p
    BY <1>0, <1>1, <2>1
  <2>2. CASE q # p
    <3>1. spc'[q] = spc[q] /\ path'[q] = path[q]
      BY <1>0, <1>1, <2>2 DEF SocketGone
    <3>2. ASSUME spc[q] \in Subscribed
          PROVE  /\ OwnsSlot(q)'
                 /\ ctlName => ~slot'[mine[q]].failed
                 /\ magic \/ (ctlName /\ ppc = "goodbye") => Reachable(q)'
      <4>1. s[mine[q]] = slot[mine[q]]
        BY <1>0, <3>2, <2>2 DEF SlotInvariant, SubscriptionsKept, OwnsSlot
      <4> QED
        BY <1>0, <1>2, <2>2, <3>1, <3>2, <4>1
           DEF SlotInvariant, SubscriptionsKept, OwnsSlot, Reachable
    <3> QED  BY <3>1, <3>2 DEF SlotInvariant, SubscriptionsKept
  <2> QED  BY <2>1, <2>2
<1> QED  BY <1>3, <1>4 DEF SlotInvariant, DefunctOnTheWayOut

LEMMA SlotsReleaseSlots ==
  ASSUME TypeOK, SlotInvariant, NEW p \in Sub, ReleaseSlots(p)
  PROVE  SlotInvariant'
<1> DEFINE s == [i \in Slots |->
                   IF ctlName /\ slot[i].in_use /\ slot[i].pid = p
                   THEN [slot[i] EXCEPT !.in_use = FALSE, !.pid = NoProc]
                   ELSE slot[i]]
<1>0. slot \in [Slots -> SlotType]
  BY DEF TypeOK, ControlTyped
<1>1. s \in [Slots -> SlotType]
  BY <1>0, ReleasedTyped
<1>2. ASSUME NEW i \in Slots
      PROVE  /\ s[i].fd = slot[i].fd /\ s[i].failed = slot[i].failed
             /\ s[i] = slot[i] \/ (~s[i].in_use /\ slot[i].pid = p)
  BY <1>0 DEF SlotType
<1>3. /\ slot' = Orphaned(s, p) /\ SocketGone(p) /\ Goto(p, "dead")
      /\ spc[p] = "trapping" /\ UNCHANGED <<mine, ctlName, magic, ppc>>
  BY DEF ReleaseSlots, publ
<1>4. "dead" \in SubPcs /\ "dead" \notin Subscribed \union {"bound", "claiming"}
  BY DEF SubPcs, Subscribed
<1> HIDE DEF s
<1> QED  BY <1>1, <1>2, <1>3, <1>4, SlotsOrphaned

(* CloseSocket, NoFreeSlots and KillSubscriber close the socket alone. *)
LEMMA SlotsSocketGone ==
  ASSUME TypeOK, SlotInvariant, NEW p \in Sub,
         CloseSocket(p) \/ NoFreeSlots(p) \/ KillSubscriber(p)
  PROVE  SlotInvariant'
<1>0. slot \in [Slots -> SlotType] /\ mine \in [Sub -> Slots]
  BY DEF TypeOK, ControlTyped, SubscribersTyped
<1>1. CASE CloseSocket(p)
  <2>1. /\ slot' = Orphaned(slot, p) /\ SocketGone(p) /\ Goto(p, "closed")
        /\ spc[p] = "released" /\ UNCHANGED <<mine, ctlName, magic, ppc>>
    BY <1>1 DEF CloseSocket, publ
  <2>2. "closed" \in SubPcs /\ "closed" \notin Subscribed \union {"bound", "claiming"}
        /\ "released" \notin Subscribed
    BY DEF SubPcs, Subscribed
  <2> QED  BY <1>0, <2>1, <2>2, SlotsOrphaned
<1>2. CASE NoFreeSlots(p)
  <2>1. /\ UNCHANGED <<slot, mine, ctlName, magic, ppc>>
        /\ spc[p] = "claiming" /\ SocketGone(p)
        /\ spc' = [spc EXCEPT ![p] = "closed"]
    BY <1>2 DEF NoFreeSlots, Goto, publ
  <2>2. spc \in [Sub -> SubPcs] /\ path \in [Sub -> {"none", "live", "stale"}]
    BY DEF TypeOK, SubscribersTyped, SocketsTyped
  <2>3. SlotHolders'
    BY <2>1, <2>2 DEF SlotInvariant, SlotHolders, Subscribed
  <2>4. SubscriptionsKept'
    BY <2>1, <2>2
       DEF SlotInvariant, SubscriptionsKept, OwnsSlot, Reachable, SocketGone,
           Subscribed
  <2> QED  BY <2>1, <2>3, <2>4 DEF SlotInvariant, DefunctOnTheWayOut
<1>3. CASE KillSubscriber(p)
  <2>1. /\ slot' = Orphaned(slot, p) /\ SocketGone(p) /\ Goto(p, "dead")
        /\ UNCHANGED <<mine, ctlName, magic, ppc>>
    BY <1>3 DEF KillSubscriber, publ
  <2>2. "dead" \in SubPcs /\ "dead" \notin Subscribed \union {"bound", "claiming"}
    BY DEF SubPcs, Subscribed
  <2> QED  BY <1>0, <2>1, <2>2, SlotsOrphaned
<1> QED  BY <1>1, <1>2, <1>3

LEMMA SlotsReadHeader ==
  ASSUME TypeOK, SlotInvariant, NEW p \in Sub, ReadHeader(p)
  PROVE  SlotInvariant'
<1>0. /\ slot \in [Slots -> SlotType] /\ spc \in [Sub -> SubPcs]
      /\ mine \in [Sub -> Slots]
  BY DEF TypeOK, ControlTyped, SubscribersTyped
<1>1. /\ spc[p] = "reading" /\ spc' = [spc EXCEPT ![p] = "copying"]
      /\ UNCHANGED <<path, mine, ctlName, magic, ppc>>
      /\ slot' = slot \/ slot' = [slot EXCEPT ![mine[p]].seq = seq]
  BY DEF ReadHeader, Goto, publ, socks
<1>2. ASSUME NEW i \in Slots
      PROVE  /\ slot'[i].in_use = slot[i].in_use /\ slot'[i].pid = slot[i].pid
             /\ slot'[i].failed = slot[i].failed /\ slot'[i].fd = slot[i].fd
  BY <1>0, <1>1 DEF SlotType
<1>3. SlotHolders'
  BY <1>0, <1>1, <1>2 DEF SlotInvariant, SlotHolders, Subscribed
<1>4. SubscriptionsKept'
  BY <1>0, <1>1, <1>2
     DEF SlotInvariant, SubscriptionsKept, OwnsSlot, Reachable, Subscribed
<1> QED  BY <1>1, <1>3, <1>4 DEF SlotInvariant, DefunctOnTheWayOut

LEMMA SlotsSubscriber ==
  ASSUME TypeOK, SlotInvariant, NEW p \in Sub, SubscriberStep(p)
  PROVE  SlotInvariant'
<1>1. CASE OpenChannel(p) \/ LockToSubscribe(p) \/ ReadInfo(p)
  BY <1>1, SlotsMoved
     DEF OpenChannel, LockToSubscribe, ReadInfo, control, publ, socks, SubPcs,
         HasSocket, Subscribed, SlotInvariant, SubscriptionsKept
<1>2. CASE StartReceive(p) \/ StartPeek(p) \/ Flush(p) \/ Getch(p)
  BY <1>2, SlotsMoved
     DEF StartReceive, StartPeek, Flush, Getch, control, publ, socks, SubPcs,
         HasSocket, Subscribed
<1>3. CASE Attach(p) \/ CheckAgain(p) \/ LockToRead(p)
  BY <1>3, SlotsMoved
     DEF Attach, CheckAgain, LockToRead, control, publ, socks, SubPcs,
         HasSocket, Subscribed
<1>4. CASE NothingNew(p) \/ CopyPayload(p)
  BY <1>4, SlotsMoved
     DEF NothingNew, CopyPayload, control, publ, socks, SubPcs, HasSocket,
         Subscribed
<1>5. CASE Close(p) \/ LockToRelease(p) \/ SignalSubscriber(p)
  BY <1>5, SlotsMoved
     DEF Close, LockToRelease, SignalSubscriber, control, publ, socks, SubPcs,
         HasSocket, Subscribed
<1> QED
  BY <1>1, <1>2, <1>3, <1>4, <1>5, SlotsCreateSocket, SlotsClaimSlot,
     SlotsReleaseSlot, SlotsReleaseSlots, SlotsSocketGone, SlotsReadHeader
     DEF SubscriberStep, OpenStep, ReceiveStep, CloseStep, EndStep

(* purge() takes failed slots only, and while the channel has its name no  *)
(* live subscription has failed.                                           *)
LEMMA SlotsPurge ==
  ASSUME TypeOK, SlotInvariant, Purge
  PROVE  SlotInvariant'
<1>0. mine \in [Sub -> Slots]
  BY DEF TypeOK, SubscribersTyped
<1>1. /\ ctlName /\ UNCHANGED <<path, spc, mine, ctlName, magic, ppc>>
      /\ slot' = [i \in Slots |-> IF Purgeable(i) THEN EmptySlot ELSE slot[i]]
  BY DEF Purge, publ, subs, socks
<1>2. SlotHolders'
  BY <1>1 DEF SlotInvariant, SlotHolders, EmptySlot
<1>3. ASSUME NEW p \in Sub, spc[p] \in Subscribed
      PROVE  slot'[mine[p]] = slot[mine[p]]
  <2>1. ~slot[mine[p]].failed
    BY <1>1, <1>3 DEF SlotInvariant, SubscriptionsKept
  <2> QED  BY <1>0, <1>1, <2>1 DEF Purgeable
<1>4. SubscriptionsKept'
  BY <1>1, <1>3 DEF SlotInvariant, SubscriptionsKept, OwnsSlot, Reachable
<1> QED  BY <1>1, <1>2, <1>4 DEF SlotInvariant, DefunctOnTheWayOut

(* If the publisher may use every subscriber's socket path, the slots, the *)
(* paths and the subscriptions agree, through every opening, closing,      *)
(* purge, kill and signal.                                                 *)
THEOREM SlotsAgree ==
  ASSUME Denied = {}
  PROVE  Spec => []SlotInvariant
<1>1. TypeOK /\ SlotInvariant /\ [Next]_vars => SlotInvariant'
  <2> SUFFICES ASSUME TypeOK, SlotInvariant, [Next]_vars PROVE SlotInvariant'
    OBVIOUS
  <2>1. CASE PublisherStep
    BY <2>1, SlotsPublisher
  <2>2. ASSUME NEW p \in Sub, SubscriberStep(p) PROVE SlotInvariant'
    BY <2>2, SlotsSubscriber
  <2>3. CASE Purge
    BY <2>3, SlotsPurge
  <2>4. CASE UNCHANGED vars
    BY <2>4, SlotsUntouched
       DEF vars, control, publ, subs, socks, SlotInvariant, DefunctOnTheWayOut
  <2> QED  BY <2>1, <2>2, <2>3, <2>4 DEF Next
<1> QED  BY <1>1, SlotInit, TypeCorrect, PTL DEF Spec

-----------------------------------------------------------------------------
(* The channel implements LatestValue.  The published message is the one   *)
(* in the data segment, and a slot that does not carry the current         *)
(* sequence number is that of a subscription that has not had the current  *)
(* message.                                                                *)

MessagesCounted == dpay = pub /\ (ppc = "copy" => dhdr = pub + 1)

SeenOnce(p) ==
  /\ got[p].body <= pub
  /\ pub # 0 /\ dhdr = dpay /\ got[p].body = pub => slot[mine[p]].seq = seq
  /\ spc[p] = "copying" /\ ~peeking[p] =>
       /\ pub = 0 \/ got[p].body < pub
       /\ slot[mine[p]].seq = seq

DeliveredOnce == \A p \in Sub : spc[p] \in Subscribed => SeenOnce(p)

DeliveredWhole == \A p \in Sub : got[p] = Promise!Message(got[p].body)

PromiseInvariant == MessagesCounted /\ DeliveredOnce /\ DeliveredWhole

(* A subscriber leaves the publisher, the message and its number alone. *)
LEMMA SubscriberSpares ==
  ASSUME NEW p \in Sub, SubscriberStep(p)
  PROVE  UNCHANGED <<magic, seq, data, publ>>
BY DEF SubscriberStep, OpenStep, ReceiveStep, CloseStep,
       EndStep, OpenChannel, CreateSocket, LockToSubscribe, ClaimSlot,
       NoFreeSlots, ReadInfo, StartReceive, StartPeek, Flush, Getch, Attach,
       CheckAgain, LockToRead, ReadHeader, NothingNew, CopyPayload, Close,
       LockToRelease, ReleaseSlot, CloseSocket, KillSubscriber,
       SignalSubscriber, ReleaseSlots, control

(* The other subscribers stay where they are, and so does what they have.  *)
LEMMA SubscriberAlone ==
  ASSUME TypeOK, NEW p \in Sub, SubscriberStep(p), NEW q \in Sub, q # p
  PROVE  /\ spc'[q] = spc[q] /\ mine'[q] = mine[q]
         /\ got'[q] = got[q] /\ (peeking'[q] <=> peeking[q])
<1>0. /\ spc \in [Sub -> SubPcs] /\ mine \in [Sub -> Slots]
      /\ got \in [Sub -> [head : Nat, body : Nat]]
      /\ peeking \in [Sub -> BOOLEAN]
  BY DEF TypeOK, FlagsTyped, SubscribersTyped
<1> USE <1>0 DEF Goto
<1>1. spc'[q] = spc[q]
  BY DEF SubscriberStep, OpenStep, ReceiveStep, CloseStep,
       EndStep, OpenChannel, CreateSocket, LockToSubscribe, ClaimSlot,
       NoFreeSlots, ReadInfo, StartReceive, StartPeek, Flush, Getch, Attach,
       CheckAgain, LockToRead, ReadHeader, NothingNew, CopyPayload, Close,
       LockToRelease, ReleaseSlot, CloseSocket, KillSubscriber,
       SignalSubscriber, ReleaseSlots
<1>2. mine'[q] = mine[q] /\ got'[q] = got[q]
  BY DEF SubscriberStep, OpenStep, ReceiveStep, CloseStep,
       EndStep, OpenChannel, CreateSocket, LockToSubscribe, ClaimSlot,
       NoFreeSlots, ReadInfo, StartReceive, StartPeek, Flush, Getch, Attach,
       CheckAgain, LockToRead, ReadHeader, NothingNew, CopyPayload, Close,
       LockToRelease, ReleaseSlot, CloseSocket, KillSubscriber,
       SignalSubscriber, ReleaseSlots
<1>3. peeking'[q] <=> peeking[q]
  BY DEF SubscriberStep, OpenStep, ReceiveStep, CloseStep,
       EndStep, OpenChannel, CreateSocket, LockToSubscribe, ClaimSlot,
       NoFreeSlots, ReadInfo, StartReceive, StartPeek, Flush, Getch, Attach,
       CheckAgain, LockToRead, ReadHeader, NothingNew, CopyPayload, Close,
       LockToRelease, ReleaseSlot, CloseSocket, KillSubscriber,
       SignalSubscriber, ReleaseSlots
<1> QED  BY <1>1, <1>2, <1>3

LEMMA CountedKept ==
  ASSUME TypeOK, MessagesCounted, [Next]_vars
  PROVE  MessagesCounted'
<1>0. pub \in Nat
  BY DEF TypeOK, PublisherTyped
<1>1. CASE PublisherStep
  BY <1>0, <1>1
     DEF PublisherStep, StartPublish, LockToPublish, WriteHeader, WritePayload,
         Notify, EndPublish, Destruct, Terminate, Deactivate, CloseAllSlots,
         UnlinkData, UnlinkControl, KillPublisher, data, MessagesCounted
<1>2. ASSUME NEW p \in Sub, SubscriberStep(p) PROVE MessagesCounted'
  BY <1>2, SubscriberSpares DEF MessagesCounted, data, publ
<1>3. CASE Purge \/ UNCHANGED vars
  BY <1>3 DEF Purge, vars, data, publ, MessagesCounted
<1> QED  BY <1>1, <1>2, <1>3 DEF Next

(* Nobody but its own subscription marks a slot that a subscription holds. *)
LEMMA MarkKept ==
  ASSUME TypeOK, SlotInvariant, [Next]_vars, NEW p \in Sub,
         spc[p] \in Subscribed, ~ReadHeader(p)
  PROVE  mine'[p] = mine[p] /\ slot'[mine[p]].seq = slot[mine[p]].seq
<1>0. /\ slot \in [Slots -> SlotType] /\ mine \in [Sub -> Slots]
      /\ mine[p] \in Slots
      /\ slot[mine[p]].in_use /\ slot[mine[p]].pid = p
      /\ ctlName => ~slot[mine[p]].failed
      /\ \A i \in Slots : slot[i].failed => slot[i].fd = NoFd
  BY DEF TypeOK, ControlTyped, SubscribersTyped, SlotInvariant,
         SubscriptionsKept, OwnsSlot, SlotHolders
<1>1. CASE slot' = slot /\ mine' = mine
  BY <1>1
<1>2. CASE Notify
  <2>1. mine' = mine
    BY <1>2 DEF Notify, subs
  <2>2. ASSUME NEW i \in Slots,
               NotifyOne(i) \/ NotifyFails(i) \/ TidySlot(i) \/ SkipSlot(i)
        PROVE  slot'[mine[p]].seq = slot[mine[p]].seq
    <3>1. CASE TidySlot(i)
      <4>1. i # mine[p]
        BY <1>0, <3>1 DEF TidySlot
      <4> QED  BY <1>0, <3>1, <4>1 DEF TidySlot
    <3>2. CASE NotifyOne(i) \/ NotifyFails(i)
      <4>1. \/ \E peer : slot' = [slot EXCEPT ![i].fd = peer]
            \/ slot' = [slot EXCEPT ![i].failed = TRUE, ![i].fd = NoFd]
        BY <3>2 DEF NotifyOne, NotifyFails
      <4>2. ASSUME NEW peer, slot' = [slot EXCEPT ![i].fd = peer]
            PROVE  slot'[mine[p]].seq = slot[mine[p]].seq
        BY <1>0, <4>2 DEF SlotType
      <4>3. CASE slot' = [slot EXCEPT ![i].failed = TRUE, ![i].fd = NoFd]
        BY <1>0, <4>3 DEF SlotType
      <4> QED  BY <4>1, <4>2, <4>3
    <3> QED  BY <2>2, <3>1, <3>2 DEF SkipSlot
  <2>3. pi \in Slots
    BY <1>2, ConstantsAssumption DEF Notify, TypeOK, PublisherTyped, Slots
  <2> QED  BY <1>2, <2>1, <2>2, <2>3 DEF Notify
<1>3. CASE CloseAllSlots
  BY <1>0, <1>3 DEF CloseAllSlots, subs, SlotType
<1>4. ASSUME NEW q \in Sub, ClaimSlot(q)
      PROVE  mine'[p] = mine[p] /\ slot'[mine[p]].seq = slot[mine[p]].seq
  <2>1. q # p
    BY <1>4 DEF ClaimSlot, Subscribed
  <2>2. PICK i \in Slots : /\ ~slot[i].in_use
                          /\ slot' = [slot EXCEPT ![i] = Claimed(q)]
                          /\ mine' = [mine EXCEPT ![q] = i]
    BY <1>4 DEF ClaimSlot, IsFirstFree, FreeSlots
  <2> QED  BY <1>0, <2>1, <2>2
<1>5. ASSUME NEW q \in Sub, ReadHeader(q)
      PROVE  mine'[p] = mine[p] /\ slot'[mine[p]].seq = slot[mine[p]].seq
  <2>1. q # p /\ mine' = mine /\ spc[q] = "reading"
    BY <1>5 DEF ReadHeader
  <2>2. mine[q] # mine[p]
    BY <1>0, <2>1 DEF SlotInvariant, SubscriptionsKept, OwnsSlot, Subscribed
  <2> QED  BY <1>0, <1>5, <2>1, <2>2 DEF ReadHeader
<1>6. ASSUME NEW q \in Sub, ReleaseSlot(q)
      PROVE  mine'[p] = mine[p] /\ slot'[mine[p]].seq = slot[mine[p]].seq
  BY <1>0, <1>6 DEF ReleaseSlot, SlotType
<1>7. ASSUME NEW q \in Sub, CloseSocket(q) \/ KillSubscriber(q)
      PROVE  mine'[p] = mine[p] /\ slot'[mine[p]].seq = slot[mine[p]].seq
  BY <1>0, <1>7 DEF CloseSocket, KillSubscriber, Orphaned, SlotType
<1>8. ASSUME NEW q \in Sub, ReleaseSlots(q)
      PROVE  mine'[p] = mine[p] /\ slot'[mine[p]].seq = slot[mine[p]].seq
  <2> DEFINE t == [i \in Slots |->
                     IF ctlName /\ slot[i].in_use /\ slot[i].pid = q
                     THEN [slot[i] EXCEPT !.in_use = FALSE, !.pid = NoProc]
                     ELSE slot[i]]
  <2>1. slot' = Orphaned(t, q) /\ mine' = mine
    BY <1>8 DEF ReleaseSlots
  <2>2. t \in [Slots -> SlotType] /\ t[mine[p]].seq = slot[mine[p]].seq
    <3>1. slot \in [Slots -> SlotType] /\ mine[p] \in Slots
      BY <1>0
    <3>2. t \in [Slots -> SlotType]
      BY <3>1, ReleasedTyped
    <3>3. t[mine[p]] = IF ctlName /\ slot[mine[p]].in_use /\ slot[mine[p]].pid = q
                       THEN [slot[mine[p]] EXCEPT !.in_use = FALSE, !.pid = NoProc]
                       ELSE slot[mine[p]]
      BY <3>1
    <3>4. t[mine[p]].seq = slot[mine[p]].seq
      <4> HIDE DEF t
      <4> QED  BY <3>1, <3>3 DEF SlotType
    <3> QED  BY <3>2, <3>4
  <2> HIDE DEF t
  <2> QED  BY <1>0, <2>1, <2>2 DEF Orphaned, SlotType
<1>9. CASE Purge
  <2>1. ~Purgeable(mine[p])
    BY <1>0, <1>9 DEF Purge, Purgeable
  <2> QED  BY <1>0, <1>9, <2>1 DEF Purge, subs
<1>10. PublisherStep => (slot' = slot /\ mine' = mine) \/ Notify \/ CloseAllSlots
  BY DEF PublisherStep, StartPublish, LockToPublish, WriteHeader, WritePayload,
         EndPublish, Destruct, Terminate, Deactivate,
         UnlinkData, UnlinkControl, KillPublisher, control, subs
<1>11. ASSUME NEW q \in Sub, SubscriberStep(q)
       PROVE  \/ slot' = slot /\ mine' = mine
              \/ ClaimSlot(q) \/ ReadHeader(q) \/ ReleaseSlot(q)
              \/ CloseSocket(q) \/ KillSubscriber(q) \/ ReleaseSlots(q)
  BY <1>11 DEF SubscriberStep, OpenStep, ReceiveStep, CloseStep, EndStep,
         OpenChannel, CreateSocket, LockToSubscribe, NoFreeSlots, ReadInfo,
         StartReceive, StartPeek, Flush, Getch, Attach, CheckAgain, LockToRead,
         NothingNew, CopyPayload, Close, LockToRelease, SignalSubscriber,
         control
<1>12. UNCHANGED vars => slot' = slot /\ mine' = mine
  BY DEF vars, control, subs
<1> QED
  BY <1>1, <1>2, <1>3, <1>4, <1>5, <1>6, <1>7, <1>8, <1>9, <1>10, <1>11, <1>12
     DEF Next

LEMMA DeliveredInit == Init => PromiseInvariant
<1> SUFFICES ASSUME Init PROVE PromiseInvariant
  OBVIOUS
<1>1. \A p \in Sub : got[p] = [head |-> 0, body |-> 0] /\ spc[p] = "closed"
  BY DEF Init, NothingYet
<1>2. MessagesCounted
  BY DEF Init, MessagesCounted
<1> QED
  BY <1>1, <1>2 DEF PromiseInvariant, DeliveredOnce, DeliveredWhole, Subscribed,
                    Promise!Message

(* The publisher moves on to a message that nobody has had, and does so    *)
(* while nobody is copying.                                                *)
LEMMA SeenPublisher ==
  ASSUME TypeOK, ReadInvariant, SlotInvariant, MessagesCounted, PublisherStep,
         NEW p \in Sub, spc[p] \in Subscribed, SeenOnce(p)
  PROVE  SeenOnce(p)'
<1>0. pub \in Nat /\ got[p].body \in Nat /\ Pub # p
  BY ConstantsAssumption DEF TypeOK, PublisherTyped, SubscribersTyped
<1>1. UNCHANGED <<spc, mine, peeking, got>>
  BY DEF PublisherStep, StartPublish, LockToPublish, WriteHeader, WritePayload,
         Notify, EndPublish, Destruct, Terminate, Deactivate, CloseAllSlots,
         UnlinkData, UnlinkControl, KillPublisher, subs
<1>2. ~ReadHeader(p)
  <2>1. ReadHeader(p) => spc[p] = "reading" /\ spc' = [spc EXCEPT ![p] = "copying"]
    BY DEF ReadHeader, Goto
  <2>2. spc \in [Sub -> SubPcs]
    BY DEF TypeOK, SubscribersTyped
  <2> QED  BY <1>1, <2>1, <2>2
<1>3. slot'[mine'[p]].seq = slot[mine[p]].seq
  BY <1>2, MarkKept DEF Next
<1>4. CASE WriteHeader
  <2>1. dhdr' # dpay' /\ pub' = pub
    BY <1>0, <1>4 DEF WriteHeader, MessagesCounted
  <2>2. spc[p] # "copying"
    BY <1>0, <1>4 DEF WriteHeader, ReadInvariant, LocksHeld, PubLocked, SubLocked
  <2> QED  BY <1>1, <2>1, <2>2 DEF SeenOnce
<1>5. CASE WritePayload
  <2>1. pub' = pub + 1 /\ seq' = seq
    BY <1>5 DEF WritePayload, MessagesCounted, control
  <2>2. got'[p].body <= pub' /\ got'[p].body < pub'
    BY <1>0, <1>1, <2>1 DEF SeenOnce
  <2>3. got'[p].body # pub'
    BY <1>0, <1>1, <2>2, <2>1
  <2>4. spc[p] = "copying" /\ ~peeking[p] => slot'[mine'[p]].seq = seq'
    BY <1>3, <2>1 DEF SeenOnce
  <2> QED  BY <1>1, <2>2, <2>3, <2>4 DEF SeenOnce
<1>6. CASE ~WriteHeader /\ ~WritePayload
  <2>1. UNCHANGED <<seq, dhdr, dpay, pub>>
    BY <1>6
       DEF PublisherStep, StartPublish, LockToPublish,
           Notify, EndPublish, Destruct, Terminate, Deactivate, CloseAllSlots,
           UnlinkData, UnlinkControl, KillPublisher, control, data
  <2> QED  BY <1>1, <1>3, <2>1 DEF SeenOnce
<1> QED  BY <1>4, <1>5, <1>6

(* A subscription is given a message only if it has not had it. *)
LEMMA SeenSubscriber ==
  ASSUME TypeOK, ReadInvariant, SlotInvariant, SeqNeverZero, MessagesCounted,
         NEW p \in Sub, SubscriberStep(p), spc[p] \in Subscribed => SeenOnce(p),
         spc'[p] \in Subscribed
  PROVE  SeenOnce(p)'
<1>0. /\ pub \in Nat /\ got[p].body \in Nat /\ dpay \in Nat
      /\ spc \in [Sub -> SubPcs] /\ got \in [Sub -> [head : Nat, body : Nat]]
      /\ slot \in [Slots -> SlotType] /\ mine \in [Sub -> Slots]
  BY DEF TypeOK, DataTyped, ControlTyped, PublisherTyped, SubscribersTyped
<1>1. UNCHANGED <<seq, dhdr, dpay, pub>>
  BY SubscriberSpares DEF data, publ
<1>2. CASE ClaimSlot(p)
  <2>1. got'[p].body = 0 /\ spc'[p] = "claimed"
    BY <1>0, <1>2 DEF ClaimSlot, NothingYet, Goto
  <2> QED  BY <1>0, <1>1, <2>1 DEF SeenOnce
<1>3. CASE ReadHeader(p)
  <2>1. /\ spc[p] = "reading" /\ spc'[p] = "copying" /\ UNCHANGED <<got, mine, peeking>>
        /\ SeenOnce(p)
    BY <1>0, <1>3 DEF ReadHeader, Goto, Subscribed
  <2>2. dhdr = dpay
    BY <2>1, ConstantsAssumption
       DEF ReadInvariant, LocksHeld, MessageWhole, SubLocked
  <2>3. CASE peeking[p]
    <3>1. slot' = slot
      BY <1>3, <2>3 DEF ReadHeader
    <3> QED  BY <1>1, <2>1, <2>3, <3>1 DEF SeenOnce
  <2>4. CASE ~peeking[p]
    <3>1. slot[mine[p]].seq # seq
      BY <1>3, <2>4 DEF ReadHeader, IsNews, SeqNeverZero
    <3>2. slot'[mine[p]].seq = seq
      BY <1>0, <1>3, <2>4 DEF ReadHeader, SlotType
    <3>3. pub = 0 \/ got[p].body < pub
      BY <1>0, <2>1, <2>2, <3>1 DEF SeenOnce
    <3> QED  BY <1>1, <2>1, <3>2, <3>3 DEF SeenOnce
  <2> QED  BY <2>3, <2>4
<1>4. ASSUME ~ClaimSlot(p), ~ReadHeader(p) PROVE SeenOnce(p)'
  <2>1. spc[p] \in Subscribed /\ spc'[p] # "copying"
    BY <1>0, <1>4
       DEF SubscriberStep, OpenStep, ReceiveStep, CloseStep,
       EndStep, OpenChannel, CreateSocket, LockToSubscribe,
       NoFreeSlots, ReadInfo, StartReceive, StartPeek, Flush, Getch, Attach,
       CheckAgain, LockToRead, NothingNew, CopyPayload, Close,
       LockToRelease, ReleaseSlot, CloseSocket, KillSubscriber,
       SignalSubscriber, ReleaseSlots, Goto, Subscribed
  <2>2. slot'[mine'[p]].seq = slot[mine[p]].seq
    BY <1>4, <2>1, MarkKept DEF Next
  <2>3. CASE got'[p] = got[p]
    BY <1>1, <2>1, <2>2, <2>3 DEF SeenOnce
  <2>4. CASE CopyPayload(p) /\ ~peeking[p]
    <3>1. got'[p].body = pub
      BY <1>0, <2>4 DEF CopyPayload, MessagesCounted
    <3>2. slot[mine[p]].seq = seq
      BY <2>1, <2>4 DEF CopyPayload, SeenOnce
    <3> QED  BY <1>0, <1>1, <2>1, <2>2, <3>1, <3>2 DEF SeenOnce
  <2>5. got' = got \/ (CopyPayload(p) /\ ~peeking[p])
    BY <1>4
       DEF SubscriberStep, OpenStep, ReceiveStep, CloseStep,
       EndStep, OpenChannel, CreateSocket, LockToSubscribe,
       NoFreeSlots, ReadInfo, StartReceive, StartPeek, Flush, Getch, Attach,
       CheckAgain, LockToRead, NothingNew, CopyPayload, Close,
       LockToRelease, ReleaseSlot, CloseSocket, KillSubscriber,
       SignalSubscriber, ReleaseSlots
  <2> QED  BY <2>3, <2>4, <2>5
<1> QED  BY <1>2, <1>3, <1>4

(* The whole messages that subscriptions have been given stay whole. *)
LEMMA DeliveredKept ==
  ASSUME TypeOK, ReadInvariant, SlotInvariant, SeqNeverZero, PromiseInvariant,
         [Next]_vars
  PROVE  PromiseInvariant'
<1>1. MessagesCounted'
  BY CountedKept DEF PromiseInvariant
<1>2. DeliveredOnce'
  <2> SUFFICES ASSUME NEW p \in Sub, spc'[p] \in Subscribed PROVE SeenOnce(p)'
    BY DEF DeliveredOnce
  <2>1. CASE PublisherStep
    <3>1. spc' = spc
      BY <2>1
         DEF PublisherStep, StartPublish, LockToPublish, WriteHeader,
             WritePayload, Notify, EndPublish, Destruct, Terminate, Deactivate,
             CloseAllSlots, UnlinkData, UnlinkControl, KillPublisher, subs
    <3> QED  BY <2>1, <3>1, SeenPublisher DEF PromiseInvariant, DeliveredOnce
  <2>2. CASE SubscriberStep(p)
    BY <2>2, SeenSubscriber DEF PromiseInvariant, DeliveredOnce
  <2>3. ASSUME NEW q \in Sub, q # p, SubscriberStep(q) PROVE SeenOnce(p)'
    <3>1. /\ spc'[p] = spc[p] /\ mine'[p] = mine[p] /\ got'[p] = got[p]
          /\ (peeking'[p] <=> peeking[p])
      BY <2>3, SubscriberAlone
    <3>2. UNCHANGED <<seq, dhdr, dpay, pub>>
      BY <2>3, SubscriberSpares DEF data, publ
    <3>3. ~ReadHeader(p)
      BY <3>1 DEF ReadHeader, Goto, TypeOK, SubscribersTyped
    <3>4. slot'[mine'[p]].seq = slot[mine[p]].seq
      BY <3>1, <3>3, MarkKept
    <3> QED  BY <3>1, <3>2, <3>4 DEF PromiseInvariant, DeliveredOnce, SeenOnce
  <2>4. CASE Purge \/ UNCHANGED vars
    <3>1. UNCHANGED <<seq, dhdr, dpay, pub, spc, mine, got, peeking>>
      BY <2>4 DEF Purge, vars, control, data, publ, subs
    <3>2. ~ReadHeader(p)
      BY <3>1 DEF ReadHeader, Goto, TypeOK, SubscribersTyped
    <3>3. slot'[mine'[p]].seq = slot[mine[p]].seq
      BY <3>1, <3>2, MarkKept
    <3> QED  BY <3>1, <3>3 DEF PromiseInvariant, DeliveredOnce, SeenOnce
  <2> QED  BY <2>1, <2>2, <2>3, <2>4 DEF Next
<1>3. DeliveredWhole'
  <2> SUFFICES ASSUME NEW p \in Sub
               PROVE  got'[p] = Promise!Message(got'[p].body)
    BY DEF DeliveredWhole
  <2>1. CASE got'[p] = got[p]
    BY <2>1 DEF PromiseInvariant, DeliveredWhole
  <2>2. ASSUME SubscriberStep(p), got'[p] # got[p]
        PROVE  got'[p] = Promise!Message(got'[p].body)
    <3>1. got' = [got EXCEPT ![p] = NothingYet]
          \/ (CopyPayload(p) /\ got' = [got EXCEPT ![p] = [head |-> hdr[p], body |-> dpay]])
      BY <2>2
         DEF SubscriberStep, OpenStep, ReceiveStep, CloseStep, EndStep,
             OpenChannel, CreateSocket, LockToSubscribe, ClaimSlot,
             NoFreeSlots, ReadInfo, StartReceive, StartPeek, Flush, Getch,
             Attach, CheckAgain, LockToRead, ReadHeader, NothingNew,
             CopyPayload, Close, LockToRelease, ReleaseSlot, CloseSocket,
             KillSubscriber, SignalSubscriber, ReleaseSlots
    <3>2. CopyPayload(p) => dpay = hdr[p]
      BY DEF CopyPayload, ReadInvariant, NoTornRead
    <3>3. got \in [Sub -> [head : Nat, body : Nat]]
      BY DEF TypeOK, SubscribersTyped
    <3> QED  BY <3>1, <3>2, <3>3 DEF NothingYet, Promise!Message
  <2>3. got'[p] # got[p] => SubscriberStep(p)
    <3>1. PublisherStep \/ Purge \/ UNCHANGED vars => got' = got
      BY DEF PublisherStep, StartPublish, LockToPublish, WriteHeader,
             WritePayload, Notify, EndPublish, Destruct, Terminate, Deactivate,
             CloseAllSlots, UnlinkData, UnlinkControl, KillPublisher, Purge,
             vars, subs
    <3>2. ASSUME NEW q \in Sub, q # p, SubscriberStep(q) PROVE got'[p] = got[p]
      BY <3>2, SubscriberAlone
    <3> QED  BY <3>1, <3>2 DEF Next
  <2> QED  BY <2>1, <2>2, <2>3
<1> QED  BY <1>1, <1>2, <1>3 DEF PromiseInvariant

(* Every step of the channel is a step of LatestValue, or none of its.     *)
LEMMA PromiseStep ==
  ASSUME TypeOK, ReadInvariant, SlotInvariant, PromiseInvariant, [Next]_vars
  PROVE  [Promise!LVNext]_(Promise!lvVars)
<1> DEFINE joined == {p \in Sub : spc[p] \in Subscribed}
<1>0. /\ pub \in Nat /\ spc \in [Sub -> SubPcs]
      /\ got \in [Sub -> [head : Nat, body : Nat]]
  BY DEF TypeOK, PublisherTyped, SubscribersTyped
<1>1. CASE PublisherStep
  <2>1. UNCHANGED <<joined, got>>
    BY <1>1
       DEF PublisherStep, StartPublish, LockToPublish, WriteHeader,
           WritePayload, Notify, EndPublish, Destruct, Terminate, Deactivate,
           CloseAllSlots, UnlinkData, UnlinkControl, KillPublisher, subs
  <2>2. CASE WritePayload
    <3>1. pub' = pub + 1 /\ magic' = magic /\ magic
      BY <2>2 DEF WritePayload, control, PromiseInvariant, MessagesCounted,
                  SlotInvariant, DefunctOnTheWayOut
    <3> QED  BY <2>1, <3>1 DEF Promise!LVNext, Promise!Publish
  <2>3. CASE Deactivate
    <3>1. pub' = pub /\ ~magic'
      BY <2>3 DEF Deactivate
    <3>2. CASE magic
      BY <2>1, <3>1, <3>2 DEF Promise!LVNext, Promise!Retire
    <3>3. CASE ~magic
      BY <2>1, <3>1, <3>3 DEF Promise!lvVars
    <3> QED  BY <3>2, <3>3
  <2>4. CASE ~WritePayload /\ ~Deactivate
    <3>1. pub' = pub /\ magic' = magic
      BY <1>1, <2>4
         DEF PublisherStep, StartPublish, LockToPublish, WriteHeader,
             Notify, EndPublish, Destruct, Terminate, CloseAllSlots,
             UnlinkData, UnlinkControl, KillPublisher, control
    <3> QED  BY <2>1, <3>1 DEF Promise!lvVars
  <2> QED  BY <2>2, <2>3, <2>4
<1>2. ASSUME NEW p \in Sub, SubscriberStep(p)
      PROVE  [Promise!LVNext]_(Promise!lvVars)
  <2>1. pub' = pub /\ magic' = magic
    BY <1>2, SubscriberSpares DEF publ
  <2>2. \A q \in Sub : q # p => spc'[q] = spc[q]
    BY <1>2, SubscriberAlone
  <2>3. CASE ClaimSlot(p)
    <3>1. /\ spc[p] \notin Subscribed /\ spc'[p] \in Subscribed
          /\ got' = [got EXCEPT ![p] = Promise!Message(0)]
      BY <1>0, <2>3 DEF ClaimSlot, Goto, Subscribed, NothingYet, Promise!Message
    <3>2. joined' = joined \union {p}
      BY <2>2, <3>1
    <3> QED  BY <2>1, <3>1, <3>2 DEF Promise!LVNext, Promise!Join
  <2>4. CASE CopyPayload(p) /\ ~peeking[p]
    <3>1. /\ spc[p] \in Subscribed /\ spc'[p] \in Subscribed
          /\ got' = [got EXCEPT ![p] = [head |-> hdr[p], body |-> dpay]]
      BY <1>0, <2>4 DEF CopyPayload, Goto, Subscribed
    <3>2. hdr[p] = pub /\ dpay = pub
      BY <2>4 DEF CopyPayload, ReadInvariant, NoTornRead, PromiseInvariant,
                  MessagesCounted
    <3>3. joined' = joined
      BY <2>2, <3>1
    <3>4. pub = 0 \/ got[p].body < pub
      BY <2>4, <3>1 DEF CopyPayload, PromiseInvariant, DeliveredOnce, SeenOnce
    <3>5. CASE got[p].body < pub
      BY <2>1, <3>1, <3>2, <3>3, <3>5
         DEF Promise!LVNext, Promise!Deliver, Promise!Message
    <3>6. CASE pub = 0
      <4>1. got[p].body = 0
        BY <1>0, <3>1, <3>6 DEF PromiseInvariant, DeliveredOnce, SeenOnce
      <4>2. got[p] = [head |-> 0, body |-> 0]
        BY <4>1 DEF PromiseInvariant, DeliveredWhole, Promise!Message
      <4>3. got' = got
        BY <1>0, <3>1, <3>2, <3>6, <4>2
      <4> QED  BY <2>1, <3>3, <4>3 DEF Promise!lvVars
    <3> QED  BY <3>4, <3>5, <3>6
  <2>5. CASE ~ClaimSlot(p) /\ ~(CopyPayload(p) /\ ~peeking[p])
    <3>1. got' = got
      BY <1>2, <2>5
         DEF SubscriberStep, OpenStep, ReceiveStep, CloseStep, EndStep,
             OpenChannel, CreateSocket, LockToSubscribe,
             NoFreeSlots, ReadInfo, StartReceive, StartPeek, Flush, Getch,
             Attach, CheckAgain, LockToRead, ReadHeader, NothingNew,
             CopyPayload, Close, LockToRelease, ReleaseSlot, CloseSocket,
             KillSubscriber, SignalSubscriber, ReleaseSlots
    <3>2. spc'[p] \in Subscribed => spc[p] \in Subscribed
      BY <1>0, <1>2, <2>5
         DEF SubscriberStep, OpenStep, ReceiveStep, CloseStep, EndStep,
             OpenChannel, CreateSocket, LockToSubscribe,
             NoFreeSlots, ReadInfo, StartReceive, StartPeek, Flush, Getch,
             Attach, CheckAgain, LockToRead, ReadHeader, NothingNew,
             CopyPayload, Close, LockToRelease, ReleaseSlot, CloseSocket,
             KillSubscriber, SignalSubscriber, ReleaseSlots, Goto, Subscribed
    <3>3. CASE spc'[p] \in Subscribed <=> spc[p] \in Subscribed
      <4>1. joined' = joined
        BY <2>2, <3>3
      <4> QED  BY <2>1, <3>1, <4>1 DEF Promise!lvVars
    <3>4. CASE spc'[p] \notin Subscribed /\ spc[p] \in Subscribed
      <4>1. joined' = joined \ {p} /\ p \in joined
        BY <2>2, <3>4
      <4> QED  BY <2>1, <3>1, <4>1 DEF Promise!LVNext, Promise!Leave
    <3> QED  BY <3>2, <3>3, <3>4
  <2> QED  BY <2>3, <2>4, <2>5
<1>3. CASE Purge \/ UNCHANGED vars
  BY <1>3 DEF Purge, vars, control, publ, subs, Promise!lvVars
<1> QED  BY <1>1, <1>2, <1>3 DEF Next

(* The channel is a broadcast in which a newer message overwrites an older *)
(* one: a subscription is given the message that is current, whole, and    *)
(* never the same one twice, also when the sequence number wraps, a slot   *)
(* changes hands or a process is killed.                                   *)
THEOREM PromiseKept ==
  ASSUME Denied = {}
  PROVE  Spec => ImplementsLatestValue
<1>1. Init => Promise!LVInit
  <2> SUFFICES ASSUME Init PROVE Promise!LVInit
    OBVIOUS
  <2>1. {p \in Sub : spc[p] \in Subscribed} = {}
    BY DEF Init, Subscribed
  <2>2. got = [m \in Sub |-> Promise!Message(0)]
    BY DEF Init, NothingYet, Promise!Message
  <2> QED  BY <2>1, <2>2 DEF Init, Promise!LVInit
<1>2. TypeOK /\ ReadInvariant /\ SlotInvariant /\ SeqNeverZero
        /\ PromiseInvariant /\ [Next]_vars => PromiseInvariant'
  BY DeliveredKept
<1>3. TypeOK /\ ReadInvariant /\ SlotInvariant /\ PromiseInvariant
        /\ [Next]_vars => [Promise!LVNext]_(Promise!lvVars)
  BY PromiseStep
<1> QED
  BY <1>1, <1>2, <1>3, DeliveredInit, TypeCorrect, ReadsLocked, SlotsAgree,
     SeqNotZero, PTL
     DEF Spec, ImplementsLatestValue, Promise!LVSpec

-----------------------------------------------------------------------------
(* No message is returned twice.  Before the first message nobody is       *)
(* poked, but for the goodbye, and nobody who waits for a poke gets as far *)
(* as reading: so who reads, and does not peek, reads a message.           *)

Unpoked(p) ==
  /\ queue[p] > 0 => ~magic
  /\ spc[p] \in {"attach", "check"} => peeking[p] \/ ~magic
  /\ spc[p] \in {"wantRead", "reading", "copying"} => peeking[p]

FirstPoke ==
  /\ ppc = "notify" => pub # 0
  /\ pub = 0 => \A p \in Sub : Unpoked(p)

LEMMA PokeByPublisher ==
  ASSUME TypeOK, SlotInvariant, MessagesCounted, FirstPoke, PublisherStep
  PROVE  FirstPoke'
<1>0. /\ pub \in Nat /\ ppc \in PubPcs
      /\ queue \in [Sub -> 0 .. Backlog] /\ peeking \in [Sub -> BOOLEAN]
  BY DEF TypeOK, FlagsTyped, PublisherTyped, SocketsTyped
<1>1. CASE WritePayload
  <2>1. pub' = pub + 1
    BY <1>1 DEF WritePayload, MessagesCounted
  <2> QED  BY <1>0, <2>1 DEF FirstPoke
<1>2. CASE Notify
  <2>1. /\ UNCHANGED <<ppc, pub, magic, subs>>
        /\ ppc = "notify" \/ ~magic
    BY <1>2 DEF Notify, SlotInvariant, DefunctOnTheWayOut
  <2>2. UNCHANGED <<spc, peeking>>
    BY <2>1 DEF subs
  <2>3. CASE ppc = "notify"
    BY <2>1, <2>3 DEF FirstPoke
  <2>4. CASE ~magic
    BY <2>1, <2>2, <2>4 DEF FirstPoke, Unpoked
  <2> QED  BY <2>1, <2>3, <2>4
<1>3. CASE ~WritePayload /\ ~Notify
  <2>1. /\ UNCHANGED <<pub, queue, spc, peeking>>
        /\ magic' => magic
        /\ ppc' = "notify" => ppc = "notify"
    BY <1>3
       DEF PublisherStep, StartPublish, LockToPublish, WriteHeader,
           EndPublish, Destruct, Terminate, Deactivate, CloseAllSlots,
           UnlinkData, UnlinkControl, KillPublisher, control, subs, socks
  <2> QED  BY <2>1 DEF FirstPoke, Unpoked
<1> QED  BY <1>1, <1>2, <1>3

LEMMA PokeToSubscriber ==
  ASSUME TypeOK, NEW p \in Sub, SubscriberStep(p), Unpoked(p)
  PROVE  Unpoked(p)'
<1>0. /\ spc \in [Sub -> SubPcs] /\ magic' = magic
      /\ queue \in [Sub -> 0 .. Backlog] /\ peeking \in [Sub -> BOOLEAN]
  BY SubscriberSpares DEF TypeOK, FlagsTyped, SubscribersTyped, SocketsTyped
<1>1. queue'[p] = queue[p] \/ queue'[p] = 0 \/ Getch(p)
  BY <1>0
     DEF SubscriberStep, OpenStep, ReceiveStep, CloseStep, EndStep,
         OpenChannel, CreateSocket, LockToSubscribe, ClaimSlot,
         NoFreeSlots, ReadInfo, StartReceive, StartPeek, Flush,
         Attach, CheckAgain, LockToRead, ReadHeader, NothingNew,
         CopyPayload, Close, LockToRelease, ReleaseSlot, CloseSocket,
         KillSubscriber, SignalSubscriber, ReleaseSlots, SocketGone, socks
<1>2. queue'[p] > 0 => ~magic'
  <2>1. CASE Getch(p)
    BY <1>0, <2>1 DEF Getch, Unpoked
  <2> QED  BY <1>0, <1>1, <2>1 DEF Unpoked
<1>3. CASE \/ StartPeek(p) \/ Flush(p) \/ Getch(p) \/ Attach(p) \/ CheckAgain(p)
           \/ LockToRead(p) \/ ReadHeader(p)
  BY <1>0, <1>2, <1>3
     DEF StartPeek, Flush, Getch, Attach, CheckAgain, LockToRead, ReadHeader,
         Goto, Unpoked
<1>4. CASE ~(\/ StartPeek(p) \/ Flush(p) \/ Getch(p) \/ Attach(p) \/ CheckAgain(p)
             \/ LockToRead(p) \/ ReadHeader(p))
  <2>1. spc'[p] \notin {"attach", "check", "wantRead", "reading", "copying"}
    BY <1>0, <1>4
       DEF SubscriberStep, OpenStep, ReceiveStep, CloseStep, EndStep,
           OpenChannel, CreateSocket, LockToSubscribe, ClaimSlot,
           NoFreeSlots, ReadInfo, StartReceive, NothingNew,
           CopyPayload, Close, LockToRelease, ReleaseSlot, CloseSocket,
           KillSubscriber, SignalSubscriber, ReleaseSlots, Goto
  <2> QED  BY <1>2, <2>1 DEF Unpoked
<1> QED  BY <1>3, <1>4

LEMMA QueueAlone ==
  ASSUME TypeOK, NEW p \in Sub, SubscriberStep(p), NEW q \in Sub, q # p
  PROVE  queue'[q] = queue[q]
BY DEF TypeOK, SocketsTyped, SubscriberStep, OpenStep, ReceiveStep, CloseStep,
       EndStep, OpenChannel, CreateSocket, LockToSubscribe, ClaimSlot,
       NoFreeSlots, ReadInfo, StartReceive, StartPeek, Flush, Getch, Attach,
       CheckAgain, LockToRead, ReadHeader, NothingNew, CopyPayload, Close,
       LockToRelease, ReleaseSlot, CloseSocket, KillSubscriber,
       SignalSubscriber, ReleaseSlots, SocketGone, socks

LEMMA FirstPokeKept ==
  ASSUME TypeOK, SlotInvariant, MessagesCounted, FirstPoke, [Next]_vars
  PROVE  FirstPoke'
<1>1. CASE PublisherStep
  BY <1>1, PokeByPublisher
<1>2. ASSUME NEW p \in Sub, SubscriberStep(p) PROVE FirstPoke'
  <2>1. UNCHANGED <<ppc, pub, magic>>
    BY <1>2, SubscriberSpares DEF publ
  <2>2. ASSUME pub = 0 PROVE Unpoked(p)'
    BY <1>2, <2>2, PokeToSubscriber DEF FirstPoke
  <2>3. ASSUME NEW q \in Sub, q # p, pub = 0 PROVE Unpoked(q)'
    <3>1. /\ spc'[q] = spc[q] /\ (peeking'[q] <=> peeking[q])
          /\ queue'[q] = queue[q]
      BY <1>2, <2>3, SubscriberAlone, QueueAlone
    <3> QED  BY <2>1, <2>3, <3>1 DEF FirstPoke, Unpoked
  <2> QED  BY <2>1, <2>2, <2>3 DEF FirstPoke
<1>3. CASE Purge \/ UNCHANGED vars
  BY <1>3 DEF Purge, vars, control, publ, subs, socks, FirstPoke, Unpoked
<1> QED  BY <1>1, <1>2, <1>3 DEF Next

(* receive() never returns the message that it returned before, also when  *)
(* the sequence number wraps.                                              *)
THEOREM NeverTwice ==
  ASSUME Denied = {}
  PROVE  Spec => NothingTwice
<1>1. Init => FirstPoke
  BY DEF Init, FirstPoke, Unpoked
<1>2. TypeOK /\ SlotInvariant /\ PromiseInvariant /\ FirstPoke /\ [Next]_vars
        => FirstPoke'
  BY FirstPokeKept DEF PromiseInvariant
<1>3. TypeOK /\ ReadInvariant /\ PromiseInvariant /\ FirstPoke /\ [Next]_vars
        => [\A p \in Sub :
              spc[p] = "copying" /\ ~peeking[p] /\ spc'[p] = "open" =>
                got[p].body < got'[p].body]_vars
  <2> SUFFICES ASSUME TypeOK, PromiseInvariant, FirstPoke, [Next]_vars,
                      NEW p \in Sub, spc[p] = "copying", ~peeking[p], spc'[p] = "open"
               PROVE  got[p].body < got'[p].body
    OBVIOUS
  <2>0. /\ spc \in [Sub -> SubPcs] /\ got \in [Sub -> [head : Nat, body : Nat]]
        /\ pub \in Nat
    BY DEF TypeOK, PublisherTyped, SubscribersTyped
  <2>1. \/ PublisherStep \/ Purge \/ UNCHANGED vars
        \/ \E q \in Sub : q # p /\ SubscriberStep(q)
        => spc'[p] = spc[p]
    <3>1. PublisherStep \/ Purge \/ UNCHANGED vars => spc' = spc
      BY DEF PublisherStep, StartPublish, LockToPublish, WriteHeader,
             WritePayload, Notify, EndPublish, Destruct, Terminate, Deactivate,
             CloseAllSlots, UnlinkData, UnlinkControl, KillPublisher, Purge,
             vars, subs
    <3> QED  BY <3>1, SubscriberAlone
  <2>2. SubscriberStep(p)
    BY <2>1 DEF Next
  <2>3. CopyPayload(p)
    BY <2>0, <2>2
       DEF SubscriberStep, OpenStep, ReceiveStep, CloseStep, EndStep,
           OpenChannel, CreateSocket, LockToSubscribe, ClaimSlot,
           NoFreeSlots, ReadInfo, StartReceive, StartPeek, Flush, Getch,
           Attach, CheckAgain, LockToRead, ReadHeader, NothingNew, Close,
           LockToRelease, ReleaseSlot, CloseSocket, KillSubscriber,
           SignalSubscriber, ReleaseSlots, Goto
  <2>4. got'[p].body = pub
    BY <2>0, <2>3 DEF CopyPayload, PromiseInvariant, MessagesCounted
  <2>5. pub # 0
    BY DEF FirstPoke, Unpoked
  <2>6. got[p].body < pub
    BY <2>5 DEF PromiseInvariant, DeliveredOnce, SeenOnce, Subscribed
  <2> QED  BY <2>4, <2>6
<1>4. Init => PromiseInvariant
  BY DeliveredInit
<1>5. TypeOK /\ ReadInvariant /\ SlotInvariant /\ SeqNeverZero
        /\ PromiseInvariant /\ [Next]_vars => PromiseInvariant'
  BY DeliveredKept
<1> QED
  BY <1>1, <1>2, <1>3, <1>4, <1>5, TypeCorrect, ReadsLocked, SlotsAgree,
     SeqNotZero, PTL DEF Spec, NothingTwice

=============================================================================
