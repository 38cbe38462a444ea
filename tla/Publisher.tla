------------------------------ MODULE Publisher ------------------------------
(***************************************************************************)
(* G::Publisher, G::PublisherChannel, G::PublisherSubscriber and           *)
(* G::PublisherSubscription (glib/gpublisher.cpp): a broadcast channel     *)
(* between processes.  One publisher copies each message into a shared     *)
(* memory segment, under a semaphore that lives in the control segment,    *)
(* and pokes every subscriber through a unix-domain datagram socket.  A    *)
(* subscriber owns one of a fixed number of slots in the control segment;  *)
(* a newer message overwrites an older one that was not read.              *)
(*                                                                         *)
(* The module follows one incarnation of the channel: from the publisher's *)
(* constructor to its destructor, its signal handler or its SIGKILL.  Each *)
(* step between two points where another process can get in is an action:  *)
(* the subscriber's open(), receive(), peek() and close() and the          *)
(* publisher's publish() are sequences of steps tracked by a program       *)
(* counter per process.                                                    *)
(*                                                                         *)
(* Abstractions: a message is its serial number, written into the data     *)
(* segment in two steps (header, then payload) so that a torn read would   *)
(* show; a socket is the process that bound it, a datagram queue is its    *)
(* length; the error numbers of a slot are its "failed" flag; a slot's     *)
(* socket path and its pid are set and cleared together, so that one field *)
(* stands for both.                                                        *)
(***************************************************************************)
EXTENDS Integers, FiniteSets

CONSTANTS
  Sub,          \* subscribing processes
  Pub,          \* the publishing process
  NoProc,       \* neither: the semaphore's value when it is free, an empty pid
  NoFd,         \* socket_fd = -1
  Dead,         \* a publisher's descriptor whose peer has been closed
  SLOTS,        \* number of slots in the control segment (SLOTS in the code)
  SeqModulus,   \* number of values of the sequence number (unsigned long)
  Sizes,        \* payload sizes, in bytes
  Backlog,      \* length of a datagram queue (net.unix.max_dgram_qlen)
  PurgeLag,     \* messages a failed slot must be behind to be purged (10)
  Denied,       \* subscribers whose socket path the publisher may not use
  Killable,     \* processes that may get a SIGKILL
  Signalled,    \* processes that may get a SIGTERM
  MaxPub        \* bound: number of messages published

ASSUME ConstantsAssumption ==
  /\ SLOTS \in Nat \ {0}
  /\ SeqModulus \in Nat \ {0, 1}
  /\ Sizes \subseteq Nat \ {0}
  /\ Backlog \in Nat \ {0}
  /\ PurgeLag \in Nat
  /\ MaxPub \in Nat
  /\ Denied \subseteq Sub
  /\ Pub \notin Sub
  /\ NoProc \notin Sub \union {Pub}
  /\ NoFd \notin Sub \union {Dead}
  /\ Dead \notin Sub

VARIABLES
  \* the control segment
  ctlName,      \* its name is in the filesystem
  magic,        \* magic = MAGIC
  mutex,        \* the holder of the semaphore
  seq,          \* sequence number of the current message
  slot,         \* the slots
  \* the data segment
  datName,      \* its name is in the filesystem
  dsize,        \* its size in the filesystem, zero before it is created
  dlimit,       \* size_limit
  dlen,         \* data_size
  dhdr,         \* the message whose size, type and time are in the header
  dpay,         \* the message whose payload is in the data
  \* the publisher
  ppc,          \* where it is
  pi,           \* notifyAll()'s loop counter
  psize,        \* data_total of the publish() under way
  pfds,         \* number of sockets it has open
  pub,          \* serial number of the last complete message
  \* the subscribers
  spc,          \* where each one is
  mine,         \* m_slot_id
  mapped,       \* size of its mapping of the data segment, zero for none
  peeking,      \* the call under way is a peek()
  hdr,          \* the message whose header it has copied
  got,          \* what receive() last returned to this subscription: the
                \* message of its header and that of its payload
  \* the kernel's sockets
  path,         \* the filesystem entry of the process's socket path
  queue         \* number of datagrams waiting on the process's socket

control == <<ctlName, magic, mutex, seq, slot>>
data    == <<datName, dsize, dlimit, dlen, dhdr, dpay>>
publ    == <<ppc, pi, psize, pfds, pub>>
subs    == <<spc, mine, mapped, peeking, hdr, got>>
socks   == <<path, queue>>
vars    == <<control, data, publ, subs, socks>>

Slots == 0 .. SLOTS - 1

(* Where a subscriber can be.  Subscribed is from the claim of its slot to *)
(* the release of it, Opened from when open() returns.                     *)
Subscribed == {"claimed", "open", "flush", "getch", "attach", "check",
               "wantRead", "reading", "copying", "thrown", "closing",
               "releasing", "broken"}
Opened     == Subscribed \ {"claimed", "broken"}
SubLocked  == {"claiming", "reading", "copying", "releasing"}
HasSocket  == Subscribed \union {"bound", "claiming", "released"}
SubPcs     == HasSocket \union {"closed", "mapped", "trapping", "dead"}

(* Where the publisher can be. *)
PubLocked == {"write", "copy", "notify", "goodbye"}
PubPcs    == PubLocked \union {"idle", "wantPub", "wantExit", "unlinkData",
                               "unlinkControl", "gone", "crashed"}

\* Mutant of NextSeq: zero is not skipped.
NextSeqPlain(s) == (s + 1) % SeqModulus

NextSeq(s) == IF (s + 1) % SeqModulus = 0 THEN 1 ELSE (s + 1) % SeqModulus

morethan(n) == n + n \div 2 + 10

EmptySlot == [in_use |-> FALSE, failed |-> FALSE, pid |-> NoProc,
              seq |-> 0, fd |-> NoFd]

NothingYet == [head |-> 0, body |-> 0]

Claimed(p) == [EmptySlot EXCEPT !.in_use = TRUE, !.pid = p]

\* Mutant of FreeSlots: the descriptor is not looked at.
FreeSlotsIgnoringFd == {i \in Slots : ~slot[i].in_use}

FreeSlots == {i \in Slots : ~slot[i].in_use /\ slot[i].fd = NoFd}

(* The lowest free slot, as the loop of findFreeSlot() finds it. *)
IsFirstFree(i) == i \in FreeSlots /\ \A j \in FreeSlots : i <= j

(* The last descriptor of p's socket is closed: whoever is connected to it *)
(* holds a dead descriptor, and the path, if there, leads nowhere.         *)
Orphaned(s, p) == [i \in Slots |-> IF s[i].fd = p
                                   THEN [s[i] EXCEPT !.fd = Dead] ELSE s[i]]
SocketGone(p) ==
  /\ path' = [path EXCEPT ![p] = IF @ = "live" THEN "stale" ELSE @]
  /\ queue' = [queue EXCEPT ![p] = 0]

Goto(p, where) == spc' = [spc EXCEPT ![p] = where]

SlotType == [in_use : BOOLEAN, failed : BOOLEAN, pid : Sub \union {NoProc},
             seq : 0 .. SeqModulus - 1, fd : Sub \union {NoFd, Dead}]

FlagsTyped ==
  /\ ctlName \in BOOLEAN /\ magic \in BOOLEAN /\ datName \in BOOLEAN
  /\ peeking \in [Sub -> BOOLEAN]

ControlTyped ==
  /\ mutex \in Sub \union {Pub, NoProc}
  /\ seq \in 0 .. SeqModulus - 1
  /\ slot \in [Slots -> SlotType]

DataTyped ==
  dsize \in Nat /\ dlimit \in Nat /\ dlen \in Nat /\ dhdr \in Nat /\ dpay \in Nat

PublisherTyped ==
  ppc \in PubPcs /\ pi \in 0 .. SLOTS /\ psize \in Nat /\ pfds \in Int /\ pub \in Nat

SubscribersTyped ==
  /\ spc \in [Sub -> SubPcs]
  /\ mine \in [Sub -> Slots]
  /\ mapped \in [Sub -> Nat]
  /\ hdr \in [Sub -> Nat]
  /\ got \in [Sub -> [head : Nat, body : Nat]]

SocketsTyped ==
  /\ path \in [Sub -> {"none", "live", "stale"}]
  /\ queue \in [Sub -> 0 .. Backlog]

TypeOK == FlagsTyped /\ ControlTyped /\ DataTyped /\ PublisherTyped
          /\ SubscribersTyped /\ SocketsTyped

-----------------------------------------------------------------------------
(* Publisher::Publisher() has returned: initialise() has set the control   *)
(* segment up, with a sequence number of one.                              *)

Init ==
  /\ ctlName = TRUE /\ magic = TRUE /\ mutex = NoProc /\ seq = 1
  /\ slot = [i \in Slots |-> EmptySlot]
  /\ datName = FALSE /\ dsize = 0 /\ dlimit = 0 /\ dlen = 0
  /\ dhdr = 0 /\ dpay = 0
  /\ ppc = "idle" /\ pi = 0 /\ psize = 0 /\ pfds = 0 /\ pub = 0
  /\ spc = [p \in Sub |-> "closed"]
  /\ mine = [p \in Sub |-> 0]
  /\ mapped = [p \in Sub |-> 0]
  /\ peeking = [p \in Sub |-> FALSE]
  /\ hdr = [p \in Sub |-> 0] /\ got = [p \in Sub |-> NothingYet]
  /\ path = [p \in Sub |-> "none"]
  /\ queue = [p \in Sub |-> 0]

-----------------------------------------------------------------------------
(* publish() *)

(* Before the lock: the data segment is created by the first publish(),    *)
(* with room for half as much again as the first message.                  *)
StartPublish(n) ==
  /\ ppc = "idle" /\ pub < MaxPub
  /\ ppc' = "wantPub" /\ psize' = n
  /\ IF dsize = 0
     THEN datName' = TRUE /\ dsize' = morethan(n) /\ dlimit' = morethan(n)
     ELSE UNCHANGED <<datName, dsize, dlimit>>
  /\ UNCHANGED <<control, dlen, dhdr, dpay, pi, pfds, pub, subs, socks>>

\* Mutant of LockToPublish: the semaphore is not waited for.
LockToPublishAtOnce ==
  /\ ppc = "wantPub"
  /\ mutex' = Pub /\ ppc' = "write"
  /\ UNCHANGED <<ctlName, magic, seq, slot, data, pi, psize, pfds, pub, subs,
                 socks>>

LockToPublish ==
  /\ ppc = "wantPub" /\ mutex = NoProc
  /\ mutex' = Pub /\ ppc' = "write"
  /\ UNCHANGED <<ctlName, magic, seq, slot, data, pi, psize, pfds, pub, subs,
                 socks>>

(* Grow the segment if need be, take the next sequence number and write    *)
(* the size, the time and the type.                                        *)
WriteHeader ==
  /\ ppc = "write"
  /\ IF psize > dlimit
     THEN dsize' = morethan(psize) /\ dlimit' = morethan(psize)
     ELSE UNCHANGED <<dsize, dlimit>>
  /\ seq' = NextSeq(seq)
  /\ dlen' = psize /\ dhdr' = pub + 1
  /\ ppc' = "copy"
  /\ UNCHANGED <<ctlName, magic, mutex, slot, datName, dpay, pi, psize, pfds,
                 pub, subs, socks>>

WritePayload ==
  /\ ppc = "copy"
  /\ dpay' = dhdr /\ pub' = dhdr
  /\ ppc' = "notify" /\ pi' = 0
  /\ UNCHANGED <<control, datName, dsize, dlimit, dlen, dhdr, psize, pfds,
                 subs, socks>>

EndPublish ==
  /\ ppc = "notify" /\ pi = SLOTS
  /\ mutex' = NoProc /\ ppc' = "idle"
  /\ UNCHANGED <<ctlName, magic, seq, slot, data, pi, psize, pfds, pub, subs,
                 socks>>

-----------------------------------------------------------------------------
(* notifyAll(), one slot at a time.                                        *)

(* What notifyOne() is connected to once it has connected if necessary:    *)
(* connect() fails if the path is not there, leads nowhere or is not ours  *)
(* to use.                                                                 *)
\* Mutant of Peer: a full queue (EAGAIN) counts as a fatal error.
PeerUnlessFull(s) == IF s.fd = NoFd THEN s.pid
                     ELSE IF s.fd \in Sub /\ queue[s.fd] = Backlog THEN NoFd
                     ELSE s.fd

Peer(s) == IF s.fd # NoFd THEN s.fd
           ELSE IF path[s.pid] = "live" /\ s.pid \notin Denied THEN s.pid
           ELSE NoFd

(* The poke gets through, or finds the queue full, which is not fatal. *)
NotifyOne(i) ==
  LET peer == Peer(slot[i]) IN
  /\ slot[i].in_use /\ ~slot[i].failed /\ peer \in Sub
  /\ slot' = [slot EXCEPT ![i].fd = peer]
  /\ pfds' = IF slot[i].fd = NoFd THEN pfds + 1 ELSE pfds
  /\ path' = IF slot[i].fd = NoFd
             THEN [path EXCEPT ![slot[i].pid] = "none"] ELSE path
  /\ queue' = [queue EXCEPT ![peer] = IF @ < Backlog THEN @ + 1 ELSE @]

(* connect() or send() fails for good: the slot is left in use, for its    *)
(* subscriber to release.                                                  *)
NotifyFails(i) ==
  /\ slot[i].in_use /\ ~slot[i].failed /\ Peer(slot[i]) \notin Sub
  /\ slot' = [slot EXCEPT ![i].failed = TRUE, ![i].fd = NoFd]
  /\ pfds' = IF slot[i].fd = NoFd THEN pfds ELSE pfds - 1
  /\ path' = IF slot[i].fd = NoFd /\ slot[i].pid \notin Denied
             THEN [path EXCEPT ![slot[i].pid] = "none"] ELSE path
  /\ UNCHANGED queue

(* The subscriber has gone away: close the descriptor, free the slot. *)
TidySlot(i) ==
  /\ ~(slot[i].in_use /\ ~slot[i].failed) /\ slot[i].fd # NoFd
  /\ slot' = [slot EXCEPT ![i] = EmptySlot]
  /\ pfds' = pfds - 1
  /\ UNCHANGED socks

SkipSlot(i) ==
  /\ ~(slot[i].in_use /\ ~slot[i].failed) /\ slot[i].fd = NoFd
  /\ UNCHANGED <<slot, pfds, socks>>

Notify ==
  /\ ppc \in {"notify", "goodbye"} /\ pi < SLOTS
  /\ NotifyOne(pi) \/ NotifyFails(pi) \/ TidySlot(pi) \/ SkipSlot(pi)
  /\ pi' = pi + 1
  /\ UNCHANGED <<ctlName, magic, mutex, seq, data, ppc, psize, pub, subs>>

-----------------------------------------------------------------------------
(* The end of the publisher. *)

(* ~Publisher(), from the thread that publishes. *)
Destruct ==
  /\ ppc = "idle"
  /\ ppc' = "wantExit"
  /\ UNCHANGED <<control, data, pi, psize, pfds, pub, subs, socks>>

(* A terminating signal runs the cleanup handlers wherever the thread is,  *)
(* once: SharedMemory::cleanup() unlinks the control segment before it     *)
(* calls deactivate().                                                     *)
Terminate ==
  /\ Pub \in Signalled
  /\ ctlName /\ ppc \notin {"gone", "crashed"}
  /\ ppc' = "wantExit" /\ ctlName' = FALSE
  /\ UNCHANGED <<magic, mutex, seq, slot, data, pi, psize, pfds, pub, subs,
                 socks>>

(* deactivate() takes the lock, marks the segment as defunct and notifies  *)
(* the subscribers one last time.                                          *)
\* Mutant of Deactivate: nobody is notified.
DeactivateQuietly ==
  /\ ppc = "wantExit" /\ mutex = NoProc
  /\ mutex' = Pub /\ magic' = FALSE
  /\ ppc' = "goodbye" /\ pi' = SLOTS
  /\ UNCHANGED <<ctlName, seq, slot, data, psize, pfds, pub, subs, socks>>

Deactivate ==
  /\ ppc = "wantExit" /\ mutex = NoProc
  /\ mutex' = Pub /\ magic' = FALSE
  /\ ppc' = "goodbye" /\ pi' = 0
  /\ UNCHANGED <<ctlName, seq, slot, data, psize, pfds, pub, subs, socks>>

CloseAllSlots ==
  /\ ppc = "goodbye" /\ pi = SLOTS
  /\ slot' = [i \in Slots |-> [slot[i] EXCEPT !.fd = NoFd]]
  /\ pfds' = pfds - Cardinality({i \in Slots : slot[i].fd # NoFd})
  /\ mutex' = NoProc /\ ppc' = "unlinkData"
  /\ UNCHANGED <<ctlName, magic, seq, data, pi, psize, pub, subs, socks>>

UnlinkData ==
  /\ ppc = "unlinkData"
  /\ datName' = FALSE /\ ppc' = "unlinkControl"
  /\ UNCHANGED <<control, dsize, dlimit, dlen, dhdr, dpay, pi, psize, pfds,
                 pub, subs, socks>>

UnlinkControl ==
  /\ ppc = "unlinkControl"
  /\ ctlName' = FALSE /\ ppc' = "gone"
  /\ UNCHANGED <<magic, mutex, seq, slot, data, pi, psize, pfds, pub, subs,
                 socks>>

\* Mutant of KillPublisher: the semaphore is given back by the dying process.
KillPublisherUnlocking ==
  /\ Pub \in Killable /\ ppc \notin {"gone", "crashed"}
  /\ ppc' = "crashed" /\ pfds' = 0
  /\ mutex' = IF mutex = Pub THEN NoProc ELSE mutex
  /\ UNCHANGED <<ctlName, magic, seq, slot, data, pi, psize, pub, subs, socks>>

(* SIGKILL: the kernel closes the sockets, the shared memory stays as it   *)
(* is, and so does the semaphore.                                          *)
KillPublisher ==
  /\ Pub \in Killable /\ ppc \notin {"gone", "crashed"}
  /\ ppc' = "crashed" /\ pfds' = 0
  /\ UNCHANGED <<control, data, pi, psize, pub, subs, socks>>

-----------------------------------------------------------------------------
(* PublisherSubscription::open() *)

(* Map the control segment and check its magic number. *)
OpenChannel(p) ==
  /\ spc[p] = "closed" /\ ctlName /\ magic
  /\ Goto(p, "mapped")
  /\ UNCHANGED <<control, data, publ, mine, mapped, peeking, hdr, got, socks>>

(* createSocket(): bind() fails if the path is there already. *)
CreateSocket(p) ==
  /\ spc[p] = "mapped"
  /\ \/ /\ path[p] = "none"
        /\ path' = [path EXCEPT ![p] = "live"]
        /\ Goto(p, "bound")
     \/ /\ path[p] # "none"
        /\ Goto(p, "closed")
        /\ UNCHANGED path
  /\ UNCHANGED <<control, data, publ, mine, mapped, peeking, hdr, got, queue>>

LockToSubscribe(p) ==
  /\ spc[p] = "bound" /\ mutex = NoProc
  /\ mutex' = p /\ Goto(p, "claiming")
  /\ UNCHANGED <<ctlName, magic, seq, slot, data, publ, mine, mapped, peeking,
                 hdr, got, socks>>

ClaimSlot(p) ==
  /\ spc[p] = "claiming"
  /\ \E i \in Slots :
       /\ IsFirstFree(i)
       /\ slot' = [slot EXCEPT ![i] = Claimed(p)]
       /\ mine' = [mine EXCEPT ![p] = i]
  /\ got' = [got EXCEPT ![p] = NothingYet]
  /\ mutex' = NoProc /\ Goto(p, "claimed")
  /\ UNCHANGED <<ctlName, magic, seq, data, publ, mapped, peeking, hdr, socks>>

(* "no free slots": the socket is closed again, its path is left. *)
NoFreeSlots(p) ==
  /\ spc[p] = "claiming" /\ FreeSlots = {}
  /\ mutex' = NoProc /\ Goto(p, "closed")
  /\ SocketGone(p)
  /\ UNCHANGED <<ctlName, magic, seq, slot, data, publ, mine, mapped, peeking,
                 hdr, got>>

(* info() maps the control segment again, by its name, checks its magic    *)
(* number and copies it under the lock.  It throws if the publisher has    *)
(* gone by then.                                                           *)
ReadInfo(p) ==
  /\ spc[p] = "claimed"
  /\ \/ ctlName /\ magic /\ mutex = NoProc /\ Goto(p, "open")
     \/ ~(ctlName /\ magic) /\ Goto(p, "broken")
  /\ UNCHANGED <<control, data, publ, mine, mapped, peeking, hdr, got, socks>>

-----------------------------------------------------------------------------
(* receive() and peek() *)

(* The first look at the magic number, without the lock.  When receive()   *)
(* returns false the caller closes the subscription.                       *)
StartReceive(p) ==
  /\ spc[p] = "open"
  /\ Goto(p, IF magic THEN "flush" ELSE "closing")
  /\ UNCHANGED <<control, data, publ, mine, mapped, peeking, hdr, got, socks>>

StartPeek(p) ==
  /\ spc[p] = "open" /\ magic
  /\ Goto(p, "attach")
  /\ peeking' = [peeking EXCEPT ![p] = TRUE]
  /\ UNCHANGED <<control, data, publ, mine, mapped, hdr, got, socks>>

(* flush() takes every datagram there is; if there was none getch() waits  *)
(* for one.                                                                *)
\* Mutant of Flush: having taken the datagrams, wait for another one.
FlushThenWait(p) ==
  /\ spc[p] = "flush"
  /\ Goto(p, "getch")
  /\ queue' = [queue EXCEPT ![p] = 0]
  /\ UNCHANGED <<control, data, publ, mine, mapped, peeking, hdr, got, path>>

Flush(p) ==
  /\ spc[p] = "flush"
  /\ Goto(p, IF queue[p] > 0 THEN "attach" ELSE "getch")
  /\ queue' = [queue EXCEPT ![p] = 0]
  /\ UNCHANGED <<control, data, publ, mine, mapped, peeking, hdr, got, path>>

\* Mutant of Getch: it does not wait.
GetchAtOnce(p) ==
  /\ spc[p] = "getch"
  /\ Goto(p, "attach")
  /\ queue' = [queue EXCEPT ![p] = @ - 1]
  /\ UNCHANGED <<control, data, publ, mine, mapped, peeking, hdr, got, path>>

Getch(p) ==
  /\ spc[p] = "getch" /\ queue[p] > 0
  /\ Goto(p, "attach")
  /\ queue' = [queue EXCEPT ![p] = @ - 1]
  /\ UNCHANGED <<control, data, publ, mine, mapped, peeking, hdr, got, path>>

(* Attach to the data segment by its name, the first time.  Failing that,  *)
(* peek() returns false and receive() throws.                              *)
Attach(p) ==
  /\ spc[p] = "attach"
  /\ \/ /\ mapped[p] # 0 \/ datName
        /\ mapped' = [mapped EXCEPT ![p] = IF @ = 0 THEN dsize ELSE @]
        /\ Goto(p, "check")
        /\ UNCHANGED peeking
     \/ /\ mapped[p] = 0 /\ ~datName
        /\ Goto(p, IF peeking[p] THEN "open" ELSE "thrown")
        /\ peeking' = [peeking EXCEPT ![p] = FALSE]
        /\ UNCHANGED mapped
  /\ UNCHANGED <<control, data, publ, mine, hdr, got, socks>>

(* The second look at the magic number, again without the lock. *)
CheckAgain(p) ==
  /\ spc[p] = "check"
  /\ Goto(p, IF magic THEN "wantRead"
             ELSE IF peeking[p] THEN "open" ELSE "closing")
  /\ peeking' = [peeking EXCEPT ![p] = @ /\ magic]
  /\ UNCHANGED <<control, data, publ, mine, mapped, hdr, got, socks>>

LockToRead(p) ==
  /\ spc[p] = "wantRead" /\ mutex = NoProc
  /\ mutex' = p /\ Goto(p, "reading")
  /\ UNCHANGED <<ctlName, magic, seq, slot, data, publ, mine, mapped, peeking,
                 hdr, got, socks>>

(* The current data has not been seen already. *)
IsNews(p) ==
  LET s == slot[mine[p]] IN
  s.in_use /\ (peeking[p] \/ s.seq = 0 \/ s.seq # seq)

Follow(p) == mapped' = [mapped EXCEPT ![p] = IF dlimit > @ THEN dlimit ELSE @]

(* Follow the growth of the segment, mark the message as seen, resize the  *)
(* buffer to its size.                                                     *)
ReadHeader(p) ==
  /\ spc[p] = "reading" /\ IsNews(p)
  /\ Follow(p)
  /\ slot' = IF peeking[p] THEN slot ELSE [slot EXCEPT ![mine[p]].seq = seq]
  /\ hdr' = [hdr EXCEPT ![p] = dhdr]
  /\ Goto(p, "copying")
  /\ UNCHANGED <<ctlName, magic, mutex, seq, data, publ, mine, peeking, got,
                 socks>>

\* Mutant of NothingNew: the early return forgets the semaphore.
NothingNewKeepsLock(p) ==
  /\ spc[p] = "reading" /\ ~IsNews(p)
  /\ Follow(p)
  /\ peeking' = [peeking EXCEPT ![p] = FALSE]
  /\ Goto(p, "open")
  /\ UNCHANGED <<control, data, publ, mine, hdr, got, socks>>

(* An ignorable event: receive() returns true with an empty buffer. *)
NothingNew(p) ==
  /\ spc[p] = "reading" /\ ~IsNews(p)
  /\ Follow(p)
  /\ peeking' = [peeking EXCEPT ![p] = FALSE]
  /\ mutex' = NoProc /\ Goto(p, "open")
  /\ UNCHANGED <<ctlName, magic, seq, slot, data, publ, mine, hdr, got, socks>>

CopyPayload(p) ==
  /\ spc[p] = "copying"
  /\ got' = IF peeking[p] THEN got
            ELSE [got EXCEPT ![p] = [head |-> hdr[p], body |-> dpay]]
  /\ peeking' = [peeking EXCEPT ![p] = FALSE]
  /\ mutex' = NoProc /\ Goto(p, "open")
  /\ UNCHANGED <<ctlName, magic, seq, slot, data, publ, mine, mapped, hdr,
                 socks>>

-----------------------------------------------------------------------------
(* close(): ~PublisherSubscriber() releases the slot, under the lock, and  *)
(* then closes the socket; ~PublisherChannel() unmaps the segments.        *)

Close(p) ==
  /\ spc[p] \in {"open", "thrown"}
  /\ Goto(p, "closing")
  /\ UNCHANGED <<control, data, publ, mine, mapped, peeking, hdr, got, socks>>

LockToRelease(p) ==
  /\ spc[p] = "closing" /\ mutex = NoProc
  /\ mutex' = p /\ Goto(p, "releasing")
  /\ UNCHANGED <<ctlName, magic, seq, slot, data, publ, mine, mapped, peeking,
                 hdr, got, socks>>

ReleaseSlot(p) ==
  /\ spc[p] = "releasing"
  /\ slot' = [slot EXCEPT ![mine[p]].in_use = FALSE]
  /\ mutex' = NoProc /\ Goto(p, "released")
  /\ UNCHANGED <<ctlName, magic, seq, data, publ, mine, mapped, peeking, hdr,
                 got, socks>>

CloseSocket(p) ==
  /\ spc[p] = "released"
  /\ Goto(p, "closed")
  /\ slot' = Orphaned(slot, p)
  /\ SocketGone(p)
  /\ mapped' = [mapped EXCEPT ![p] = 0]
  /\ UNCHANGED <<ctlName, magic, mutex, seq, data, publ, mine, peeking, hdr,
                 got>>

-----------------------------------------------------------------------------
(* The end of a subscriber's process. *)

KillSubscriber(p) ==
  /\ p \in Killable /\ spc[p] \notin {"closed", "dead"}
  /\ Goto(p, "dead")
  /\ slot' = Orphaned(slot, p)
  /\ SocketGone(p)
  /\ UNCHANGED <<ctlName, magic, mutex, seq, data, publ, mine, mapped, peeking,
                 hdr, got>>

(* A terminating signal enters the handler wherever the process is. *)
SignalSubscriber(p) ==
  /\ p \in Signalled /\ spc[p] \notin {"closed", "trapping", "dead"}
  /\ Goto(p, "trapping")
  /\ UNCHANGED <<control, data, publ, mine, mapped, peeking, hdr, got, socks>>

(* releaseSlots(): every slot of this process is let go, if the control    *)
(* segment can still be found by its name.                                 *)
ReleaseSlots(p) ==
  /\ spc[p] = "trapping" /\ (ctlName => mutex = NoProc)
  /\ slot' = Orphaned([i \in Slots |->
                         IF ctlName /\ slot[i].in_use /\ slot[i].pid = p
                         THEN [slot[i] EXCEPT !.in_use = FALSE, !.pid = NoProc]
                         ELSE slot[i]], p)
  /\ SocketGone(p)
  /\ Goto(p, "dead")
  /\ UNCHANGED <<ctlName, magic, mutex, seq, data, publ, mine, mapped, peeking,
                 hdr, got>>

-----------------------------------------------------------------------------
(* Publisher::purge(), run by an administrator. *)

\* Mutant of Purgeable: a slot that lags is purged whether it failed or not.
PurgeableIfBehind(i) == /\ slot[i].in_use
                        /\ slot[i].seq < seq /\ seq - slot[i].seq > PurgeLag

Purgeable(i) == /\ slot[i].in_use /\ slot[i].failed
                /\ slot[i].seq < seq /\ seq - slot[i].seq > PurgeLag

Purge ==
  /\ ctlName /\ mutex = NoProc
  /\ slot' = [i \in Slots |-> IF Purgeable(i) THEN EmptySlot ELSE slot[i]]
  /\ UNCHANGED <<ctlName, magic, mutex, seq, data, publ, subs, socks>>

-----------------------------------------------------------------------------
PublisherStep ==
  \/ \E n \in Sizes : StartPublish(n)
  \/ LockToPublish \/ WriteHeader \/ WritePayload \/ Notify \/ EndPublish
  \/ Destruct \/ Terminate \/ Deactivate \/ CloseAllSlots
  \/ UnlinkData \/ UnlinkControl \/ KillPublisher

OpenStep(p) ==
  OpenChannel(p) \/ CreateSocket(p) \/ LockToSubscribe(p) \/ ClaimSlot(p)
  \/ NoFreeSlots(p) \/ ReadInfo(p)

ReceiveStep(p) ==
  StartReceive(p) \/ StartPeek(p) \/ Flush(p) \/ Getch(p) \/ Attach(p)
  \/ CheckAgain(p) \/ LockToRead(p) \/ ReadHeader(p) \/ NothingNew(p)
  \/ CopyPayload(p)

CloseStep(p) ==
  Close(p) \/ LockToRelease(p) \/ ReleaseSlot(p) \/ CloseSocket(p)

EndStep(p) == KillSubscriber(p) \/ SignalSubscriber(p) \/ ReleaseSlots(p)

SubscriberStep(p) ==
  OpenStep(p) \/ ReceiveStep(p) \/ CloseStep(p) \/ EndStep(p)

Next == PublisherStep \/ (\E p \in Sub : SubscriberStep(p)) \/ Purge

Spec == Init /\ [][Next]_vars

-----------------------------------------------------------------------------
(* Fairness.  A process whose next step is its own to take takes it, and   *)
(* one that waits for the semaphore is woken in its turn (a futex queue):  *)
(* a process is at one place at a time, so one condition per process says  *)
(* both.  The event loop gets round to a descriptor that is readable,      *)
(* however often it is also told to peek.  Nothing makes a process         *)
(* publish, open, peek, close or go away, but a thrown exception unwinds.  *)
PublisherRuns ==
  LockToPublish \/ WriteHeader \/ WritePayload \/ Notify \/ EndPublish
  \/ Deactivate \/ CloseAllSlots \/ UnlinkData \/ UnlinkControl

SubscriberRuns(p) ==
  \/ CreateSocket(p) \/ LockToSubscribe(p) \/ ClaimSlot(p) \/ NoFreeSlots(p)
  \/ ReadInfo(p) \/ Flush(p) \/ Getch(p) \/ Attach(p) \/ CheckAgain(p)
  \/ LockToRead(p) \/ ReadHeader(p) \/ NothingNew(p) \/ CopyPayload(p)
  \/ LockToRelease(p) \/ ReleaseSlot(p) \/ CloseSocket(p) \/ ReleaseSlots(p)
  \/ spc[p] = "thrown" /\ Close(p)

Fairness ==
  /\ SF_vars(PublisherRuns)
  /\ \A p \in Sub : SF_vars(SubscriberRuns(p))
  /\ \A p \in Sub : SF_vars(queue[p] > 0 /\ StartReceive(p))

FairSpec == Spec /\ Fairness

-----------------------------------------------------------------------------
(* Safety. *)

(* receive() and peek() copy one whole message, out of memory they have    *)
(* mapped: from the header's copy to the end of the payload's the segment  *)
(* holds that message and nothing beyond the reader's mapping is read,     *)
(* even when the publisher is growing the segment, or is killed.           *)
NoTornRead ==
  \A p \in Sub : spc[p] = "copying" =>
    dhdr = hdr[p] /\ dpay = hdr[p] /\ dlen <= mapped[p]

(* A subscription has its slot to itself until it releases it, whatever    *)
(* the other processes and an administrator's purge() do.                  *)
OwnsSlot(p) == slot[mine[p]].in_use /\ slot[mine[p]].pid = p

(* While there is a publisher it can reach every subscription: the slot is *)
(* not marked as failed, and either its descriptor is connected to the     *)
(* subscription's own socket or it has yet to connect and will find that   *)
(* socket under the path.  So publish() never skips a live subscriber.     *)
Reachable(p) ==
  LET s == slot[mine[p]] IN
  /\ ~s.failed
  /\ \/ s.fd = p /\ path[p] = "none"
     \/ s.fd = NoFd /\ path[p] = "live"

(* Why no read is torn, whoever is killed or signalled, and when: the      *)
(* semaphore is held by whoever is in a locked section, a half-written     *)
(* message is never left without it, and the segment has room for the      *)
(* message in it.                                                          *)
LocksHeld ==
  /\ ppc \in PubLocked => mutex = Pub
  /\ \A p \in Sub : spc[p] \in SubLocked => mutex = p

MessageWhole ==
  /\ dhdr # dpay => mutex = Pub
  /\ ppc \in {"notify", "goodbye"} => dhdr = dpay
  /\ dsize = dlimit /\ dlen <= dlimit

ReadInvariant == LocksHeld /\ MessageWhole /\ NoTornRead

(* Why a subscription keeps its slot and stays in reach, when the          *)
(* publisher may use every subscriber's path: a slot in use is that of a   *)
(* live subscription, or of a process that is going or gone; a subscriber  *)
(* whose socket is not connected has left it under its path; and the       *)
(* channel is marked as defunct only on the way out, after which a slot    *)
(* may fail but cannot be found and purged.                                *)
SlotHolders ==
  \A i \in Slots :
    /\ slot[i].failed => slot[i].fd = NoFd
    /\ slot[i].in_use =>
         \A p \in Sub : slot[i].pid = p =>
           \/ spc[p] \in Subscribed /\ i = mine[p]
           \/ spc[p] \in {"trapping", "dead"}

SubscriptionsKept ==
  \A p \in Sub :
    /\ spc[p] \in {"bound", "claiming"} => path[p] = "live"
    /\ spc[p] \in Subscribed =>
         /\ OwnsSlot(p)
         /\ ctlName => ~slot[mine[p]].failed
         /\ magic \/ (ctlName /\ ppc = "goodbye") => Reachable(p)

DefunctOnTheWayOut ==
  /\ ppc \in {"idle", "wantPub", "write", "copy", "notify"} => magic
  /\ ppc = "wantExit" /\ ctlName => magic
  /\ ppc = "goodbye" => ~magic

SlotInvariant == SlotHolders /\ SubscriptionsKept /\ DefunctOnTheWayOut

(* The publisher's descriptors are those in the slots: none is forgotten   *)
(* when a slot changes hands, and none is left when it has gone.           *)
DescriptorsBalanced ==
  ppc # "crashed" => pfds = Cardinality({i \in Slots : slot[i].fd # NoFd})

(* The sequence number is never the slot's "nothing seen yet". *)
SeqNeverZero == seq # 0

(* The channel implements the broadcast of LatestValue. *)
Promise == INSTANCE LatestValue WITH
  Member <- Sub, latest <- pub, joined <- {p \in Sub : spc[p] \in Subscribed},
  seen <- got, retired <- ~magic

ImplementsLatestValue == Promise!LVSpec

(* A message that receive() returns is newer than the one that it returned *)
(* before: though a poke may be left over from a message that has been     *)
(* read already, and though the sequence number wraps, past the zero which *)
(* in a slot means that nothing has been seen.                             *)
NothingTwice ==
  [][\A p \in Sub :
       spc[p] = "copying" /\ ~peeking[p] /\ spc'[p] = "open" =>
         got[p].body < got'[p].body]_vars

-----------------------------------------------------------------------------
(* Liveness. *)

(* A message reaches every subscription that was open when it was          *)
(* published, or a newer one does, unless the subscription ends or the     *)
(* publisher goes away first.                                              *)
EveryoneCatchesUp ==
  \A p \in Sub : \A n \in 1 .. MaxPub :
    (ppc = "notify" /\ pi = 0 /\ pub = n /\ spc[p] \in Subscribed)
      ~> (got[p].body >= n \/ spc[p] \notin Subscribed \/ ~magic)

(* When the publisher has said goodbye every subscription whose open() has *)
(* returned comes to an end, also one that is blocked in receive().  (One  *)
(* that is still in open() breaks there: see OpenLeavesNothing.)           *)
GoodbyeIsHeard ==
  \A p \in Sub : (~magic /\ spc[p] \in Opened) ~> (spc[p] \notin Subscribed)

(* A publisher that starts to go away gets to the end of it. *)
PublisherEnds == (ppc = "wantExit") ~> (ppc = "gone")

-----------------------------------------------------------------------------
(* A statement of the code that does not hold.                             *)

(* open() asserts, when it has failed, that it has not subscribed.  It has *)
(* if the publisher goes away before info(): the slot is claimed and not   *)
(* released, and the subscriber outlives the channel that it refers to.    *)
OpenLeavesNothing == \A p \in Sub : spc[p] # "broken"

=============================================================================
