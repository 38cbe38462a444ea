# A verification project for videotools

Videotools is a set of small programs that pass images to one another: a
camera server publishes images on a named channel in shared memory, and a
recorder, a watcher, a viewer, an http server and others subscribe to it. This
directory holds TLA+ models of its concurrent and stateful parts, TLC
configurations that check them on small instances, and proofs, checked by
TLAPS, of what matters most for every instance. Paths below are relative to the
source tree's `src` directory (`glib/...`, `gnet/...`, `gvideo/...`,
`main/...`); `PROJECT.json` gives for every definition the lines it models.

Contents: 1 the system, 2 modules and how they correspond to the code, 3 the
runs, 4 fairness, 5 the proofs, 6 where the code and its documentation part,
7 what is not modelled, 8 the plan.

## 1. The system

### Libraries and programs

| Part | State it keeps | Operations | Interacts with |
| --- | --- | --- | --- |
| Publisher channel, `glib/gpublisher.cpp` | control segment (magic, semaphore, sequence number, slots), data segment, a datagram socket per subscriber, names in /dev/shm | publish, open, receive, peek, close, purge, cleanup on a signal | every program; other processes through shared memory and datagrams |
| Fat pipe, `glib/gfatpipe.cpp` | control and data segment, socketpair, a descriptor not yet passed on | send, ping, receive, goodbye | `Gv::ImageOutput` (parent) and `Gv::ViewerInput` (child process) |
| Event loop, `gnet/geventloop_unix.cpp`, `geventhandler.cpp` | three handler lists with pending additions, cached fd-sets | add, drop, run, quit | every event handler, by callback; timers |
| Timers, `gnet/gtimer.cpp`, `gtimerlist.cpp` | a list of timers, the soonest | start, cancel, destroy, doTimeouts | the event loop, timer callbacks |
| Image cache, `gvideo/gvcache.cpp` | a ring of open files with a final path and a "same as" path each | store, commit | image output |
| Image output, `gvideo/gvimageoutput.cpp` | base directory, last path, publisher, pipe to a viewer | send (save, publish, pipe) | cache, publisher, fat pipe |
| Recorder, `main/recorder.cpp` | stopped, slow or fast, the state to drop back to, the time it went fast | channel events, commands, retry timer | channel, command socket, image output |
| Image input, `gvideo/gvimageinput.cpp` | a task per handler (conversion and image), the handler to resend to | add, remove, read event, resend | channel, handlers by callback |
| Http server, `gvideo/gvhttpserver.cpp`, `gvhttpserverpeer.cpp` | a state machine per connection; one input per channel | request lines, data timer, send complete, images, idle timer, delete | image input, sockets, event loop |
| Client connections, `gnet/gsimpleclient.cpp`, `gclient.cpp`, `gheapclient.cpp`, `gvideo/gvclientholder.h` | idle, resolving, connecting, connected; time-outs | connect, send, delete by timer, reconnect | resolver, event loop |
| Resolver, `gnet/gresolver.cpp`, `gfutureevent_unix.cpp` | a worker thread and an event socket | start, done, disarm | client connections |
| RTP, `gvideo/gvrtpserver.cpp`, `gvrtppacketstream.cpp` | fragments of one image, source filter | add packet, take image | network, image output |
| Http client, `gnet/ghttpclientprotocol.cpp`, `main/httpclient.cpp` | parser, authentication tried, watchdog and request timers | data, timers | client connections, image output |
| Rtsp client, `main/rtspclient.cpp` | place in OPTIONS, DESCRIBE, SETUP, PLAY; sequence number | responses | client connections, RTP |
| Camera, `gvideo/gvcamera.cpp`, `gvcapture_v4l.cpp` | device or none, open, read and send timers | open, read, lose the device | event loop, image output |
| Watcher, `main/watcher.cpp` | old image, interval start, repeat count | channel events, timers | channel, events channel, recorder |
| File player, `main/fileplayer.cpp` | place in a directory tree, ribbon, speed | timers, commands | event loop, image output |
| Viewer, `main/viewer.cpp`, `gvviewer*.cpp` | window | images, events | fat pipe, X11 or a terminal |
| alarm, channel, socket, webcamplayer, maskeditor | little | | channel or file |
| grlib, gxlib, the rest of glib and gnet | none that lasts | pure functions, wrappers | |

Each program is one thread around one event loop (the resolver's worker is the
one exception), so inside a process the interleaving is that of callbacks: what
they do to the lists that are being gone through, and what they find stale.
Between processes the channel and the fat pipe share memory; any step of one
process may come between two of another, and a process may be killed or
signalled anywhere.

### What is hard, and what makes each part correct

* **Channel.** A reader copies what a writer is rewriting and growing; slots
  change hands through four parties (subscriber, publisher, signal handler,
  administrator); the wake-up is a datagram that may find a full queue; a
  process can die with the semaphore. Correct if no read is torn, a live
  subscription keeps its slot and is reachable, descriptors are neither leaked
  nor lost, every open subscriber gets the newest message, and everybody hears
  of the end.
* **Fat pipe.** The parent moves to a bigger segment while the viewer reads the
  old one, and several moves may be queued. Correct if a type never goes with
  the payload of another message, messages come in order, and the last one
  arrives.
* **Event loop and timers.** Callbacks destroy handlers and timers, their own
  included, in the middle of the pass that called them; fd-sets and the soonest
  timer are cached. Correct if only registered handlers are called, `select()`
  is never given a closed descriptor, and a due timer goes off however busy the
  descriptors are.
* **Recorder and cache.** One image can be saved, cached, moved and saved to
  again. Correct if every file is named for what is in it, nothing is lost or
  kept twice, a fast command brings back the lead-in, the state drops back to
  the right one, and the channel is found again.
* **Http server.** The data timer, images, flow control, requests and deletion
  come in any order. Correct if a packet is built only when there is an image, a
  request or a stream always has its next event, nobody calls a deleted peer,
  and it is given the newest image, in the type asked for.
* **Client connections, httpclient, rtspclient.** A client is deleted by a timer
  after it has said that it is done, a thread looks up its host's name, and five
  timers, the socket and the other end take turns. Correct if nothing calls an
  object that is gone, there is always a client or a timer to make one, one
  request at a time is made and its answer awaited, and a dead connection is
  given up.
* **RTP.** Packets are lost, doubled and reordered by the network, and cameras
  replace one another. Correct if what is put together is one unit of one
  camera, an undisturbed unit always gets through, and the camera that is left
  is heard.
* **Camera.** Three timers and a descriptor, while the device is pulled out and put
  back; images are shared by pointers. Correct if no one's picture changes
  under him, pictures keep coming, and the last one does not stand for a live one.
* **File player.** An iterator that has read a directory before files are added to
  it, commands and clicks between time-outs, a ribbon that is scanned in slices.
  Correct if what a command moved to is shown, the newest file is reached, and
  the ribbon ends with the files of its day.

The hazards are listed one by one, each at its line, in `PROJECT.json`.

## 2. The modules

| Module | Models |
| --- | --- |
| `LatestValue` | abstract: a broadcast in which the newest message overwrites older ones |
| `Publisher` | the channel, one incarnation of it, any number of subscribers |
| `MCPublisher` | instances for TLC |
| `PublisherProofs` | theorems about `Publisher` |
| `FatPipe` | the pipe with both its users |
| `Subsequences`, `SubsequenceProofs` | what is left of a list when null pointers are erased, and lemmas about it; shared by several proofs |
| `TimerList` | timers: the calls, and the parts of `doTimeouts()` |
| `EventRegistry` | abstract: registering handlers and being called |
| `EventLoop`, `MCEventLoop`, `EventLoopProofs` | the loop; EXTENDS `TimerList` and says when its actions happen |
| `ImageCache` | image output's saving, and the cache |
| `Recorder`, `MCRecorder`, `RecorderProofs` | the program; EXTENDS `ImageCache` |
| `ImageInput` | the channel of the http server with its tasks |
| `HttpServer`, `MCHttpServer`, `HttpServerProofs` | the connections; EXTENDS `ImageInput` |
| `ClientStack` | a connection's states and timers, the delayed deletion, the resolver's thread, the client holder |
| `HttpClient` | httpclient with the http client protocol; EXTENDS `ClientStack` |
| `RtspClient` | rtspclient with its dialogue; EXTENDS `ClientStack` |
| `NetClient`, `MCNetClient` | one of the two programs; composes the three |
| `RtpPacketStream` | reassembly of JPEG and AVC units |
| `RtpServer`, `MCRtpServer` | rtpserver: filters, change of source, key frames; EXTENDS `RtpPacketStream` |
| `ReceptionProofs` | theorems about what receives images over the network: `NetClient` and `RtpServer` |
| `ImageBuffers` | shared images, and an image source that hands them out |
| `Camera`, `MCCamera` | a webcam's device and timers; EXTENDS `ImageBuffers` |
| `ViewingProofs` | theorems about images on their way from a camera to a viewer: `Camera` and `FatPipe` |
| `FileTree` | the iterators over a tree of files |
| `FilePlayer`, `MCFilePlayer`, `FilePlayerProofs` | fileplayer with its ribbon; EXTENDS `FileTree` |

Names follow the code: `m_tasks`, `m_soonest`, `m_old_state` are those members,
`NotifyOne` is `notifyOne()`, and so on. A definition whose comment begins
"Mutant of" is a plausible bug of the definition below it. It is used by no
specification; putting it in that definition's place breaks a property, which
shows that the property can see the code it is about. `PROJECT.json` says which.

### Publisher

One action is one step between two points where another process can get in.
`publish()` is `StartPublish` (before the lock: create the data segment),
`LockToPublish`, `WriteHeader`, `WritePayload`, `Notify` once per slot and
`EndPublish`. `Notify` has the four outcomes of `notifyOne()`'s caller: a poke
that gets through or finds the queue full, a fatal failure, a slot to be tidied,
a free one. `open()` is `OpenChannel` to `ReadInfo`, `receive()` and `peek()`
are `StartReceive` to `CopyPayload`, `close()` is `Close` to `CloseSocket`. A
signal puts a process into its cleanup handler wherever it is (`Terminate`,
`SignalSubscriber`), with whatever lock it holds; a kill leaves the segments as
they are. `Purge` is an administrator's.

A message is its serial number, written to the header and to the payload in two
steps. A socket is the process that bound it; a socket's path is absent, live,
or stale; a queue is its length; a slot's error is a flag.

### FatPipe

`send()` is `StartSend`, `LockToSend`, `WriteType`, `WritePayload`, and
`PokeChild` or `PokeFails`. A datagram with a descriptor waits for room, one
without does not, which is the code's difference between `sendmsg()` with and
without MSG_DONTWAIT. `receive()` is `StartReceive`, `FlushOne` repeatedly,
`FlushDone`, `LockToCopy`, `CopyPayload`, `CopyType`. The users are in it
because they decide whether the protocol works: the parent pings once a second
and takes a failed ping for a viewer that has gone; the viewer may rest between
images, which fills the queue.

### TimerList, EventLoop, EventRegistry

A program is any sequence of the interface's calls (`Open`, `Close`,
`AddHandler`, `DropHandler`, `Create`, `Destroy`, `StartTimer`, `CancelTimer`,
`Quit`), before `run()` and within any callback. Descriptors are allocated as
the kernel does, the lowest free one, so that numbers are used again at once.
The loop is `Prepare` (fd-sets, time to wait), `SelectReady` or `SelectTimeout`,
`TimerPass` and `TimerReturns`, `RaiseEvent` and `EventReturns` for each list,
`EndRaise` (pending additions are committed), `Bottom`. `EventRegistry` says in
six small actions what a user relies on; `EventLoop` implements it, with the
registration read off list and pending list together.

### ImageCache, Recorder

A file is the sequence of blocks written to it, each with the image it came
from, so that the tail of an old image behind a new one shows. `SaveOutcomes`
gives the results of saving, failures included; `CacheStore` and `CacheCommit`
are `store()` and `commit()`. The recorder's actions are its handlers: an image
(`ReadImage`), the loss of the channel (`ReadGone`), the timer, a command.
`Restart` is a kill and a new start: files stay, memory does not. The variables
`recent`, `lasting` and `settled` are history: the images since the last commit, the
state that the last slow or stop command (or the start) asked for, and whether the
last command and the start were in an earlier second.

### ImageInput, HttpServer

`Sent` is `sendImageInput()`'s three passes over the tasks: conversions are asked
for, done or copied from the first task with the same one, and handed out; tasks
without handlers are collected afterwards. A peer is a record (state, request,
image, data timer, source, blocked, dying); a send gives either "all sent" or
"blocked", at TLC's choice. A second send while blocked throws, as the socket
protocol does, which makes a dying peer, still connected to its source until a
timer deletes it.

### ClientStack, HttpClient, RtspClient, NetClient

An action is one callback: of a timer, of the socket, of the resolver's event.
The thread (`ThreadEnds`) runs by itself. Client objects are numbered and the
numbers are used again, so that what is left of an old object would reach a new
one. `On...` of `ClientStack` are the stack's callbacks; the programs' parts
(`HttpOnConnect`, `HttpOnData`, `RtspOnData` and so on) are conjoined with them
in `NetClient`. A send fails when the other end has gone, also the first, in
`onConnect()`. The other end answers, late or twice if it likes, closes or goes
silent. `served`, `shown`, `sent` and `replied` are history.

### RtpPacketStream, RtpServer

A packet is what the code reads of it (number, timestamp, flags, type, source)
with its unit and place, which only the properties read. A unit's packets are
consecutive; different units, of one camera or of two, may have the same numbers and
timestamps. The network is the choice
of any packet of a source that is there, at any time. `Begin`, `Contiguous` and
the rest are the code's tests, with the number 0 and the timestamp 0 taken as the
code takes them. `streak` is history: the packets of one unit that came in a row.

### ImageBuffers, Camera

A pointer is the number of a buffer; `Recycle` is `Gr::Image::recycle()`, which
allocates only if somebody else points to the buffer. A conversion that meets
another's image shows as "crossed". `Read` is `onReadTimeout()` and
`readEvent()` with `doRead()`, whose outcomes are `Acquire`, `FailsToAcquire`
(EAGAIN) and `LoseDevice` (ENODEV).

### FileTree, FilePlayer

An iterator is the position with the names that it has read, in the root and in
the directory where it is: what is added later is not among them. The tree has two
levels, days and files, as a recorder makes it by day. `FileTimeoutStopped`,
`FileTimeout` and `FileTimeoutAtEnd` are the three ways of `onFileTimeout()`. The
ribbon has the root that it was made for (`base`), where it scans, the root and the
day of the file that brought it there, and the files that it knows, each with its
root; each slice of the scan sees one file or all the rest. `move --root` leaves all of
that as it is. Whether the ribbon takes a file of the new root depends on the length
of the root's name (`Length`, `Timestamped`), since it looks for the time where it
was in its own root's paths. `shown`, `told` and `ribbon.was` are history.

## 3. The runs

Passing runs explore the whole state space of their instance.

| Run | Instance | States | Shows |
| --- | --- | --- | --- |
| `Publisher_safety` | 2 subscribers, 1 slot, 2 messages, sizes 1 and 12, sequence numbers 0..2, queue of 1, purge without lag; every process may be killed or signalled anywhere | 2.30 million | the proofs' invariants `ReadInvariant` and `SlotInvariant`; types; descriptors balanced; no message received twice; refinement of `LatestValue` |
| `Publisher_live` | 2 subscribers for one slot, nobody killed | 57 thousand | everyone catches up; the goodbye ends every subscription that has been opened; the publisher ends |
| `Publisher_hang` | a signal to the publisher | violation | a signal in `publish()` deadlocks the process |
| `FatPipe_pipe` | 4 messages of 2 sizes, queue of 2, rate limit, both may be killed | 93 thousand | types and copies, whole messages among them (`PipeInvariant`); order; last message arrives; `send()` returns |
| `EventLoop` | 2 handlers, 2 timers, 2 descriptors, 2 kinds of event, 3 calls, 5 times | 486 thousand | `LoopInvariant` (types, soonest timer right, no closed descriptor selected, handlers there); no newcomers in a pass; timers go off; refinement of `EventRegistry` |
| `Recorder` | 4 images, 2 commands, cache of 2, one loss of the channel, one restart, 2 sets of options | 1.80 million | `RecorderInvariant` (types, names, cache contents, nothing twice); lead-in; no image lost; drop back; reattach |
| `HttpServer` | 2 connections, 2 requests of 4 kinds, 2 types, 3 images, one loss of the publisher | 1.08 million | `PeerInvariant` (types, image there, keeps going, no dangling peer); newest image given; conversion |
| `HttpServer_stale` | the same with 2 images and no loss | violation | an image does not reach a peer |
| `NetClient` | 2 client objects; httpclient with watchdog, with credentials, and with `--once`; rtspclient; 3 items or 5 answers a connection, 2 in the socket | 538 thousand | `ClientInvariant` (lifetimes, one request, dialogue in step); images once and in order; dead connections given up |
| `Rtp` | 3 cameras, 12 units of up to 4 packets, numbers modulo 16 | 24 thousand | units whole, but for the mistakes that the code cannot help; an undisturbed unit gets through; the camera that is left is heard |
| `Camera` | 2 clients, one of them raw or jpeg, 2 sets of options | 266 thousand | `CameraInvariant` (types, images unchanged, always waiting for something); pictures come; a loss shows |
| `FilePlayer` | 3 days of 2 files, one bad, some to come; 2 commands; 4 roots; 4 sets of options | 21 thousand | `PlayerInvariant` (types, direction, ribbon); moves are shown; the newest file is shown |

### Bounds, and why they are enough

*Publisher.* Two subscribers is the least at which one slot passes from one to
another while a third party (the publisher, an administrator) looks at it. That
subscriptions in different slots do not touch is what the theorems say for any number
of slots. Sizes 1 and 12 make the second
message grow the segment (1 gives room for 11). Three sequence numbers make it
wrap, past the zero that is skipped. A queue of one is full after one poke.
With `PurgeLag = 0` the shortest lag counts (10 in the code), which lets a purge
happen more often, never less. One number is too small on purpose: with a
modulus of 3 a third message would bring the first one's number back, but no more
than two are published, so the wrap-around's ABA case (one message in 2^64) is not
checked. `Publisher_live` has the same numbers.

*FatPipe.* Four messages allow two segments and a return to the first sizes; a
queue of two holds a descriptor behind an ordinary poke.

*EventLoop.* Three calls are what the worst case needs: destroy a handler in a
pass, open another with the same number, register it. A list of three timers
includes a null pointer left by a destroyed one.

*Recorder.* Two ticks a second and a cache of two let the ring go round, two
images share a second, and the fast time-out pass. A repeated last image may
exceed `MaxImages` by the number of losses.

*HttpServer.* Two requests are enough for a second one on a kept connection or
one on each of two; the four kinds of request lead to every state of a peer.
Peers are symmetric.

*NetClient.* A second client object is what a holder makes while the first waits to
be deleted; more than two never exist at a time that the timer of zero lets pass.
Three items let a stream have parts behind the one that is shown; the rtsp dialogue
takes four answers, or five with credentials, of which some may come twice. The programs differ in which timers they have;
credentials and the watchdog, which do not touch, are not combined.

*Rtp.* The units are chosen for the cases of the code: four fragments across the
wrap, two units with one timestamp, a timestamp of zero, a source number of zero,
packets of other types, and forms that are invalid or aggregate; and units that
can be taken for one another: numbers that come again (`d`), and another camera's
with the same number and timestamp (`l` and `m`). `MaxKept`
bounds the buffer, which the code does not: a packet that would exceed it is not
received, so that a buffer of four is always room for the longest unit.

*Camera.* One picture is enough, since a buffer with another's image shows as
such. Two clients are the least for a task that is taken over by another.

*FilePlayer.* The middle day has no files at first and the recorder fills it or the
last one; two commands between time-outs can undo one another. Beside the main root
there are one with a name as long, an empty one, and one with a longer name. One of the
option sets sends `move --root`, to a player that has a ribbon and may have been
turned.

`CHECK_DEADLOCK FALSE` is set where a system may really stop: a publisher that
has gone, a closed pipe, a program out of calls, a program that quits, a camera
without clients. The `HttpServer` run checks for deadlock.

### The violations

They are the first two points of section 6.

## 4. Fairness

*Publisher.* Weak fairness would not do for the semaphore, where others may
barge in: `sem_wait` is a futex queue on which a waiter is woken in turn, so
each process has strong fairness of all its own steps together (a process is at
one place at a time). `StartReceive` is strongly fair while a datagram is
queued, since `select()` reports it each time round. Publishing, opening,
peeking and closing are never forced; an exception thrown out of `receive()`
unwinds to `Close`.

*FatPipe.* The same for both processes. In addition `flush()` ends: it reads
faster than pings arrive at one a second. That is written as `[]<>(rpc # "flush")`.

*EventLoop.* The loop's own steps and the return of callbacks are weakly fair,
and time passes. No descriptor is forced to be ready, and none is kept from
being ready always: `TimersGoOff` holds against that.

*Recorder.* The event loop calls the handler of a lost channel, and the timer.
Images and commands are not forced.

*NetClient.* Timers go off, a connection attempt ends one way or the other, what can
be read is read, and the resolver's thread ends. Nothing is asked of the other
end, neither that it answers nor that it closes.

*Rtp.* Time passes, and a camera that stays sends some packet again and again;
which one is not said.

*Camera.* Timers go off and a device that is there has an image some time. Reading
is strongly fair in succeeding, as a device that answers EAGAIN for ever would
never send a picture.

*FilePlayer.* The two timers go off.

*HttpServer* has no liveness property; `KeepsGoing` states instead, as an
invariant, that whatever has something to do next has the event that makes it.

## 5. The proofs

All are for every value of the constants, under the named assumptions in the
modules: that bounds are numbers, that null pointers are nobody, that sets which the
code keeps in lists are finite, and for `Rtp` that a camera numbers the packets of a
unit consecutively, as the standards say. The hypotheses beyond
them are two, where they are named: `Denied = {}` for the channel, and `MaxFaults = 0`, that
every image can be saved, for the recorder. A
property is seldom inductive as it stands; for each component there is an
inductive invariant, one lemma for each action that preserves it, and a theorem
that puts them together.

**`PublisherProofs`.**
`TypeCorrect` (`TypeOK`). `ReadsLocked` (`ReadInvariant`), with
kills and signals at any step: that no copy is torn depends on who holds the semaphore
(`LocksHeld`), and on a half-written message never being left without it, with room
for it in the segment (`MessageWhole`). A killed process never gives the semaphore
back, which is what makes the case of a kill go through, at the price of blocking
everyone (section 6). `NoDescriptorLost` (`DescriptorsBalanced`) counts descriptors:
cardinalities of the slots that have one, before and after each step, with a failed
slot's being closed (`FailedClosed`).

Its second half holds if the publisher may use every subscriber's path
(`Denied = {}`; without it `notifyOne()` fails for reasons that the slots cannot
show). `SlotsAgree` (`SlotInvariant`): a slot in use belongs to one live subscription, or
to a process going or gone (`SlotHolders`); a subscriber that is not connected has its
socket under its path (`SubscriptionsKept`); and the channel is defunct only on the
way out, when a slot may fail but can no longer be found and purged
(`DefunctOnTheWayOut`). Without the last part, `purge()` after the goodbye would be a
counterexample. So no subscription loses its slot and none is
skipped. `PromiseKept` (`ImplementsLatestValue`): every step is a step of `LatestValue`
or changes nothing of it. It needs `PromiseInvariant`, that the number of the message in
the segment is the number published, and that a slot whose sequence number differs
from the segment's is that of a subscription that has not had the message; the wrap
of the sequence number does no harm because a slot's number is compared by equality
with a number that is never zero (`SeqNotZero`). `NeverTwice` (`NothingTwice`): a
`receive()` returns a newer message than the last one did, although a poke may be left in the
socket from a message that has been read. The numbers of the segment and of the slot
differ only if the slot's subscription has not had the message; and before anything
has been published nobody is poked, nor reads because of a poke (`FirstPoke`).

**`ViewingProofs`**, the fat pipe, for any number and size of messages and any length of the queue.
`PipeCorrect` (`PipeInvariant`), in which a type never goes with the payload of
another message: `CopyInvariant` adds that copies are made under the
semaphore, that a segment with data whose type and payload differ is the one being
written, and that every segment number on its way (in the pipe, in `flush()`, mapped)
is one that was made. `NeverBack` (`MessagesInOrder`): later segments hold later
messages (`SegmentsRise`), later datagrams pass later segments (`DescriptorsRise`), and
what is unread where the viewer looks is later than what it was handed
(`NewsAhead`).

The camera, for any number of handlers and any conversions. `CameraRight`
(`CameraInvariant`), which is inductive. That a kept image does not change
(`HeldUnchanged`) needs that what `recycle()` returns is kept by no handler
(`Recycled`): the buffer itself if its count is one, which is the caller's own
pointer (`Uses`), and otherwise one that nobody points to, of which there is one
because the other pointers are fewer than the buffers (`SomeFree`, the pigeonhole
principle). A conversion writes to such a buffer only (`ConvertKeeps`), so the whole
list of tasks does (`ConvertedKeeps`, by induction over the list); and a buffer is
freed only when nobody points to it (`FreedKeeps`). `WatchingStep` goes through the
timers, reads and pulled plugs.

**`EventLoopProofs`**, for any handlers, descriptors, timers and calls in any callback.
`LoopCorrect` (`LoopInvariant`): `TimersKept` says that between passes the soonest timer
is the least of those running, which rests on what `FindSoonest` returns;
`OwnersRight`, that a descriptor is registered for its owner only and that additions
wait only while their list is locked; `ValidRight`, that an fd-set that is taken to
be valid is the list's. `NewcomersWait` (`NoNewcomersInPass`). `LoopRefines`
(`ImplementsRegistry`): each step of the loop and each call maps to one of
`EventRegistry`'s six actions or a stutter.

**`RecorderProofs`**, for a cache of any size and any images, commands, losses of the
channel and restarts. Two inductive invariants. `CacheInductive` holds whatever fails to
be saved: the open entries are the last images since the last commit, each where
the ring has it by its age (`Ring`), each with its image first in its file
(`EntriesRight`), and while the recorder is fast the cache is empty and the old state is
the one last asked for (`StateRight`). From it `CacheRecent` (`CacheHoldsRecent`),
`LeadInRight` (`LeadIn`) and `DropsBackRight` (`DropsBack`), with any number of
failures. `RecorderInductive` adds what holds if every image is saved (`MaxFaults = 0`;
with a failure it is false, section 6, 5): a file is named for the image it
begins with and no two begin with the same (`Filed`), the "same as" path of an entry is
the file which holds its image, or there is none (`Saved`), and that file is not written
again, because its second is over or it is the file saved last (`SavedLast`). From it
`RecorderRight` (`RecorderInvariant`). `NothingLostRight` (`NothingLost`) is about
images, not names: an image leaves the store only when a later one takes the
name of its second or its instant. That a commit loses none to an older one, nor to one
that was not in the cache, needs that no cached image is older than one of its second
that is in the store (`CachedLater`), which is so because a slow recorder has saved the
first of them (`SlowSaved`); that saving loses none needs that where a recorder would
save next there is at most the file that it saved last, unless it was started or had
a command in this second (`SettledRight`). A commit
moves the entries one after the other, by a recursive function: that there is such
a function (`StepsExist`) and what holds after each of its steps (`CommitSteps`; of the
images that were there, `KeptIn`) are proved by looking at the least step for which they
would not hold (`UpToLast`).

**`HttpServerProofs`**, for any number of connections, requests and types. `PeersGoOn`
(`PeerInvariant`): each peer by itself has its image, timer and blocked socket as its
state requires (`PeerRight`), a peer has a source exactly if it has a task, and a handler
has one task at most (`TasksTyped`). `TypesRight` (`Converted`) and `NewestGiven`
(`Newest`) follow from what the three passes of `sendImageInput()` hand out
(`GivenRight`): an image has the type of its task's conversion, whichever task it is
copied from. The proof that images come in order, which the property was at first,
failed at a task whose handler has left; the property is false with three requests
(section 6, 2).

**`ReceptionProofs`**, the clients, for any number of client objects and any options. `ClientsKept`
(`ClientInvariant`): the stack's part (`SessionInvariant`, `SocketInvariant`: what the
holder, the timers, the socket's events and the resolver's thread agree upon) is
proved for each of the stack's callbacks, then the two programs' parts on top of
it (`HttpInvariant`, `RtspInvariant`: the requests and answers under way).
`ImagesInOrder` (`ShownInOrder`): httpclient shows the images of a connection once and
in order.

RTP, for any cameras, packets and losses, and streams of any length. `UnitsWhole`
(`WholeUnits`) and `UnitsHeard` (`Heard`), from `StreamInvariant`: what is kept has one
timestamp, and if its numbers follow one another its fragments do, as far as the
code can tell (`BufferFollows`); a unit that has come without a break is what is kept
(`StreakKept`). What the standards ask enters by `PacketsAssumption`: the packets of a
unit have one timestamp, consecutive numbers modulo the width, and marks at both ends;
nothing is assumed of two units or two cameras. So numbers and timestamps
may come again, and a fragment may be taken for another's. `WholeUnits` names what
the code can mistake and nothing else: a fragment with the number and
timestamp of the right one or with the number zero (`Mistaken`), or a missing beginning
when the timestamp is zero (`Beheaded`). A unit in which neither occurs is whole.

**`FilePlayerProofs`**, for any tree, any additions to it and any commands and clicks.
`PlayerRight` (`PlayerInvariant`) and `MovesAreShown` (`MovesShown`), from `PlayerKept`:
what an iterator has read was there and still is (`ReadFrom`, which each of the
iterator's operations preserves and each addition leaves true); what a scan has yet to
find is ahead of it (`Ahead`), which a slice keeps because it passes one name and
goes on to the least that is greater (`SliceRight`), and with which a new scan begins
because `reposition()` finds the day's first file (`SeekDay`); what the player was told
to move to is still where its iterator is, not to be skipped, or has been shown
(`ToldKept`). Nothing but their types
is assumed about options, `move --root` among the commands: what the ribbon's scan
finds is under its own root, whatever root the player has gone to, and only then is it
complete (`RibbonRight` says so by the root of the file that brought it to its day).
That iterator and player agree on the direction holds in full for a player that is
not sent `move --root`; otherwise only that an iterator in reverse belongs to a player
in reverse (`SameDirection`; section 6).

**`SubsequenceProofs`** holds lemmas for the two places where the code erases null pointers
from a list in place (`collectGarbage()`): what is left is there, in order, once;
that a set of numbers has a least one, and from it induction over a list (`UpToLast`).

Every invariant and action property that a passing run checks is proved, and both
refinements. Only model-checked is what needs fairness, which TLAPS does not do:
`EveryoneCatchesUp`, `GoodbyeIsHeard`, `PublisherEnds`, `LastMessageArrives`,
`SendReturns`, `TimersGoOff`, `Reattaches`, `Recovers`, `TakesOver`, `PicturesCome`,
`LossShown`, `NewestShown`.

## 6. Where the code and its documentation part

1. **A signal in `publish()` hangs the publisher** (run `Publisher_hang`,
   `glib/gpublisher.cpp:592`). The cleanup handler takes the semaphore that the
   interrupted code of the same thread holds. `gpublisher.h:62` says that a
   publisher that goes away notifies its subscribers.

2. **An image may not reach a peer** (run `HttpServer_stale`,
   `gvideo/gvimageinput.cpp:124`). A converted image is copied from the first task with
   the same conversion, even if that task's handler has just left, in which case it
   still holds the image before. `gvimageinput.h:183` says that all handlers are
   notified of any new images. The copy can
   be copied in turn, so that with three requests a stream to which the newest image
   was sent again (`resend()`) is given an older one after it.

The following are stated in the modules, under the names given, and TLC refutes
them with the constants given; no run is kept for them.

3. **The end of a fat pipe may go unnoticed** (`FatPipe.GoodbyeArrives`, with
   `FatPipe_pipe.cfg` and `Sizes` 2, `RateLimited` FALSE, `Mortal` empty;
   `glib/gfatpipe.cpp:78`, `gfatpipe.h:189`). It is told by one datagram that is
   dropped when the queue is full.
4. **A cached image may have the tail of another** (`Recorder.WholeImages`; sizes 1
   and 2, no loss and no restart; `gvideo/gvcache.cpp:114`, `gvcache.h:59`). The
   open cache file is overwritten, not truncated.
5. **The "same as" path may be wrong** (`Recorder.SameAsTrue`; one failing write;
   `gvideo/gvimageoutput.cpp:358`, `gvcache.h:64`). It is passed on also when saving
   failed. With a failing write `RecorderInvariant` does not hold either, which is
   why the run has none.
6. **A server that never answers keeps httpclient for ever**
   (`NetClient.SilenceNoticed`; `main/httpclient.cpp:173`, where `:24` promises a
   watchdog). The watchdog starts with the first data.
7. **A client can be sent a black image after a real one** (`Camera.RealImages`;
   `gvideo/gvcamera.cpp:183`, `gvimageinput.h:138`). `blank()` makes the source
   point to a new buffer when a client keeps the old one, and a read that finds
   nothing leaves it empty; what is sent again is that.
8. **A subscriber that opens while the publisher goes away leaves its slot claimed**
   (`Publisher.OpenLeavesNothing`, with `Publisher_live.cfg`; `glib/gpublisher.cpp:440`).
   `open()` subscribes and then reads the segment for its info, which throws when the
   publisher has gone. The caller has no subscription and the slot is not released,
   where `open()` itself asserts that it has not subscribed (`:447`). This is why
   `GoodbyeIsHeard` speaks of the subscriptions whose `open()` has returned.
9. **`move --root` makes a player in reverse go forwards**
   (`FilePlayer.AlwaysSameDirection`; `main/fileplayer.cpp:642`, `:651`, `:1071`). The new
   tree goes forwards and the player's direction is left as it was, which breaks the
   program's own assertions.
10. **`move --root` leaves the ribbon behind** (`FilePlayer.AlwaysRescanned`;
   `main/fileplayer.cpp:651`, `gvideo/gvribbon.h:172`). The ribbon keeps the base that it
   scans: a file of the new root is added to it if the day is the same, or empties it
   and is not followed by a scan of that day if it is another; and a file of a root with a
   longer or shorter name is not seen by it. Clicks on its files do not move the player
   while it is under another root.
11. **A move may fail though there are files after the path**
   (`FilePlayer.FindsFile`; `glib/gfiletree.cpp:98`, `gfiletree.h:89`). When the
   path's directory is not there `down()` goes to a later one, and the file's name is
   looked up in that all the same.

Noticed while modelling, in the models as the code has it, with no run of their
own:

* A process killed while it holds a semaphore blocks all others for good; and
  `glib/gsemaphore_posix.cpp:74` goes on when `sem_wait` is interrupted.
* `receive()` throws when the publisher goes before it has published
  (`gpublisher.cpp:847`), where `gpublisher.h:80` has it return false; the
  socket path of a subscriber that goes before it is first notified stays in the
  filesystem (`:681`), where `gpublisher.h:86` says that it is unlinked.
* A slow viewer makes `FatPipe::send()` throw (`gfatpipe.cpp:259`); two
  descriptors in one `flush()` leak the first (`:302`).
* The results of one `select()` serve for the timers and three lists: a
  descriptor closed and opened in between is given the old one's event
  (`geventloop_unix.cpp:327`). Only within one list is it kept from
  that. An exception out of a timer leaves `doTimeouts()` (`gtimer.cpp:98`).
* A recorder that is started again, or has had a command, in a second for which there
  is a file writes over it, and the earlier image is lost; `gvimageoutput.cpp:370`, which
  keeps the old contents, sees only the path saved last. A commit does the same to an
  image of the same second or instant.
* The recorder records the last image once more when it loses the channel
  (`recorder.cpp:288`); it takes the command `stop` (`:318`) where its
  documentation has `stopped` (`:28`); the fast time-out is looked at only when the
  channel has something (`:264`).
* A second quick request takes the place of the first in `m_resend_to`
  (`gvimageinput.cpp:228`); a kept connection may be sent an image in the type of its
  earlier request (`gvhttpserverpeer.cpp:170`), which is why `Converted` speaks of
  images as they are given and not as they are sent; a short response that blocks
  leaves an idle peer whose next response throws (`:614`).
* A publisher that is killed leaves its segments (`gsharedmemory.cpp:127`); a
  second signal runs the cleanup handlers again within the first
  (`gcleanup_unix.cpp:225`).
* `rtspclient` with a connection timeout quits also with `--retry`
  (`rtspclient.cpp:434`); `httpclient` never uses its `--connection-timeout`
  (`httpclient.cpp:148`, `:346`). After a connection that was authenticated the next
  request goes without credentials and the 401 that follows ends the program. A 503
  answer without a watchdog is waited on for ever (`:179`). Of several parts in
  one read only one is shown, and the rest at the next read
  (`ghttpclientprotocol.cpp:83`).
* `RtpServer` ignores the stale time-out it is given (`gvrtpserver.cpp:46`), keeps
  to the type of the first packet it ever got, and never to a source with the
  number 0. AVC fragments are kept without bound. A fragment with the number 0 is
  taken to follow any number (`gvrtppacketstream.cpp:158`) and a timestamp of 0 for
  none; and a change of source does not clear the buffer, so that the fragments of
  another camera go on from those of the last if number and timestamp fit. These are
  the exceptions that `WholeUnits` makes. An aggregation packet throws
  (`gvrtpavcpacket.cpp:111`) before it comes to the code that would pass over it.
* `move --match-name` makes a new tree rooted at the name (`fileplayer.cpp:665`), where
  the program's own comment (`:64`) has it change the filter. `RibbonScanner::work()` asserts that a scan is going on (`:1175`), which
  a new scan that is done at once makes false. Files that come between the last one
  known and the newest are passed over at the end of the list (`:508`). A change of
  day clears the mark of the file shown. The `ribbon` command without a ribbon takes
  a size of zero less one (`:717`), and before there is a ribbon looks where none is;
  neither is modelled.
* The watcher measures its interval by the clock on the wall, so that a step back
  keeps it from comparing; `equalise=on` finds no histogram if it was not on from
  the start; it keeps its old image while the channel is away.

## 7. What is not modelled

* Of the modelled parts: a channel created again under the same name; deleting
  and listing channels; the viewer's static-image option; interrupted system
  calls and exceptions out of callbacks in the event loop; failing conversions;
  failures of the cache's own files; http headers and file types; starting the
  viewer's process; SOCKS and proxies; partial requests; scaling and the decoding
  of AVC units; deeper directories, deleted files, fading and sleeping times in the
  file player, and in it a root whose name is so many characters shorter or longer that
  the ribbon reads another part of its paths as a time.
* Pure data: grlib (codecs, scaling, colour), glib's strings, paths, dates,
  options, items and URLs, masks, overlays, fonts. Nothing in them is concurrent
  or lasting; tests are the tool for them.
* Wrappers: gxlib, addresses, sockets, processes, identity. What the kernel
  does with names, queues, locks and descriptors is in the models that use it.
* The watcher: its channel handling is the recorder's, what it does between is the
  comparison of images and the drawing of differences, with one timer that repeats
  an event.
* The line buffer, socket protocol and buffered peers below the http server and
  the clients: what a read or a send may bring about is a choice in those modules.

## 8. The plan

Done, in this order, the most important first: the channel and its proofs; the
fat pipe and its proof; event loop and timers; recorder and cache; http server;
client connections with the http and rtsp clients; RTP; camera and image buffers;
file player and its iterators.

Done as proofs: channel, fat pipe, event loop and timers, recorder and cache, http
server, client connections, RTP, camera and image buffers, file player, and both
refinements: nothing that TLAPS can do is left of what the runs check.

Next, models, both small: the watcher's repeat timer over the recorder's command
socket, and `LineBuffer` as a function against a reference definition.
