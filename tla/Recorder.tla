------------------------------ MODULE Recorder ------------------------------
(***************************************************************************)
(* The recorder program (main/recorder.cpp): it records the images of a    *)
(* channel as they come (fast), one a second (slow) or not at all          *)
(* (stopped), and keeps the latest images in its cache when it is not      *)
(* fast, so that they can be recorded after the event.                     *)
(*                                                                         *)
(* The environment publishes images of various sizes, goes away and comes  *)
(* back, sends commands, and kills the recorder and starts it again.       *)
(* Abstractions: no image conversion; the channel is what the recorder     *)
(* can see of it, whether it is attached and the publisher still there.    *)
(***************************************************************************)
EXTENDS ImageCache

CONSTANTS
  Options,       \* the --state, --fast and --once that it may be run with
  FastTimeout,   \* --timeout, in seconds
  Sizes,         \* the sizes of images
  MaxNow,        \* bound: the last instant
  MaxImages,     \* bound: number of images published
  MaxCommands,   \* bound: number of commands
  MaxGone,       \* bound: number of times that the publisher goes away
  MaxFaults,     \* bound: number of files that cannot be saved
  MaxRestarts    \* bound: number of times that the recorder is killed

ASSUME RecorderAssumption ==
  /\ Options \subseteq [base : {"slow", "stopped"}, fast : BOOLEAN, once : BOOLEAN]
  /\ FastTimeout \in Nat /\ Sizes \subseteq Nat \ {0}
  /\ MaxNow \in Nat /\ MaxImages \in Nat /\ MaxCommands \in Nat
  /\ MaxGone \in Nat /\ MaxFaults \in Nat /\ MaxRestarts \in Nat

VARIABLES
  option,       \* the options that it is run with
  now,          \* the time of day
  m_state, m_old_state, m_fast_time,
  m_image,      \* the size of the last image received; zero is none
  m_channel,    \* closed, attached to the publisher, or to one that has gone
  m_timer,      \* whether the retry timer is running
  up,           \* whether there is a publisher
  ended,        \* whether the recorder has ended
  images, commands, gone, faults, restarts,
  recent,       \* history: the shots that the cache ought to have
  lasting,      \* history: the state to go back to from fast
  settled       \* history: whether it was started, and had its last command,
                \* before this second

recording == <<m_state, m_old_state, m_fast_time>>
channel   == <<m_channel, m_timer, up, ended>>
counters  == <<commands, gone, restarts>>
vars == <<option, now, storeVars, recording, m_image, channel, images, faults,
          counters, recent, lasting, settled>>

(* Shots are numbered, as the last image may be recorded again. *)
Shot(size) == [id |-> images + 1, size |-> size, at |-> now]

Shots == [id : 1 .. MaxImages + MaxGone, size : Sizes, at : 0 .. MaxNow]
Paths == (1 .. 1 + (MaxNow \div PerSec)) \X (0 .. PerSec)

TypeOK ==
  /\ DOMAIN files \subseteq Paths
  /\ \A x \in DOMAIN files : files[x] \in Seq(Shots)
  /\ \A i \in Entries : entry[i] = ClosedEntry
       \/ entry[i] \in [open : {TRUE}, shot : Shots, same : Paths \union {NoPath}]
  /\ cached \in [Entries -> Seq(Shots)]
  /\ m_p \in Entries \union {1} /\ m_old_path \in Paths \union {NoPath}
  /\ m_state \in {"stopped", "slow", "fast"}
  /\ option \in Options
  /\ m_old_state \in {"init", "stopped", "slow"}
  /\ m_fast_time \in 0 .. MaxNow
  /\ m_channel \in {"closed", "attached", "gone"}
  /\ m_timer \in BOOLEAN /\ up \in BOOLEAN /\ ended \in BOOLEAN
  /\ settled \in BOOLEAN

(* setState() from s_init to the base state, and then to fast if asked;    *)
(* the channel is there or is waited for.                                  *)
Started ==
  /\ m_state' = IF option.fast THEN "fast" ELSE option.base
  /\ m_old_state' = IF option.fast THEN option.base ELSE "init"
  /\ m_fast_time' = IF option.fast THEN now ELSE 0
  /\ m_image' = 0 /\ m_old_path' = NoPath
  /\ entry' = [i \in Entries |-> ClosedEntry] /\ m_p' = 1
  /\ m_channel' = IF up THEN "attached" ELSE "closed"
  /\ m_timer' = ~up /\ ended' = FALSE
  /\ recent' = <<>> /\ lasting' = option.base /\ settled' = FALSE

Init ==
  /\ option \in Options
  /\ now = 0 /\ files = <<>>
  /\ entry = [i \in Entries |-> ClosedEntry] /\ cached = [i \in Entries |-> <<>>]
  /\ m_p = 1 /\ m_old_path = NoPath
  /\ m_state = IF option.fast THEN "fast" ELSE option.base
  /\ m_old_state = IF option.fast THEN option.base ELSE "init"
  /\ m_fast_time = 0 /\ m_image = 0
  /\ up \in BOOLEAN /\ m_channel = IF up THEN "attached" ELSE "closed"
  /\ m_timer = ~up /\ ended = FALSE
  /\ images = 0 /\ commands = 0 /\ gone = 0 /\ faults = 0 /\ restarts = 0
  /\ recent = <<>> /\ lasting = option.base /\ settled = FALSE

-----------------------------------------------------------------------------
(* States *)

\* Mutant of SetState: the old state is taken down only once.
SetStateOnce(state) ==
  /\ m_fast_time' = IF state = "fast" THEN now ELSE m_fast_time
  /\ m_old_state' = IF state = "fast" /\ m_old_state = "init" THEN m_state
                    ELSE m_old_state
  /\ m_state' = state

SetState(state) ==
  /\ m_fast_time' = IF state = "fast" THEN now ELSE m_fast_time
  /\ m_old_state' = IF state = "fast" /\ m_state # "fast" THEN m_state
                    ELSE m_old_state
  /\ m_state' = state

(* checkState(): fast for a while? *)
FastForLong ==
  /\ m_state = "fast" /\ FastTimeout # 0
  /\ (now - m_fast_time) \div PerSec > FastTimeout

CheckState == IF FastForLong THEN SetState(m_old_state) ELSE UNCHANGED recording

-----------------------------------------------------------------------------
(* Images *)

LastOf(shots) ==
  IF Len(shots) > CacheSize THEN SubSeq(shots, Len(shots) - CacheSize + 1, Len(shots))
  ELSE shots

\* Mutant of Record: images are cached only if they have not been saved.
RecordUnsaved(size) ==
  LET shot == Shot(size) IN
  \E out \in IF m_state' = "stopped" THEN {SaveSkipped}
             ELSE SaveOutcomes(shot, m_state' = "fast") :
    /\ images' = images + 1
    /\ out.failed => faults < MaxFaults
    /\ faults' = IF out.failed THEN faults + 1 ELSE faults
    /\ files' = out.files /\ m_old_path' = out.old
    /\ IF m_state' # "fast"
       THEN /\ IF out.path = NoPath THEN CacheStore(shot, out.path)
               ELSE UNCHANGED cacheVars
            /\ recent' = LastOf(Append(recent, shot))
       ELSE UNCHANGED <<cacheVars, recent>>

(* onImageInput(), in the state that checkState() leaves.  ImageOutput's   *)
(* directory is empty when the recorder is stopped.                        *)
Record(size) ==
  LET shot == Shot(size) IN
  \E out \in IF m_state' = "stopped" THEN {SaveSkipped}
             ELSE SaveOutcomes(shot, m_state' = "fast") :
    /\ images' = images + 1
    /\ out.failed => faults < MaxFaults
    /\ faults' = IF out.failed THEN faults + 1 ELSE faults
    /\ files' = out.files /\ m_old_path' = out.old
    /\ IF m_state' # "fast"
       THEN CacheStore(shot, out.path) /\ recent' = LastOf(Append(recent, shot))
       ELSE UNCHANGED <<cacheVars, recent>>

(* readEvent(): an image has been published. *)
ReadImage ==
  /\ ~ended /\ m_channel = "attached" /\ images < MaxImages + gone
  /\ CheckState
  /\ m_image' \in Sizes
  /\ Record(m_image')
  /\ UNCHANGED <<option, now, channel, counters, lasting, settled>>

\* Mutant of ReadGone: the timer is not started.
ReadGoneQuietly ==
  /\ ~ended /\ m_channel = "gone"
  /\ CheckState
  /\ m_channel' = "closed"
  /\ IF m_image # 0 THEN Record(m_image)
     ELSE UNCHANGED <<storeVars, images, faults, recent>>
  /\ UNCHANGED <<option, now, m_timer, ended, m_image, up, counters, lasting, settled>>

(* readEvent(): the publisher has gone away.  The last image is recorded   *)
(* once more.                                                              *)
ReadGone ==
  /\ ~ended /\ m_channel = "gone"
  /\ CheckState
  /\ m_channel' = "closed"
  /\ IF option.once
     THEN /\ ended' = TRUE
          /\ UNCHANGED <<m_timer, storeVars, images, faults, recent>>
     ELSE /\ m_timer' = TRUE
          /\ IF m_image # 0 THEN Record(m_image)
             ELSE UNCHANGED <<storeVars, images, faults, recent>>
          /\ UNCHANGED ended
  /\ UNCHANGED <<option, now, m_image, up, counters, lasting, settled>>

(* onTimeout(); if there is still no publisher the timer is started again. *)
RetryTimeout ==
  /\ ~ended /\ m_timer /\ up
  /\ m_channel' = "attached" /\ m_timer' = FALSE
  /\ UNCHANGED <<option, now, storeVars, recording, m_image, up, ended, images,
                 faults, counters, recent, lasting, settled>>

-----------------------------------------------------------------------------
(* Commands *)

(* onCommandSocketData() *)
Command ==
  /\ ~ended /\ commands < MaxCommands
  /\ commands' = commands + 1 /\ settled' = FALSE
  /\ \E state \in {"fast", "slow", "stopped"} :
       /\ SetState(state)
       /\ lasting' = IF state = "fast" THEN lasting ELSE state
       /\ IF state # "stopped" THEN CacheCommit(state = "slow") /\ recent' = <<>>
          ELSE UNCHANGED <<files, cacheVars, recent>>
  /\ UNCHANGED <<option, now, m_old_path, m_image, channel, images, gone, restarts, faults>>

-----------------------------------------------------------------------------
(* The environment *)

PublisherComes ==
  /\ ~up /\ up' = TRUE
  /\ UNCHANGED <<option, now, storeVars, recording, m_image, m_channel, m_timer,
                 ended, images, faults, counters, recent, lasting,
                 settled>>

PublisherGoes ==
  /\ up /\ gone < MaxGone /\ up' = FALSE /\ gone' = gone + 1
  /\ m_channel' = IF m_channel = "attached" THEN "gone" ELSE m_channel
  /\ UNCHANGED <<option, now, storeVars, recording, m_image, m_timer, ended,
                 images, faults, commands, restarts, recent, lasting, settled>>

(* The recorder is killed, which leaves its files, and started again. *)
Restart ==
  /\ restarts < MaxRestarts /\ restarts' = restarts + 1
  /\ Started
  /\ UNCHANGED <<option, now, files, cached, up, images, commands, gone, faults>>

Tick ==
  /\ now < MaxNow /\ now' = now + 1
  /\ settled' = (settled \/ now' % PerSec = 0)
  /\ UNCHANGED <<option, storeVars, recording, m_image, channel, images, faults,
                 counters, recent, lasting>>

Next ==
  \/ ReadImage \/ ReadGone \/ RetryTimeout \/ Command
  \/ PublisherComes \/ PublisherGoes \/ Restart \/ Tick

Spec == Init /\ [][Next]_vars

(* The event loop calls the handler of a channel that has gone and the     *)
(* timer.                                                                  *)
FairSpec == Spec /\ WF_vars(ReadGone) /\ WF_vars(RetryTimeout)

-----------------------------------------------------------------------------
(* A file in the store is named for the instant or for the second of the   *)
(* image that it begins with, through savings, commits, moves of files     *)
(* that were saved before, and restarts.                                   *)
FilesNamedRight ==
  \A x \in DOMAIN files :
    files[x] # <<>> /\ x \in {FastPath(files[x][1]), SlowPath(files[x][1])}

(* The cache holds the latest images, those since the last commit, and no  *)
(* others: a commit can neither miss one nor bring an old one back.  When  *)
(* the recorder is fast it is empty.                                       *)
CacheHoldsRecent ==
  /\ {entry[i].shot : i \in OpenEntries} = {recent[i] : i \in DOMAIN recent}
  /\ \A i \in OpenEntries : cached[i][1] = entry[i].shot
  /\ m_state = "fast" => recent = <<>>

(* No shot is in the store twice, though it may have been saved as well as *)
(* cached.                                                                 *)
NoShotTwice ==
  \A x, y \in DOMAIN files : files[x][1] = files[y][1] => x = y

RecorderInvariant == TypeOK /\ FilesNamedRight /\ CacheHoldsRecent /\ NoShotTwice

(* The fast command puts each of the latest images into the store, at its  *)
(* own instant, and the slow command at its own second.                    *)
LeadIn ==
  [][\A i \in DOMAIN recent :
       commands' > commands =>
         /\ m_state' = "fast" => FastPath(recent[i]) \in DOMAIN files'
         /\ m_state' = "slow" => SlowPath(recent[i]) \in DOMAIN files']_vars

(* What has been recorded stays.  An image leaves the store only when a    *)
(* later one takes its file name, that of their second or their instant,   *)
(* and that only by a command, from the cache, or when an image is saved   *)
(* in the second in which the recorder had a command or was started.       *)
(* Otherwise the recorder keeps "the old contents" (gvimageoutput.cpp:370) *)
(* of the file that it saved last, and no commit loses an image to an      *)
(* older one, or to one that was not in the cache.                         *)
NothingLost ==
  [][\A x \in DOMAIN files :
       LET shot == files[x][1] IN
       \E y \in {x, FastPath(shot)} \intersect DOMAIN files' :
         \/ files'[y][1] = shot
         \/ /\ files'[y][1].id > shot.id
            /\ IF commands' > commands
               THEN \E i \in DOMAIN recent : files'[y][1] = recent[i]
               ELSE ~settled]_vars

(* When it has been fast for a while the recorder drops back to the state  *)
(* it was in before, or was told to be in, however often it has been made  *)
(* fast.                                                                   *)
DropsBack ==
  [][m_state = "fast" /\ m_state' # "fast" /\ counters' = counters =>
       m_state' = lasting]_vars

(* The recorder gets back to a publisher that stays. *)
Reattaches == <>[]up => <>[](m_channel = "attached" \/ ended)

-----------------------------------------------------------------------------
(* Two statements of the documentation that do not hold.                   *)

(* gvcache.h says of the same-as path that it "indicates where the image   *)
(* has already been saved to the filesystem".                              *)
SameAsTrue ==
  \A i \in OpenEntries :
    entry[i].same # NoPath =>
      /\ entry[i].same \in DOMAIN files
      /\ files[entry[i].same] = Blocks(entry[i].shot)

(* gvcache.h says that commit() "commits all cached images": a file in the *)
(* store is one image, with nothing of another behind it.                  *)
WholeImages ==
  \A x \in DOMAIN files : \A i \in DOMAIN files[x] : files[x][i].id = files[x][1].id

=============================================================================
