------------------------------- MODULE Camera -------------------------------
(***************************************************************************)
(* Gv::Camera (gvideo/gvcamera.cpp): a capture device that may be          *)
(* unplugged and plugged in again, and the handlers of its images, which   *)
(* are the peers of webcamserver or the one of webcamplayer.               *)
(*                                                                         *)
(* The device may have an image ready at any time; a read may all the same *)
(* find none (EAGAIN).  What an unplugged device leaves is a descriptor    *)
(* that can be read, with an error (ENODEV); other errors end the program. *)
(***************************************************************************)
EXTENDS ImageBuffers

CONSTANT Options  \* [sleep, oneShot, lazy]: as the program was started

ASSUME OptionAssumption == Options \subseteq [sleep : BOOLEAN, oneShot : BOOLEAN, lazy : BOOLEAN]

VARIABLES
  option,
  running,
  plugged,      \* whether there is a device
  m_capture,    \* "none", "open", or "lost": open, and its device gone
  registered,   \* whether the event loop has its descriptor
  openTimer, readTimer, sendTimer

deviceVars == <<m_capture, registered, openTimer, readTimer, sendTimer>>
cameraVars == <<bufferVars, option, running, plugged, deviceVars>>

CameraTypeOK ==
  /\ BuffersTyped
  /\ option \in Options /\ running \in BOOLEAN
  /\ plugged \in BOOLEAN
  /\ m_capture \in {"none", "open", "lost"} /\ registered \in BOOLEAN
  /\ openTimer \in BOOLEAN /\ readTimer \in BOOLEAN /\ sendTimer \in BOOLEAN

(* The constructor throws if there is no device and it is not lazy. *)
CameraInit ==
  /\ BuffersInit
  /\ option \in Options /\ plugged \in BOOLEAN
  /\ running = (plugged \/ option.lazy)
  /\ m_capture = IF plugged THEN "open" ELSE "none"
  /\ registered = plugged /\ openTimer = (~plugged /\ option.lazy)
  /\ readTimer = FALSE /\ sendTimer = FALSE

-----------------------------------------------------------------------------
(* Reading *)

\* Mutant of Acquire: a camera that sleeps does not send what it reads.
AcquireUnsent(p) ==
  /\ m_capture = "open" /\ Fill(p)
  /\ registered' = TRUE /\ sendTimer' = (sendTimer \/ ~option.sleep)
  /\ UNCHANGED <<m_capture, openTimer, running>>

(* read() of the capture device: a picture, or EAGAIN. *)
Acquire(p) ==
  /\ m_capture = "open" /\ Fill(p)
  /\ registered' = TRUE /\ sendTimer' = TRUE
  /\ UNCHANGED <<m_capture, openTimer, running>>

FailsToAcquire ==
  /\ m_capture = "open" /\ Blank
  /\ registered' = TRUE
  /\ UNCHANGED <<m_capture, openTimer, sendTimer, running>>

\* Mutant of LoseDevice: what the handlers have last is a picture.
LoseDeviceQuietly ==
  /\ m_capture = "lost"
  /\ Fill("crossed")
  /\ IF option.oneShot
     THEN running' = FALSE /\ UNCHANGED <<m_capture, registered, openTimer, sendTimer>>
     ELSE /\ m_capture' = "none" /\ registered' = FALSE /\ openTimer' = TRUE
          /\ UNCHANGED <<running, sendTimer>>

(* doRead() when the device has gone: the exception is passed on, and ends *)
(* the program, or the image is crossed out and sent.  The crossed image   *)
(* goes into the buffer that doReadImp() has just got for the read, which  *)
(* nobody else has: the second recycling leaves it where it is.            *)
LoseDevice ==
  /\ m_capture = "lost"
  /\ Fill("crossed")
  /\ IF option.oneShot
     THEN running' = FALSE /\ UNCHANGED <<m_capture, registered, openTimer, sendTimer>>
     ELSE /\ m_capture' = "none" /\ registered' = FALSE
          /\ openTimer' = TRUE /\ sendTimer' = TRUE
          /\ UNCHANGED running

(* doRead() *)
Fails == FailsToAcquire \/ LoseDevice

Readable == running /\ registered

(* readEvent(), for a camera that does not sleep, and for one that does. *)
ReadNow(doRead) ==
  /\ Readable /\ ~option.sleep /\ doRead
  /\ UNCHANGED <<option, plugged, readTimer>>

FallAsleep ==
  /\ Readable /\ option.sleep
  /\ registered' = FALSE /\ readTimer' = TRUE
  /\ UNCHANGED <<bufferVars, option, running, plugged, m_capture, openTimer, sendTimer>>

(* onReadTimeout() *)
ReadTimeout(doRead) ==
  /\ running /\ readTimer /\ readTimer' = FALSE /\ doRead
  /\ UNCHANGED <<option, plugged>>

Read(doRead) == ReadNow(doRead) \/ ReadTimeout(doRead)

-----------------------------------------------------------------------------
(* The other timers *)

(* onOpenTimeout() *)
OpenTimeout ==
  /\ running /\ openTimer /\ openTimer' = ~plugged
  /\ m_capture' = (IF plugged THEN "open" ELSE "none") /\ registered' = plugged
  /\ UNCHANGED <<bufferVars, option, running, plugged, readTimer, sendTimer>>

(* onSendTimeout() *)
SendTimeout ==
  /\ running /\ sendTimer /\ sendTimer' = FALSE
  /\ IF m_image = Null THEN UNCHANGED bufferVars ELSE Send
  /\ UNCHANGED <<option, running, plugged, m_capture, registered, openTimer, readTimer>>

(* resend(): to all, whoever asked. *)
Resend(h) ==
  /\ running /\ HasTask(h) /\ sendTimer' = TRUE
  /\ UNCHANGED <<bufferVars, option, running, plugged, m_capture, registered, openTimer,
                 readTimer>>

-----------------------------------------------------------------------------
(* Handlers come, without an image, and go. *)

Come(h, type) ==
  /\ running /\ held[h] = Null /\ Add(h, type)
  /\ UNCHANGED <<option, running, plugged, deviceVars>>

Go(h) == running /\ Remove(h) /\ UNCHANGED <<option, running, plugged, deviceVars>>

LetGo(h) == running /\ Forget(h) /\ UNCHANGED <<option, running, plugged, deviceVars>>

(* The device *)

Plug ==
  /\ ~plugged /\ plugged' = TRUE
  /\ UNCHANGED <<bufferVars, option, running, deviceVars>>

Unplug ==
  /\ plugged /\ plugged' = FALSE
  /\ m_capture' = IF m_capture = "open" THEN "lost" ELSE m_capture
  /\ UNCHANGED <<bufferVars, option, running, registered, openTimer, readTimer, sendTimer>>

CameraNext ==
  \/ \E p \in Pictures : Read(Acquire(p))
  \/ Read(Fails) \/ FallAsleep
  \/ OpenTimeout \/ SendTimeout
  \/ \E h \in Handler :
       Resend(h) \/ Go(h) \/ LetGo(h) \/ \E type \in Wants[h] : Come(h, type)
  \/ Plug \/ Unplug

CameraSpec == CameraInit /\ [][CameraNext]_cameraVars

(* The event loop runs what is due, the device has images, and of its      *)
(* reads not all fail.                                                     *)
CameraFairness ==
  /\ WF_cameraVars(Read(Fails) \/ \E p \in Pictures : Read(Acquire(p)))
  /\ SF_cameraVars(\E p \in Pictures : Read(Acquire(p)))
  /\ WF_cameraVars(FallAsleep) /\ WF_cameraVars(OpenTimeout) /\ WF_cameraVars(SendTimeout)

CameraFairSpec == CameraSpec /\ CameraFairness

-----------------------------------------------------------------------------

(* What a handler keeps does not change under it: the source and its tasks *)
(* write to a buffer only when nobody else points to it (grimage.cpp:117). *)
HeldUnchanged == \A h \in Handler : held[h] # Null => data[held[h]] = given[h]

(* The loop has the descriptor when it is open and not asleep, and the     *)
(* camera is waiting for something whatever the order of timers, reads and *)
(* pulled plugs (gvcamera.cpp:80, 104, 119, 132).                          *)
Watching ==
  running => /\ registered <=> (m_capture # "none" /\ ~readTimer)
             /\ openTimer <=> (m_capture = "none")
             /\ readTimer => option.sleep /\ m_capture # "none"

CameraInvariant == CameraTypeOK /\ HeldUnchanged /\ Watching

(* While there is a device, pictures keep coming, also after it was gone.  *)
PicturesCome ==
  <>[](running /\ plugged) => []<><<SendTimeout /\ m_image # Null /\ data[m_image] \in Pictures>>_cameraVars

(* When the device is gone for good, no one is left with a picture that    *)
(* looks as if it were live.  (Those who want a conversion may be: see the *)
(* task of a handler that left.)                                           *)
LossShown ==
  \A h \in {i \in Handler : "raw" \in Wants[i]} :
    <>[](running /\ ~plugged /\ \E i \in DOMAIN m_tasks :
                                   m_tasks[i].handler = h /\ m_tasks[i].conversion = "raw")
      => <>[](given[h] \notin Pictures)

(* A statement of the documentation that does not hold: who has an image   *)
(* is sent no black one, since what is sent again is the last image there  *)
(* is, however old (gvimageinput.h:137).                                   *)
Shows(h) == held[h] # Null /\ given[h] # "zero"

RealImages == [][\A h \in Handler : Shows(h) /\ held'[h] # Null => Shows(h)']_cameraVars

=============================================================================
