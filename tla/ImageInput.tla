----------------------------- MODULE ImageInput -----------------------------
(***************************************************************************)
(* Gv::ImageInputSource and Gv::ImageInput (gvideo/gvimageinput.cpp), with *)
(* the Gv::HttpServerInput that keeps one open (gvideo/gvhttpserver.cpp):  *)
(* a subscription to a channel, whose images are converted as each handler *)
(* wants them and given to the handlers.                                   *)
(*                                                                         *)
(* A frame is an image with its number on the channel and its type.  The   *)
(* channel's images have the type Native; other types are conversions.     *)
(* Handlers come and go between images, never in the callback.  Left out:  *)
(* conversions that fail, and data that is not an image.                   *)
(***************************************************************************)
EXTENDS Integers, Subsequences

CONSTANTS
  Handler,    \* the image handlers
  NoHandler,  \* the null pointer
  Types,      \* the types that may be wanted
  Native,     \* the type of the channel's images
  MaxImages,  \* bound: number of images published
  MaxGone     \* bound: number of times that the publisher goes away

ASSUME InputAssumption ==
  /\ NoHandler \notin Handler /\ Native \in Types
  /\ MaxImages \in Nat /\ MaxGone \in Nat

VARIABLES
  published,    \* the number of the last image published
  up,           \* whether there is a publisher
  available,    \* whether it has published
  received,     \* the number of the last image read
  m_fd,         \* "closed", "open", or "gone": open, and the publisher gone
  m_tasks,      \* a task for each handler
  m_resend_to,  \* the handler that wants the image again
  resendTimer,  \* whether m_resend_timer is running
  reopenTimer,  \* whether m_reopen_timer is running
  gone          \* number of times that the publisher has gone away

channelVars == <<published, up, available, received, m_fd, reopenTimer, gone>>
resendVars  == <<m_resend_to, resendTimer>>
inputVars   == <<channelVars, m_tasks, resendVars>>

NoFrame == [n |-> 0, type |-> Native]
Frames  == [n : 1 .. MaxImages, type : Types]

Tasks == [handler : Handler \union {NoHandler}, conversion : Types,
          image : Frames \union {NoFrame}]

InputTyped ==
  /\ published \in 0 .. MaxImages /\ received \in 0 .. MaxImages
  /\ up \in BOOLEAN /\ available \in BOOLEAN /\ gone \in 0 .. MaxGone
  /\ m_fd \in {"closed", "open", "gone"}
  /\ m_tasks \in Seq(Tasks)
  /\ m_resend_to \in Handler \union {NoHandler}
  /\ resendTimer \in BOOLEAN /\ reopenTimer \in BOOLEAN

InputInit ==
  /\ published = 0 /\ up = TRUE /\ available = FALSE /\ received = 0
  /\ m_fd = "closed" /\ m_tasks = <<>> /\ m_resend_to = NoHandler
  /\ resendTimer = FALSE /\ reopenTimer = FALSE /\ gone = 0

-----------------------------------------------------------------------------
(* Tasks *)

HasTask(h) == \E i \in DOMAIN m_tasks : m_tasks[i].handler = h

(* addImageInputHandler() *)
Add(h) ==
  IF HasTask(h) THEN UNCHANGED m_tasks
  ELSE m_tasks' = Append(m_tasks, [handler |-> h, conversion |-> Native, image |-> NoFrame])

(* removeImageInputHandler(): the task stays until the next image. *)
Remove(h) ==
  m_tasks' = [i \in DOMAIN m_tasks |->
                IF m_tasks[i].handler = h THEN [m_tasks[i] EXCEPT !.handler = NoHandler]
                ELSE m_tasks[i]]

(* ImageInputTask::run(): no conversion leaves no image. *)
Run(type, frame) == IF type = frame.type THEN NoFrame ELSE [n |-> frame.n, type |-> type]

(* sendImageInput() to all handlers or to one, in its three passes: the    *)
(* wanted conversions are looked up; they are done, or copied from the     *)
(* first task with the same conversion; and the handlers are called.       *)
Addressed(i, one) == m_tasks[i].handler # NoHandler /\ one \in {NoHandler, m_tasks[i].handler}

\* Mutant of Conversions: the conversions of the last time are used.
ConversionsOld(one, wanted) == [i \in DOMAIN m_tasks |-> m_tasks[i].conversion]

Conversions(one, wanted) ==
  [i \in DOMAIN m_tasks |-> IF Addressed(i, one) THEN wanted[m_tasks[i].handler]
                            ELSE m_tasks[i].conversion]

\* Mutant of Images: a task that has an image of its type keeps it.
ImagesKept(frame, one, conv) ==
  [i \in DOMAIN m_tasks |->
     IF m_tasks[i].handler = NoHandler \/ m_tasks[i].image.type = conv[i]
     THEN m_tasks[i].image ELSE Run(conv[i], frame)]

Images(frame, one, conv) ==
  LET First(i) == CHOOSE j \in 1 .. i :
                    conv[j] = conv[i] /\ \A k \in 1 .. j - 1 : conv[k] # conv[i]
      Image(i) == IF m_tasks[i].handler = NoHandler THEN m_tasks[i].image
                  ELSE Run(conv[i], frame)
  IN  [i \in DOMAIN m_tasks |->
         IF m_tasks[i].handler \in {NoHandler, one} THEN Image(i) ELSE Image(First(i))]

Sent(frame, one, wanted) ==
  LET conv  == Conversions(one, wanted)
      image == Images(frame, one, conv)
      tasks == [i \in DOMAIN m_tasks |->
                  [handler |-> m_tasks[i].handler, conversion |-> conv[i], image |-> image[i]]]
  IN  m_tasks' = AtPlaces(tasks, {i \in DOMAIN m_tasks : m_tasks[i].handler # NoHandler})

(* What each handler is given: the frame itself if it has no image. *)
Given(frame, one, wanted) ==
  LET image == Images(frame, one, Conversions(one, wanted))
      called == {i \in DOMAIN m_tasks : Addressed(i, one)}
  IN  [h \in {m_tasks[i].handler : i \in called} |->
         LET i == CHOOSE j \in called : m_tasks[j].handler = h
         IN  IF image[i] = NoFrame THEN frame ELSE image[i]]

-----------------------------------------------------------------------------
(* The channel *)

Frame == [n |-> published, type |-> Native]

(* A new subscriber is told only of what is published from now on. *)
Attached == m_fd' = "open" /\ received' = published

(* HttpServerInput::start() *)
Start ==
  IF m_fd = "closed" /\ up
  THEN Attached /\ UNCHANGED <<published, up, available, reopenTimer, gone>>
  ELSE UNCHANGED channelVars

(* HttpServerInput::readEvent() when there is an image; what the handlers  *)
(* do with it is said elsewhere.                                           *)
Receive(wanted) ==
  /\ m_fd = "open" /\ published > received
  /\ received' = published
  /\ Sent(Frame, NoHandler, wanted)
  /\ UNCHANGED <<published, up, available, m_fd, reopenTimer, gone, resendVars>>

(* The publisher has gone away: the channel is closed and opened later. *)
LoseChannel ==
  /\ m_fd = "gone"
  /\ m_fd' = "closed" /\ reopenTimer' = TRUE
  /\ UNCHANGED <<published, up, available, received, gone, m_tasks, resendVars>>

(* HttpServerInput::onTimeout(); when there is no publisher the timer is   *)
(* started again.                                                          *)
Reopen ==
  /\ reopenTimer /\ (m_fd # "closed" \/ up)
  /\ reopenTimer' = FALSE
  /\ IF m_fd = "closed" THEN Attached ELSE UNCHANGED <<m_fd, received>>
  /\ UNCHANGED <<published, up, available, gone, m_tasks, resendVars>>

(* resend() *)
Resend(h) == resendTimer' = TRUE /\ m_resend_to' = h

(* onResendTimeout() peeks at the channel, for what was published last.    *)
CanResend == m_fd = "open" /\ m_resend_to # NoHandler /\ available

ResendNow(wanted) ==
  /\ resendTimer /\ resendTimer' = FALSE
  /\ IF CanResend THEN m_resend_to' = NoHandler /\ Sent(Frame, m_resend_to, wanted)
     ELSE UNCHANGED <<m_resend_to, m_tasks>>
  /\ UNCHANGED channelVars

Publish ==
  /\ up /\ published < MaxImages
  /\ published' = published + 1 /\ available' = TRUE
  /\ UNCHANGED <<up, received, m_fd, reopenTimer, gone, m_tasks, resendVars>>

PublisherGoes ==
  /\ up /\ gone < MaxGone /\ gone' = gone + 1
  /\ up' = FALSE /\ available' = FALSE
  /\ m_fd' = IF m_fd = "open" THEN "gone" ELSE m_fd
  /\ UNCHANGED <<published, received, reopenTimer, m_tasks, resendVars>>

PublisherComes ==
  /\ ~up /\ up' = TRUE
  /\ UNCHANGED <<published, available, received, m_fd, reopenTimer, gone, m_tasks, resendVars>>

=============================================================================
