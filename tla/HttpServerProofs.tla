--------------------------- MODULE HttpServerProofs ---------------------------
(* The http server never lacks the image that it is to send, goes on with  *)
(* what it has begun, and is given images of the type that it asked for    *)
(* and the newest, for any number of connections, requests and images.     *)
EXTENDS HttpServer, SubsequenceProofs, TLAPS

PeerRecord == [state : States, config : Requests \union {NoRequest},
               image : Frames \union {NoFrame}, timer : BOOLEAN,
               source : BOOLEAN, blocked : BOOLEAN, dying : BOOLEAN]

-----------------------------------------------------------------------------
(* Tasks *)

(* A task has an image of its type, or none if its type is the channel's.  *)
ImageOfType(type, image) ==
  IF type = Native THEN image = NoFrame ELSE image \in Frames /\ image.type = type

TasksTyped ==
  /\ m_tasks \in Seq(Tasks)
  /\ \A i \in DOMAIN m_tasks : ImageOfType(m_tasks[i].conversion, m_tasks[i].image)
  /\ \A i, j \in DOMAIN m_tasks :
       m_tasks[i].handler = m_tasks[j].handler /\ m_tasks[i].handler # NoHandler => i = j

(* The image that is given out, and what it may be converted to. *)
Sendable(frame, one, wanted) ==
  /\ frame \in Frames /\ frame.type = Native
  /\ one \in Handler \union {NoHandler}
  /\ wanted \in [Handler -> Types]

LEMMA TaskFacts ==
  ASSUME TasksTyped
  PROVE  /\ Len(m_tasks) \in Nat /\ DOMAIN m_tasks = 1 .. Len(m_tasks)
         /\ \A i \in DOMAIN m_tasks :
              /\ m_tasks[i] \in Tasks /\ m_tasks[i].conversion \in Types
              /\ m_tasks[i].handler \in Handler \union {NoHandler}
              /\ m_tasks[i].image \in Frames \union {NoFrame}
<1>1. m_tasks \in Seq(Tasks)
  BY DEF TasksTyped
<1>2. Len(m_tasks) \in Nat /\ DOMAIN m_tasks = 1 .. Len(m_tasks)
      /\ \A i \in DOMAIN m_tasks : m_tasks[i] \in Tasks
  BY <1>1
<1> QED  BY <1>2 DEF Tasks

LEMMA NoFrameIsNone == NoFrame \notin Frames
BY DEF NoFrame, Frames

LEMMA RunRight ==
  ASSUME NEW type \in Types, NEW frame \in Frames, frame.type = Native
  PROVE  ImageOfType(type, Run(type, frame)) /\ (type # Native => Run(type, frame).n = frame.n)
BY DEF Run, ImageOfType, Frames

(* The conversions, the places that images come from, and the images.      *)
LEMMA ConversionsRight ==
  ASSUME TasksTyped, NEW frame, NEW one, NEW wanted, Sendable(frame, one, wanted)
  PROVE  LET conv == Conversions(one, wanted)
         IN  /\ conv \in [DOMAIN m_tasks -> Types]
             /\ \A i \in DOMAIN m_tasks :
                  /\ m_tasks[i].handler = NoHandler => conv[i] = m_tasks[i].conversion
                  /\ Addressed(i, one) => conv[i] = wanted[m_tasks[i].handler]
<1>1. \A i \in DOMAIN m_tasks : Addressed(i, one) => m_tasks[i].handler \in Handler
  BY TaskFacts DEF Addressed
<1>2. \A i \in DOMAIN m_tasks : Addressed(i, one) => wanted[m_tasks[i].handler] \in Types
  BY <1>1 DEF Sendable
<1>3. \A i \in DOMAIN m_tasks : m_tasks[i].handler = NoHandler => ~Addressed(i, one)
  BY DEF Addressed
<1> QED  BY <1>2, <1>3, TaskFacts DEF Conversions

FirstPlace(conv, i) ==
  CHOOSE j \in 1 .. i : conv[j] = conv[i] /\ \A k \in 1 .. j - 1 : conv[k] # conv[i]

LEMMA FirstPlaceRight ==
  ASSUME NEW conv, NEW i \in Nat \ {0}
  PROVE  FirstPlace(conv, i) \in 1 .. i /\ conv[FirstPlace(conv, i)] = conv[i]
<1> DEFINE T == {j \in 1 .. i : conv[j] = conv[i]}
<1>1. T \subseteq Nat /\ i \in T
  OBVIOUS
<1>2. PICK m \in T : \A n \in T : m <= n
  BY <1>1, NatMinimum
<1>3. m \in 1 .. i /\ conv[m] = conv[i]
  OBVIOUS
<1>4. \A k \in 1 .. m - 1 : conv[k] # conv[i]
  <2> SUFFICES ASSUME NEW k \in 1 .. m - 1, conv[k] = conv[i] PROVE FALSE
    OBVIOUS
  <2>1. k \in 1 .. i /\ ~(m <= k)
    BY <1>3
  <2> QED  BY <1>2, <2>1
<1> QED  BY <1>3, <1>4 DEF FirstPlace

LEMMA ImagesRight ==
  ASSUME TasksTyped, NEW frame, NEW one, NEW wanted, Sendable(frame, one, wanted)
  PROVE  LET conv  == Conversions(one, wanted)
             image == Images(frame, one, conv)
             live  == \A i \in DOMAIN m_tasks : m_tasks[i].handler # NoHandler
         IN  /\ image \in [DOMAIN m_tasks -> Frames \union {NoFrame}]
             /\ \A i \in DOMAIN m_tasks :
                  /\ ImageOfType(conv[i], image[i])
                  /\ live \/ (m_tasks[i].handler = one /\ one # NoHandler)
                       => (conv[i] # Native => image[i].n = frame.n)
<1> DEFINE conv  == Conversions(one, wanted)
           image == Images(frame, one, conv)
           From(i) == IF m_tasks[i].handler = NoHandler THEN m_tasks[i].image
                      ELSE Run(conv[i], frame)
           live  == \A i \in DOMAIN m_tasks : m_tasks[i].handler # NoHandler
<1>1. /\ conv \in [DOMAIN m_tasks -> Types]
      /\ \A i \in DOMAIN m_tasks : m_tasks[i].handler = NoHandler => conv[i] = m_tasks[i].conversion
  BY ConversionsRight
<1>2. image = [i \in DOMAIN m_tasks |->
                 IF m_tasks[i].handler \in {NoHandler, one} THEN From(i)
                 ELSE From(FirstPlace(conv, i))]
  BY DEF Images, FirstPlace
<1>3. frame \in Frames /\ frame.type = Native
  BY DEF Sendable
<1> HIDE DEF conv, image
<1>4. \A i \in DOMAIN m_tasks :
        /\ ImageOfType(conv[i], From(i))
        /\ m_tasks[i].handler # NoHandler /\ conv[i] # Native => From(i).n = frame.n
  BY <1>1, <1>3, RunRight DEF TasksTyped
<1>5. \A i \in DOMAIN m_tasks :
        FirstPlace(conv, i) \in DOMAIN m_tasks /\ conv[FirstPlace(conv, i)] = conv[i]
  <2> SUFFICES ASSUME NEW i \in DOMAIN m_tasks
               PROVE  FirstPlace(conv, i) \in DOMAIN m_tasks /\ conv[FirstPlace(conv, i)] = conv[i]
    OBVIOUS
  <2>1. i \in Nat \ {0} /\ 1 .. i \subseteq DOMAIN m_tasks
    BY TaskFacts
  <2> QED  BY <2>1, FirstPlaceRight
<1> HIDE DEF From
<1>6. \A i \in DOMAIN m_tasks :
        /\ ImageOfType(conv[i], image[i])
        /\ live \/ (m_tasks[i].handler = one /\ one # NoHandler)
             => (conv[i] # Native => image[i].n = frame.n)
  <2> SUFFICES ASSUME NEW i \in DOMAIN m_tasks
               PROVE  /\ ImageOfType(conv[i], image[i])
                      /\ live \/ (m_tasks[i].handler = one /\ one # NoHandler)
                           => (conv[i] # Native => image[i].n = frame.n)
    OBVIOUS
  <2>1. CASE m_tasks[i].handler \in {NoHandler, one}
    <3>1. image[i] = From(i)
      BY <1>2, <2>1
    <3> QED  BY <1>4, <3>1
  <2>2. CASE m_tasks[i].handler \notin {NoHandler, one}
    <3> DEFINE j == FirstPlace(conv, i)
    <3>1. image[i] = From(j)
      BY <1>2, <2>2
    <3>2. j \in DOMAIN m_tasks /\ conv[j] = conv[i]
      BY <1>5
    <3> HIDE DEF j
    <3> QED  BY <1>4, <2>2, <3>1, <3>2
  <2> QED  BY <2>1, <2>2
<1>7. image \in [DOMAIN m_tasks -> Frames \union {NoFrame}]
  BY <1>2, <1>6 DEF ImageOfType
<1> QED  BY <1>6, <1>7 DEF conv, image

(* Who is called, and with what: every handler has one task at most, and   *)
(* the frames are of the type it wants and, if they are new, the newest.   *)
RightlyGiven(given, frame, one, wanted) ==
  /\ DOMAIN given = {h \in Handler : HasTask(h) /\ one \in {NoHandler, h}}
  /\ \A h \in DOMAIN given :
       /\ given[h] \in Frames /\ given[h].type = wanted[h]
       /\ h = one => given[h].n = frame.n
       /\ (\A i \in DOMAIN m_tasks : m_tasks[i].handler # NoHandler) => given[h].n = frame.n

LEMMA GivenRight ==
  ASSUME TasksTyped, NEW frame, NEW one, NEW wanted, Sendable(frame, one, wanted)
  PROVE  RightlyGiven(Given(frame, one, wanted), frame, one, wanted)
<1> DEFINE conv   == Conversions(one, wanted)
           image  == Images(frame, one, conv)
           called == {i \in DOMAIN m_tasks : Addressed(i, one)}
           who    == {m_tasks[i].handler : i \in called}
           place(h) == CHOOSE j \in called : m_tasks[j].handler = h
           given  == Given(frame, one, wanted)
           live   == \A i \in DOMAIN m_tasks : m_tasks[i].handler # NoHandler
<1>1. given = [h \in who |-> IF image[place(h)] = NoFrame THEN frame ELSE image[place(h)]]
  BY DEF Given
<1>2. who = {h \in Handler : HasTask(h) /\ one \in {NoHandler, h}}
  <2>1. \A i \in called : m_tasks[i].handler \in Handler /\ HasTask(m_tasks[i].handler)
                          /\ one \in {NoHandler, m_tasks[i].handler}
    BY TaskFacts DEF Addressed, HasTask
  <2>2. \A h \in Handler : HasTask(h) /\ one \in {NoHandler, h} => h \in who
    BY InputAssumption DEF HasTask, Addressed
  <2> QED  BY <2>1, <2>2
<1>3. \A h \in who : place(h) \in called /\ m_tasks[place(h)].handler = h
  OBVIOUS
<1>4. /\ \A i \in DOMAIN m_tasks :
           /\ ImageOfType(conv[i], image[i])
           /\ live \/ (m_tasks[i].handler = one /\ one # NoHandler)
                => (conv[i] # Native => image[i].n = frame.n)
      /\ \A i \in called : conv[i] = wanted[m_tasks[i].handler]
  BY ImagesRight, ConversionsRight
<1>5. frame \in Frames /\ frame.type = Native
  BY DEF Sendable
<1> HIDE DEF conv, image, place, live
<1>6. ASSUME NEW h \in who
      PROVE  /\ given[h] \in Frames /\ given[h].type = wanted[h]
             /\ h = one \/ live => given[h].n = frame.n
  <2> DEFINE i == place(h)
  <2>1. i \in DOMAIN m_tasks /\ m_tasks[i].handler = h /\ conv[i] = wanted[h]
    BY <1>3, <1>4
  <2>2. given[h] = IF image[i] = NoFrame THEN frame ELSE image[i]
    BY <1>1
  <2>3. ImageOfType(conv[i], image[i])
        /\ (h = one \/ live => (conv[i] # Native => image[i].n = frame.n))
    <3>1. h # NoHandler
      BY <1>2, InputAssumption
    <3> HIDE DEF i
    <3>2. /\ ImageOfType(conv[i], image[i])
          /\ live \/ (m_tasks[i].handler = one /\ one # NoHandler)
               => (conv[i] # Native => image[i].n = frame.n)
      BY <1>4, <2>1
    <3> QED  BY <2>1, <3>1, <3>2
  <2> HIDE DEF i, given
  <2> QED  BY <1>5, <2>1, <2>2, <2>3, NoFrameIsNone DEF ImageOfType
<1>7. DOMAIN given = who
  BY <1>1
<1> HIDE DEF given, who
<1> QED  BY <1>2, <1>6, <1>7 DEF live, RightlyGiven, given

LEMMA HasTaskLeft ==
  ASSUME TasksTyped, NEW frame, NEW one, NEW wanted, Sendable(frame, one, wanted),
         Sent(frame, one, wanted)
  PROVE  TasksTyped' /\ \A h \in Handler : HasTask(h)' <=> HasTask(h)
<1> DEFINE conv  == Conversions(one, wanted)
           image == Images(frame, one, conv)
           tasks == [i \in DOMAIN m_tasks |->
                       [handler |-> m_tasks[i].handler, conversion |-> conv[i],
                        image |-> image[i]]]
           P == {i \in DOMAIN m_tasks : m_tasks[i].handler # NoHandler}
<1>1. m_tasks' = AtPlaces(tasks, P)
  BY DEF Sent
<1>2. /\ conv \in [DOMAIN m_tasks -> Types]
      /\ image \in [DOMAIN m_tasks -> Frames \union {NoFrame}]
      /\ \A i \in DOMAIN m_tasks : ImageOfType(conv[i], image[i])
  BY ConversionsRight, ImagesRight
<1> HIDE DEF conv, image
<1>3. tasks \in Seq(Tasks) /\ DOMAIN tasks = DOMAIN m_tasks
  <2>1. \A i \in DOMAIN m_tasks : tasks[i] \in Tasks
    BY <1>2, TaskFacts DEF Tasks
  <2>2. DOMAIN m_tasks = 1 .. Len(m_tasks) /\ Len(m_tasks) \in Nat
    BY TaskFacts
  <2>3. tasks \in [1 .. Len(m_tasks) -> Tasks]
    BY <2>1, <2>2
  <2> QED  BY <2>2, <2>3
<1>4. \A i \in DOMAIN m_tasks : /\ tasks[i].handler = m_tasks[i].handler
                                /\ ImageOfType(tasks[i].conversion, tasks[i].image)
  BY <1>2
<1> HIDE DEF tasks
<1>5. /\ m_tasks' \in Seq(Tasks)
      /\ \A n \in DOMAIN m_tasks' : Place(P, n) \in P /\ m_tasks'[n] = tasks[Place(P, n)]
      /\ \A m, n \in DOMAIN m_tasks' : Place(P, m) = Place(P, n) => m = n
      /\ \A i \in P : \E n \in DOMAIN m_tasks' : Place(P, n) = i
  <2>1. P \subseteq DOMAIN tasks
    BY <1>3
  <2> HIDE DEF P
  <2> QED  BY <1>1, <1>3, <2>1, LeftAtPlaces
<1>p. \A i : i \in P <=> i \in DOMAIN m_tasks /\ m_tasks[i].handler # NoHandler
  OBVIOUS
<1> HIDE DEF P
<1>6. \A n \in DOMAIN m_tasks' : m_tasks'[n].handler = m_tasks[Place(P, n)].handler
  BY <1>4, <1>5, <1>p
<1>7. \A h \in Handler : HasTask(h)' <=> HasTask(h)
  <2>1. ASSUME NEW h \in Handler, NEW i \in DOMAIN m_tasks, m_tasks[i].handler = h
        PROVE  \E n \in DOMAIN m_tasks' : m_tasks'[n].handler = h
    <3>1. i \in P
      BY <1>p, <2>1, InputAssumption
    <3> QED  BY <1>5, <1>6, <2>1, <3>1
  <2>2. ASSUME NEW h \in Handler, NEW n \in DOMAIN m_tasks', m_tasks'[n].handler = h
        PROVE  \E i \in DOMAIN m_tasks : m_tasks[i].handler = h
    BY <1>5, <1>6, <1>p, <2>2
  <2> QED  BY <2>1, <2>2 DEF HasTask
<1>8. \A m, n \in DOMAIN m_tasks' :
        m_tasks'[m].handler = m_tasks'[n].handler /\ m_tasks'[m].handler # NoHandler => m = n
  BY <1>5, <1>6, <1>p DEF TasksTyped
<1>9. \A n \in DOMAIN m_tasks' : ImageOfType(m_tasks'[n].conversion, m_tasks'[n].image)
  BY <1>4, <1>5, <1>p
<1> QED  BY <1>5, <1>7, <1>8, <1>9 DEF TasksTyped

LEMMA AddRight ==
  ASSUME TasksTyped, NEW h \in Handler, Add(h)
  PROVE  TasksTyped' /\ \A g \in Handler : HasTask(g)' <=> HasTask(g) \/ g = h
<1>1. CASE HasTask(h)
  BY <1>1 DEF Add, TasksTyped, HasTask
<1>2. CASE ~HasTask(h)
  <2> DEFINE t == [handler |-> h, conversion |-> Native, image |-> NoFrame]
             n == Len(m_tasks)
  <2>1. m_tasks' = Append(m_tasks, t)
    BY <1>2 DEF Add
  <2>2. t \in Tasks /\ t.handler = h /\ ImageOfType(t.conversion, t.image)
    BY InputAssumption DEF Tasks, ImageOfType
  <2>3. m_tasks \in Seq(Tasks)
    BY DEF TasksTyped
  <2> HIDE DEF t
  <2>4. /\ n \in Nat /\ DOMAIN m_tasks = 1 .. n /\ DOMAIN m_tasks' = 1 .. n + 1
        /\ m_tasks' \in Seq(Tasks) /\ m_tasks'[n + 1] = t
        /\ \A i \in 1 .. n : m_tasks'[i] = m_tasks[i]
    BY <2>1, <2>2, <2>3
  <2> HIDE DEF n
  <2>5. \A i \in 1 .. n + 1 : i \in 1 .. n \/ i = n + 1
    BY <2>4
  <2>6. \A i \in 1 .. n : m_tasks[i].handler # h /\ i \in 1 .. n + 1
    BY <1>2, <2>4 DEF HasTask
  <2>7. n + 1 \in 1 .. n + 1
    BY <2>4
  <2>8. \A g \in Handler : HasTask(g)' <=> HasTask(g) \/ g = h
    BY <2>2, <2>4, <2>5, <2>6, <2>7 DEF HasTask
  <2>9. \A i \in DOMAIN m_tasks' : ImageOfType(m_tasks'[i].conversion, m_tasks'[i].image)
    BY <2>2, <2>4, <2>5 DEF TasksTyped
  <2>10. \A i, j \in DOMAIN m_tasks' :
           m_tasks'[i].handler = m_tasks'[j].handler /\ m_tasks'[i].handler # NoHandler => i = j
    BY <2>2, <2>4, <2>5, <2>6 DEF TasksTyped
  <2> QED  BY <2>4, <2>8, <2>9, <2>10 DEF TasksTyped
<1> QED  BY <1>1, <1>2

LEMMA RemoveRight ==
  ASSUME TasksTyped, NEW h \in Handler, Remove(h)
  PROVE  TasksTyped' /\ \A g \in Handler : HasTask(g)' <=> HasTask(g) /\ g # h
<1> DEFINE n == Len(m_tasks)
           t(i) == IF m_tasks[i].handler = h THEN [m_tasks[i] EXCEPT !.handler = NoHandler]
                   ELSE m_tasks[i]
<1>1. n \in Nat /\ DOMAIN m_tasks = 1 .. n /\ m_tasks' = [i \in 1 .. n |-> t(i)]
  BY TaskFacts DEF Remove
<1>2. \A i \in 1 .. n :
        /\ t(i) \in Tasks
        /\ t(i).handler = IF m_tasks[i].handler = h THEN NoHandler ELSE m_tasks[i].handler
        /\ t(i).conversion = m_tasks[i].conversion
        /\ t(i).image = m_tasks[i].image
  BY TaskFacts DEF Tasks
<1> HIDE DEF n, t
<1>3. /\ m_tasks' \in Seq(Tasks) /\ DOMAIN m_tasks' = 1 .. n
      /\ \A i \in 1 .. n : m_tasks'[i] = t(i)
  BY <1>1, <1>2
<1>4. \A g \in Handler : HasTask(g)' <=> HasTask(g) /\ g # h
  BY <1>1, <1>2, <1>3, InputAssumption DEF HasTask
<1>5. \A i \in DOMAIN m_tasks' : ImageOfType(m_tasks'[i].conversion, m_tasks'[i].image)
  BY <1>1, <1>2, <1>3 DEF TasksTyped
<1>6. \A i, j \in DOMAIN m_tasks' :
        m_tasks'[i].handler = m_tasks'[j].handler /\ m_tasks'[i].handler # NoHandler => i = j
  BY <1>1, <1>2, <1>3 DEF TasksTyped
<1> QED  BY <1>3, <1>4, <1>5, <1>6 DEF TasksTyped

-----------------------------------------------------------------------------
(* Peers *)

ImageStates == {"single_idle", "streaming_first_idle", "streaming_idle"}
TimerStates == {"file", "waiting"} \union ImageStates
BusyStates  == {"file_busy", "single_busy", "streaming_busy"}

HasImage(p) ==
  /\ p.state \in ImageStates \union {"streaming_busy"} => p.image # NoFrame /\ p.source = TRUE
  /\ p.state = "waiting" => p.source = TRUE

GoesOn(p) ==
  p.dying = FALSE =>
    /\ p.timer = TRUE <=> p.state \in TimerStates
    /\ p.state \in BusyStates => p.blocked = TRUE

PeerRight(p) == p \in PeerRecord /\ HasImage(p) /\ GoesOn(p)

(* A record that is dying need not go on. *)
LEMMA DyingRight ==
  ASSUME NEW p \in PeerRecord, HasImage(p)
  PROVE  PeerRight([p EXCEPT !.dying = TRUE])
BY DEF PeerRecord, HasImage, GoesOn, PeerRight

(* A request that is answered or waits for nothing. *)
LEMMA IdleRight ==
  ASSUME NEW p \in PeerRecord, p.timer = FALSE, NEW q \in Responds(p)
  PROVE  PeerRight(q) /\ q.source = p.source
<1> DEFINE idle == [p EXCEPT !.state = "idle"]
<1>1. /\ idle \in PeerRecord /\ idle.state = "idle" /\ idle.timer = FALSE
      /\ idle.source = p.source
  BY DEF PeerRecord, States
<1>2. q \in {[idle EXCEPT !.dying = TRUE], idle, [idle EXCEPT !.blocked = TRUE]}
  BY DEF Responds, Sends
<1> HIDE DEF idle
<1>3. /\ q \in PeerRecord /\ q.state = "idle" /\ q.timer = FALSE /\ q.source = p.source
  BY <1>1, <1>2 DEF PeerRecord
<1> QED  BY <1>3 DEF PeerRight, HasImage, GoesOn, ImageStates, TimerStates, BusyStates

(* What is sent from a state with the timer, which has ended. *)
LEMMA SendsRight ==
  ASSUME NEW p \in PeerRecord, HasImage(p), p.timer = FALSE,
         NEW next \in {"idle", "streaming_idle"}, NEW busy \in BusyStates,
         next = "streaming_idle" => p.image # NoFrame /\ p.source = TRUE,
         busy = "streaming_busy" => p.image # NoFrame /\ p.source = TRUE,
         NEW q \in Sends(p, [p EXCEPT !.state = next, !.timer = next = "streaming_idle"],
                         [p EXCEPT !.state = busy])
  PROVE  PeerRight(q) /\ q.source = p.source
<1>1. CASE q = [p EXCEPT !.dying = TRUE]
  <2>1. q.source = p.source
    BY <1>1 DEF PeerRecord
  <2> QED  BY <1>1, <2>1, DyingRight
<1>2. CASE q = [p EXCEPT !.state = next, !.timer = next = "streaming_idle"]
  <2>1. /\ q \in PeerRecord /\ q.state = next /\ q.image = p.image /\ q.source = p.source
        /\ q.timer = (next = "streaming_idle")
    BY <1>2 DEF PeerRecord, States
  <2> QED  BY <2>1 DEF PeerRight, HasImage, GoesOn, ImageStates, TimerStates, BusyStates
<1>3. CASE q = [[p EXCEPT !.state = busy] EXCEPT !.blocked = TRUE]
  <2>1. /\ q \in PeerRecord /\ q.state = busy /\ q.image = p.image /\ q.source = p.source
        /\ q.timer = FALSE /\ q.blocked = TRUE
    BY <1>3 DEF PeerRecord, States, BusyStates
  <2> QED  BY <2>1 DEF PeerRight, HasImage, GoesOn, ImageStates, TimerStates, BusyStates
<1> QED  BY <1>1, <1>2, <1>3 DEF Sends

LEMMA BegunRight ==
  ASSUME NEW p \in PeerRecord, p.image # NoFrame, p.source = TRUE
  PROVE  /\ PeerRight([p EXCEPT !.state = Begun(p), !.timer = TRUE])
         /\ Begun(p) \in ImageStates
<1> DEFINE q == [p EXCEPT !.state = Begun(p), !.timer = TRUE]
<1>1. Begun(p) \in ImageStates
  BY DEF Begun, ImageStates
<1>2. /\ q \in PeerRecord /\ q.state \in ImageStates /\ q.image = p.image /\ q.source = p.source
      /\ q.timer = TRUE
  BY <1>1 DEF PeerRecord, States, ImageStates
<1> HIDE DEF q
<1>3. PeerRight(q)
  BY <1>2 DEF PeerRight, HasImage, GoesOn, ImageStates, TimerStates, BusyStates
<1> QED  BY <1>1, <1>3 DEF q

-----------------------------------------------------------------------------
(* The server *)

ChannelKept ==
  /\ published \in 0 .. MaxImages /\ received \in 0 .. MaxImages
  /\ m_fd \in {"closed", "open", "gone"} /\ gone \in 0 .. MaxGone
  /\ m_resend_to \in Handler \union {NoHandler}
  /\ available = TRUE => published # 0

FlagsKept == /\ up \in BOOLEAN /\ available \in BOOLEAN
             /\ resendTimer \in BOOLEAN /\ reopenTimer \in BOOLEAN

PeersKept ==
  /\ peer \in [Handler -> PeerRecord]
  /\ \A h \in Handler : PeerRight(peer[h])

SourcesRight == \A h \in Handler : peer[h].source = TRUE <=> HasTask(h)

ServerKept ==
  /\ ChannelKept /\ FlagsKept /\ TasksTyped /\ PeersKept /\ SourcesRight
  /\ requests \in 0 .. MaxRequests

LEMMA ServerStarts == Init => ServerKept
<1> SUFFICES ASSUME Init PROVE ServerKept
  OBVIOUS
<1>1. ChannelKept /\ FlagsKept
  <2>1. published \in 0 .. MaxImages /\ received \in 0 .. MaxImages /\ gone \in 0 .. MaxGone
    BY InputAssumption DEF Init, InputInit
  <2>2. up = TRUE /\ available = FALSE /\ resendTimer = FALSE /\ reopenTimer = FALSE
        /\ m_fd = "closed" /\ m_resend_to = NoHandler
    BY DEF Init, InputInit
  <2> QED  BY <2>1, <2>2 DEF ChannelKept, FlagsKept
<1>2. TasksTyped
  BY DEF Init, InputInit, TasksTyped
<1>3. /\ NoPeer \in PeerRecord /\ NoPeer.state = "none" /\ NoPeer.timer = FALSE
      /\ NoPeer.source = FALSE
  BY DEF NoPeer, PeerRecord, States
<1>4. PeerRight(NoPeer)
  BY <1>3 DEF PeerRight, HasImage, GoesOn, ImageStates, TimerStates, BusyStates
<1>5. PeersKept
  BY <1>3, <1>4 DEF Init, PeersKept
<1>6. \A h \in Handler : ~HasTask(h)
  BY DEF Init, InputInit, HasTask
<1>7. SourcesRight /\ requests \in 0 .. MaxRequests
  BY <1>3, <1>6, RequestAssumption DEF Init, SourcesRight
<1> QED  BY <1>1, <1>2, <1>5, <1>7 DEF ServerKept

(* Steps that leave the channel or the tasks alone. *)
LEMMA ChannelSame ==
  ASSUME ChannelKept, FlagsKept, UNCHANGED channelVars,
         m_resend_to' \in Handler \union {NoHandler}, resendTimer' \in BOOLEAN
  PROVE  ChannelKept' /\ FlagsKept'
BY DEF ChannelKept, FlagsKept, channelVars

LEMMA TasksSame ==
  ASSUME TasksTyped, UNCHANGED m_tasks
  PROVE  TasksTyped' /\ \A h \in Handler : HasTask(h)' <=> HasTask(h)
BY DEF TasksTyped, HasTask

LEMMA PeerChanged ==
  ASSUME PeersKept, NEW h \in Handler, NEW q, PeerRight(q), peer' = [peer EXCEPT ![h] = q]
  PROVE  /\ PeersKept' /\ peer'[h] = q
         /\ \A g \in Handler : g # h => peer'[g] = peer[g]
<1>1. q \in PeerRecord
  BY DEF PeerRight
<1>2. peer \in [Handler -> PeerRecord] /\ peer'[h] = q
      /\ \A g \in Handler : g # h => peer'[g] = peer[g]
  BY DEF PeersKept
<1>3. peer' \in [Handler -> PeerRecord]
  BY <1>1, <1>2
<1>4. \A g \in Handler : PeerRight(peer'[g])
  BY <1>2 DEF PeersKept
<1> QED  BY <1>2, <1>3, <1>4 DEF PeersKept, PeerRight, HasImage, GoesOn

(* A step of one peer, which keeps its source. *)
LEMMA OnePeerKept ==
  ASSUME ServerKept, NEW h \in Handler, NEW q, PeerRight(q), q.source = peer[h].source,
         peer' = [peer EXCEPT ![h] = q], UNCHANGED <<channelVars, m_tasks, requests>>,
         m_resend_to' \in Handler \union {NoHandler}, resendTimer' \in BOOLEAN
  PROVE  ServerKept'
<1>1. ChannelKept' /\ FlagsKept'
  BY ChannelSame DEF ServerKept
<1>2. TasksTyped' /\ \A g \in Handler : HasTask(g)' <=> HasTask(g)
  BY TasksSame DEF ServerKept
<1>3. PeersKept' /\ \A g \in Handler : peer'[g].source = peer[g].source
  BY PeerChanged DEF ServerKept
<1>4. SourcesRight' /\ requests' \in 0 .. MaxRequests
  BY <1>2, <1>3 DEF ServerKept, SourcesRight
<1> QED  BY <1>1, <1>2, <1>3, <1>4 DEF ServerKept

LEMMA ResendTyped ==
  ASSUME ServerKept
  PROVE  m_resend_to \in Handler \union {NoHandler} /\ resendTimer \in BOOLEAN
BY DEF ServerKept, ChannelKept, FlagsKept

LEMMA PeerTyped ==
  ASSUME ServerKept, NEW h \in Handler
  PROVE  PeerRight(peer[h]) /\ peer[h] \in PeerRecord /\ HasImage(peer[h]) /\ GoesOn(peer[h])
BY DEF ServerKept, PeersKept, PeerRight

(* What onDataTimeout() may make of a peer whose timer has just ended. *)
TimerOutcomes(p) ==
  CASE p.state = "file" ->
         Sends(p, [p EXCEPT !.state = "idle"], [p EXCEPT !.state = "file_busy"])
    [] p.state = "waiting" /\ p.image = NoFrame -> Responds(p)
    [] p.state = "waiting" /\ p.image # NoFrame ->
         {[p EXCEPT !.state = Begun(p), !.timer = TRUE]}
    [] p.state \in {"streaming_first_idle", "streaming_idle"} ->
         SendsImage(p, "streaming_idle", "streaming_busy")
    [] p.state = "single_idle" -> SendsImage(p, "idle", "single_busy")
    [] OTHER -> {p}

LEMMA DataTimeoutRight ==
  ASSUME NEW p0, PeerRight(p0), p0.timer,
         NEW p, p = [p0 EXCEPT !.timer = FALSE],
         NEW q \in TimerOutcomes(p)
  PROVE  PeerRight(q) /\ q.source = p0.source
<1>1. p0 \in PeerRecord /\ HasImage(p0) /\ GoesOn(p0) /\ p0.timer = TRUE
  BY DEF PeerRight, PeerRecord
<1>2. /\ p \in PeerRecord /\ p.timer = FALSE /\ p.source = p0.source /\ p.state = p0.state
      /\ p.image = p0.image /\ p.dying = p0.dying
  BY <1>1 DEF PeerRecord
<1>3. HasImage(p)
  BY <1>1, <1>2 DEF HasImage
<1>4. CASE p.state = "file"
  <2>1. q \in Sends(p, [p EXCEPT !.state = "idle"], [p EXCEPT !.state = "file_busy"])
    BY <1>4 DEF TimerOutcomes
  <2>2. [p EXCEPT !.state = "idle"] = [p EXCEPT !.state = "idle",
                                                !.timer = "idle" = "streaming_idle"]
    BY <1>2 DEF PeerRecord
  <2>3. "file_busy" \in BusyStates
    BY DEF BusyStates
  <2> QED  BY <1>2, <1>3, <2>1, <2>2, <2>3, SendsRight
<1>5. CASE p.state = "waiting" /\ p.image = NoFrame
  BY <1>2, <1>5, IdleRight DEF TimerOutcomes
<1>6. CASE p.state = "waiting" /\ p.image # NoFrame
  <2>1. q = [p EXCEPT !.state = Begun(p), !.timer = TRUE]
    BY <1>6 DEF TimerOutcomes
  <2>2. p.source = TRUE
    BY <1>3, <1>6 DEF HasImage
  <2> QED  BY <1>2, <1>6, <2>1, <2>2, BegunRight DEF PeerRecord
<1>7. CASE p.state \in {"streaming_first_idle", "streaming_idle"}
  <2>1. q \in SendsImage(p, "streaming_idle", "streaming_busy")
    BY <1>7 DEF TimerOutcomes
  <2>2. p.image # NoFrame /\ p.source = TRUE
    BY <1>3, <1>7 DEF HasImage, ImageStates
  <2>3. "streaming_busy" \in BusyStates
    BY DEF BusyStates
  <2> QED  BY <1>2, <1>3, <2>1, <2>2, <2>3, SendsRight DEF SendsImage
<1>8. CASE p.state = "single_idle"
  <2>1. q \in SendsImage(p, "idle", "single_busy")
    BY <1>8 DEF TimerOutcomes
  <2>2. "single_busy" \in BusyStates
    BY DEF BusyStates
  <2> QED  BY <1>2, <1>3, <2>1, <2>2, SendsRight DEF SendsImage
<1>9. CASE p.state \notin TimerStates
  <2>1. q = p
    BY <1>9 DEF TimerStates, ImageStates, TimerOutcomes
  <2>2. p0.dying = TRUE
    BY <1>1, <1>2, <1>9 DEF GoesOn, PeerRecord
  <2> QED  BY <1>2, <1>3, <2>1, <2>2 DEF PeerRight, GoesOn
<1> QED  BY <1>4, <1>5, <1>6, <1>7, <1>8, <1>9 DEF TimerStates, ImageStates

LEMMA DataTimeoutKept ==
  ASSUME ServerKept, NEW h \in Handler, DataTimeout(h)
  PROVE  ServerKept'
<1> DEFINE p == [peer[h] EXCEPT !.timer = FALSE]
<1>1. PICK q \in TimerOutcomes(p) : peer' = [peer EXCEPT ![h] = q]
  BY DEF DataTimeout, TimerOutcomes
<1>2. peer[h].timer /\ UNCHANGED <<inputVars, requests>>
  BY DEF DataTimeout
<1>3. PeerRight(q) /\ q.source = peer[h].source
  <2>1. p = [peer[h] EXCEPT !.timer = FALSE]
    OBVIOUS
  <2> HIDE DEF p
  <2> QED  BY <1>1, <1>2, <2>1, PeerTyped, DataTimeoutRight
<1> QED  BY <1>1, <1>2, <1>3, OnePeerKept, ResendTyped DEF inputVars, resendVars

(* Once a request has been read the timer does not run. *)
LEMMA RespondsRight ==
  ASSUME NEW p, PeerRight(p), p.state \in {"got_get", "got_post"}, NEW q \in Responds(p)
  PROVE  PeerRight(q) /\ q.source = p.source
<1>1. p \in PeerRecord /\ GoesOn(p)
  BY DEF PeerRight
<1>2. CASE p.timer = FALSE
  BY <1>1, <1>2, IdleRight
<1>3. CASE p.timer # FALSE
  <2> DEFINE idle == [p EXCEPT !.state = "idle"]
  <2>1. p.dying = TRUE
    BY <1>1, <1>3 DEF GoesOn, PeerRecord, TimerStates, ImageStates
  <2>2. /\ idle \in PeerRecord /\ idle.state = "idle" /\ idle.dying = TRUE
        /\ idle.source = p.source
    BY <1>1, <2>1 DEF PeerRecord, States
  <2>3. q \in {[idle EXCEPT !.dying = TRUE], idle, [idle EXCEPT !.blocked = TRUE]}
    BY DEF Responds, Sends
  <2> HIDE DEF idle
  <2>4. q \in PeerRecord /\ q.state = "idle" /\ q.dying = TRUE /\ q.source = p.source
    BY <2>2, <2>3 DEF PeerRecord
  <2> QED  BY <2>4 DEF PeerRight, HasImage, GoesOn, ImageStates
<1> QED  BY <1>2, <1>3

LEMMA SendCompleteKept ==
  ASSUME ServerKept, NEW h \in Handler, SendComplete(h)
  PROVE  ServerKept'
<1> DEFINE p == peer[h]
           q == [SentAll(p) EXCEPT !.blocked = FALSE]
<1>1. peer' = [peer EXCEPT ![h] = q] /\ UNCHANGED <<inputVars, requests>>
  BY DEF SendComplete
<1>2. p \in PeerRecord /\ HasImage(p) /\ GoesOn(p)
  BY PeerTyped
<1> HIDE DEF p
<1>3. PeerRight(q) /\ q.source = p.source
  <2>1. CASE p.state = "streaming_busy"
    <3>1. /\ q \in PeerRecord /\ q.state = "streaming_idle" /\ q.timer = TRUE
          /\ q.image = p.image /\ q.source = p.source
      BY <1>2, <2>1 DEF SentAll, PeerRecord, States
    <3>2. p.image # NoFrame /\ p.source = TRUE
      BY <1>2, <2>1 DEF HasImage
    <3> HIDE DEF q
    <3> QED  BY <3>1, <3>2 DEF PeerRight, HasImage, GoesOn, ImageStates, TimerStates, BusyStates
  <2>2. CASE p.state \in {"single_busy", "file_busy"}
    <3>1. /\ q \in PeerRecord /\ q.state = "idle" /\ q.timer = p.timer
          /\ q.dying = p.dying /\ q.source = p.source
      BY <1>2, <2>2 DEF SentAll, PeerRecord, States
    <3>2. p.dying = FALSE => p.timer = FALSE
      BY <1>2, <2>2 DEF GoesOn, TimerStates, ImageStates, PeerRecord
    <3> HIDE DEF q
    <3> QED  BY <3>1, <3>2 DEF PeerRight, HasImage, GoesOn, ImageStates, TimerStates, BusyStates
  <2>3. CASE p.state \notin BusyStates
    <3>1. /\ q \in PeerRecord /\ q.state = p.state /\ q.timer = p.timer
          /\ q.dying = p.dying /\ q.source = p.source /\ q.image = p.image
      BY <1>2, <2>3 DEF SentAll, PeerRecord, BusyStates
    <3> HIDE DEF q
    <3> QED  BY <1>2, <2>3, <3>1 DEF PeerRight, HasImage, GoesOn
  <2> QED  BY <2>1, <2>2, <2>3 DEF BusyStates
<1> QED  BY <1>1, <1>3, OnePeerKept, ResendTyped DEF inputVars, resendVars, p

LEMMA ConnectKept ==
  ASSUME ServerKept, NEW h \in Handler, Connect(h)
  PROVE  ServerKept'
<1> DEFINE q == [peer[h] EXCEPT !.state = "init"]
<1>1. peer[h].state = "none" /\ UNCHANGED <<inputVars, requests>>
      /\ peer' = [peer EXCEPT ![h] = q]
  BY DEF Connect
<1>2. peer[h] \in PeerRecord /\ GoesOn(peer[h])
  BY PeerTyped
<1>3. /\ q \in PeerRecord /\ q.state = "init" /\ q.source = peer[h].source
      /\ q.timer = peer[h].timer /\ q.dying = peer[h].dying
  BY <1>2 DEF PeerRecord, States
<1> HIDE DEF q
<1>4. PeerRight(q)
  BY <1>1, <1>2, <1>3 DEF PeerRight, HasImage, GoesOn, ImageStates, TimerStates, BusyStates
<1> QED  BY <1>1, <1>3, <1>4, OnePeerKept, ResendTyped DEF inputVars, resendVars

LEMMA DropKept ==
  ASSUME ServerKept, NEW h \in Handler, Drop(h)
  PROVE  ServerKept'
<1> DEFINE q == [peer[h] EXCEPT !.dying = TRUE]
<1>1. peer' = [peer EXCEPT ![h] = q] /\ UNCHANGED <<inputVars, requests>>
  BY DEF Drop
<1>2. PeerRight(q) /\ q.source = peer[h].source
  <2>1. peer[h] \in PeerRecord /\ HasImage(peer[h])
    BY PeerTyped
  <2> QED  BY <2>1, DyingRight DEF PeerRecord
<1> HIDE DEF q
<1> QED  BY <1>1, <1>2, OnePeerKept, ResendTyped DEF inputVars, resendVars

LEMMA PostEndKept ==
  ASSUME ServerKept, NEW h \in Handler, PostEnd(h)
  PROVE  ServerKept'
<1>1. PICK q \in Responds(peer[h]) : peer' = [peer EXCEPT ![h] = q]
  BY DEF PostEnd
<1>2. peer[h].state = "got_post" /\ UNCHANGED <<inputVars, requests>>
  BY DEF PostEnd
<1>3. PeerRight(q) /\ q.source = peer[h].source
  BY <1>2, PeerTyped, RespondsRight
<1> QED  BY <1>1, <1>2, <1>3, OnePeerKept, ResendTyped DEF inputVars, resendVars

LEMMA GetEndKept ==
  ASSUME ServerKept, NEW h \in Handler, GetEnd(h)
  PROVE  ServerKept'
<1> DEFINE p == peer[h]
           Going(state) == [p EXCEPT !.state = state, !.timer = TRUE]
<1>1. p.state = "got_get" /\ PeerRight(p) /\ p \in PeerRecord
  BY PeerTyped DEF GetEnd
<1>2. UNCHANGED <<channelVars, m_tasks, requests>> /\ m_resend_to' \in Handler \union {NoHandler}
      /\ resendTimer' \in BOOLEAN
  BY ResendTyped DEF GetEnd, inputVars, resendVars, Resend
<1>3. \A state : [peer EXCEPT ![h].state = state, ![h].timer = TRUE]
                 = [peer EXCEPT ![h] = Going(state)]
  BY DEF ServerKept, PeersKept, PeerRecord
<1>4. \/ peer' = [peer EXCEPT ![h] = Going("file")]
      \/ \E q \in Responds(p) : peer' = [peer EXCEPT ![h] = q]
      \/ p.source /\ peer' = [peer EXCEPT ![h] = Going(Begins(p))]
  BY <1>3 DEF GetEnd
<1> HIDE DEF p
<1>5. CASE peer' = [peer EXCEPT ![h] = Going("file")]
  <2> DEFINE q == Going("file")
  <2>1. q \in PeerRecord /\ q.state = "file" /\ q.timer = TRUE /\ q.source = p.source
    BY <1>1 DEF PeerRecord, States
  <2> HIDE DEF q
  <2>2. PeerRight(q)
    BY <2>1 DEF PeerRight, HasImage, GoesOn, ImageStates, TimerStates, BusyStates
  <2> QED  BY <1>2, <1>5, <2>1, <2>2, OnePeerKept DEF p, q
<1>6. CASE \E q \in Responds(p) : peer' = [peer EXCEPT ![h] = q]
  BY <1>1, <1>2, <1>6, RespondsRight, OnePeerKept DEF p
<1>7. CASE p.source /\ peer' = [peer EXCEPT ![h] = Going(Begins(p))]
  <2>1. p.source = TRUE
    BY <1>1, <1>7 DEF PeerRecord
  <2>2. CASE p.image # NoFrame
    <3>1. Begins(p) = Begun(p)
      BY <2>2 DEF Begins
    <3>2. PeerRight(Going(Begun(p))) /\ Going(Begun(p)).source = p.source
      BY <1>1, <2>1, <2>2, BegunRight DEF PeerRecord
    <3> QED  BY <1>2, <1>7, <3>1, <3>2, OnePeerKept DEF p
  <2>3. CASE p.image = NoFrame
    <3> DEFINE q == Going("waiting")
    <3>1. Begins(p) = "waiting"
      BY <2>3 DEF Begins
    <3>2. q \in PeerRecord /\ q.state = "waiting" /\ q.timer = TRUE /\ q.source = p.source
      BY <1>1 DEF PeerRecord, States
    <3>3. peer' = [peer EXCEPT ![h] = q]
      BY <1>7, <3>1
    <3> HIDE DEF q
    <3>4. PeerRight(q)
      BY <2>1, <3>2 DEF PeerRight, HasImage, GoesOn, ImageStates, TimerStates, BusyStates
    <3> QED  BY <1>2, <3>2, <3>3, <3>4, OnePeerKept DEF p
  <2> QED  BY <2>2, <2>3
<1> QED  BY <1>4, <1>5, <1>6, <1>7

(* A new source: the channel's task comes or goes with it. *)
LEMMA StartKept ==
  ASSUME ChannelKept, FlagsKept, Start \/ UNCHANGED channelVars, UNCHANGED resendVars
  PROVE  ChannelKept' /\ FlagsKept'
<1>1. /\ UNCHANGED <<published, up, available, reopenTimer, gone, m_resend_to, resendTimer>>
      /\ m_fd' \in {m_fd, "open"} /\ received' \in {received, published}
  BY DEF Start, Attached, channelVars, resendVars
<1> QED  BY <1>1 DEF ChannelKept, FlagsKept

LEMMA SelectKept ==
  ASSUME ServerKept, NEW h \in Handler, NEW p \in PeerRecord, NEW target \in Targets,
         p.state \in {"got_get", "got_post"}, p.source = peer[h].source,
         p.dying = FALSE => p.timer = FALSE,
         Select(h, p, target), requests' \in 0 .. MaxRequests
  PROVE  ServerKept'
<1> DEFINE q == Selected(p, target)
           on == IF target = "file" THEN p.source ELSE target = "channel"
<1>1. /\ peer' = [peer EXCEPT ![h] = q]
      /\ Start \/ UNCHANGED channelVars
      /\ CASE target = "channel" /\ ~p.source -> Add(h)
           [] target = "nowhere" /\ p.source -> Remove(h)
           [] OTHER -> UNCHANGED m_tasks
      /\ UNCHANGED resendVars
  BY DEF Select
<1>2. on \in BOOLEAN /\ p.source \in BOOLEAN
  BY DEF PeerRecord
<1>3. /\ q \in PeerRecord /\ q.state = p.state /\ q.source = on /\ q.dying = p.dying
      /\ q.timer \in {p.timer, FALSE}
  <2>1. CASE on = p.source
    <3>1. q = p
      BY <2>1 DEF Selected
    <3> QED  BY <2>1, <3>1
  <2>2. CASE on # p.source
    <3> DEFINE b == on
    <3>1. q = [p EXCEPT !.source = b, !.image = NoFrame, !.timer = FALSE]
      BY <2>2 DEF Selected
    <3>2. b \in BOOLEAN /\ b = on
      BY <1>2
    <3> HIDE DEF b, q
    <3> QED  BY <3>1, <3>2 DEF PeerRecord
  <2> QED  BY <2>1, <2>2
<1> HIDE DEF q
<1>4. PeerRight(q)
  BY <1>3 DEF PeerRight, HasImage, GoesOn, ImageStates, TimerStates, BusyStates
<1>5. ChannelKept' /\ FlagsKept'
  BY <1>1, StartKept DEF ServerKept
<1>6. PeersKept' /\ peer'[h] = q /\ \A g \in Handler : g # h => peer'[g] = peer[g]
  BY <1>1, <1>4, PeerChanged DEF ServerKept
<1>7. TasksTyped /\ \A g \in Handler : peer[g].source = TRUE <=> HasTask(g)
  BY DEF ServerKept, SourcesRight
<1>8. /\ TasksTyped'
      /\ \A g \in Handler : g # h => (HasTask(g)' <=> HasTask(g))
      /\ HasTask(h)' <=> on = TRUE
  <2>1. CASE target = "channel" /\ p.source = FALSE
    <3>1. Add(h) /\ on = TRUE
      BY <1>1, <2>1
    <3> QED  BY <1>7, <3>1, AddRight
  <2>2. CASE target = "nowhere" /\ p.source = TRUE
    <3>1. Remove(h) /\ on = FALSE
      BY <1>1, <2>2
    <3> QED  BY <1>7, <3>1, RemoveRight
  <2>3. CASE /\ ~(target = "channel" /\ p.source = FALSE)
             /\ ~(target = "nowhere" /\ p.source = TRUE)
    <3>1. UNCHANGED m_tasks /\ on = p.source
      BY <1>1, <1>2, <2>3 DEF Targets
    <3> QED  BY <1>7, <3>1, TasksSame
  <2> QED  BY <2>1, <2>2, <2>3
<1> HIDE DEF on
<1>9. SourcesRight'
  BY <1>3, <1>6, <1>7, <1>8 DEF SourcesRight
<1> QED  BY <1>5, <1>6, <1>8, <1>9 DEF ServerKept

LEMMA RequestCount ==
  ASSUME ServerKept, requests < MaxRequests, requests' = requests + 1
  PROVE  requests' \in 0 .. MaxRequests
BY RequestAssumption DEF ServerKept

LEMMA LineKept ==
  ASSUME ServerKept, NEW h \in Handler,
         \/ \E request \in Requests : GetLine(h, request)
         \/ \E target \in Targets : PostLine(h, target)
  PROVE  ServerKept'
<1>1. peer[h] \in PeerRecord /\ GoesOn(peer[h])
  BY PeerTyped
<1>2. peer[h].state \in {"init", "idle"} /\ requests' \in 0 .. MaxRequests
  BY RequestCount DEF GetLine, PostLine
<1>3. peer[h].dying = FALSE => peer[h].timer = FALSE
  BY <1>1, <1>2 DEF GoesOn, TimerStates, ImageStates, PeerRecord
<1>4. ASSUME NEW request \in Requests, GetLine(h, request)
      PROVE  ServerKept'
  <2> DEFINE p == [peer[h] EXCEPT !.state = "got_get", !.config = request]
  <2>1. Select(h, p, request.target) /\ request.target \in Targets
    BY <1>4, RequestAssumption DEF GetLine
  <2>2. /\ p \in PeerRecord /\ p.state = "got_get" /\ p.source = peer[h].source
        /\ p.dying = peer[h].dying /\ p.timer = peer[h].timer
    BY <1>1 DEF PeerRecord, States
  <2> HIDE DEF p
  <2> QED  BY <1>2, <1>3, <2>1, <2>2, SelectKept
<1>5. ASSUME NEW target \in Targets, PostLine(h, target)
      PROVE  ServerKept'
  <2> DEFINE p == [peer[h] EXCEPT !.state = "got_post"]
  <2>1. Select(h, p, target)
    BY <1>5 DEF PostLine
  <2>2. /\ p \in PeerRecord /\ p.state = "got_post" /\ p.source = peer[h].source
        /\ p.dying = peer[h].dying /\ p.timer = peer[h].timer
    BY <1>1 DEF PeerRecord, States
  <2> HIDE DEF p
  <2> QED  BY <1>2, <1>3, <2>1, <2>2, SelectKept
<1> QED  BY <1>4, <1>5

LEMMA NoPeerRight == PeerRight(NoPeer) /\ NoPeer.source = FALSE
<1>1. NoPeer \in PeerRecord /\ NoPeer.state = "none" /\ NoPeer.timer = FALSE
      /\ NoPeer.source = FALSE
  BY DEF NoPeer, PeerRecord, States
<1> QED  BY <1>1 DEF PeerRight, HasImage, GoesOn, ImageStates, TimerStates, BusyStates

LEMMA DeleteKept ==
  ASSUME ServerKept, NEW h \in Handler, Delete(h)
  PROVE  ServerKept'
<1>1. /\ peer' = [peer EXCEPT ![h] = NoPeer]
      /\ IF peer[h].source THEN Remove(h) ELSE UNCHANGED m_tasks
      /\ UNCHANGED <<channelVars, resendVars, requests>>
  BY DEF Delete
<1>2. ChannelKept' /\ FlagsKept'
  BY <1>1, StartKept DEF ServerKept
<1>3. PeersKept' /\ peer'[h] = NoPeer /\ \A g \in Handler : g # h => peer'[g] = peer[g]
  BY <1>1, NoPeerRight, PeerChanged DEF ServerKept
<1>4. TasksTyped /\ \A g \in Handler : peer[g].source = TRUE <=> HasTask(g)
  BY DEF ServerKept, SourcesRight
<1>5. /\ TasksTyped' /\ ~HasTask(h)'
      /\ \A g \in Handler : g # h => (HasTask(g)' <=> HasTask(g))
  <2>0. peer[h].source \in BOOLEAN
    BY PeerTyped DEF PeerRecord
  <2>1. CASE peer[h].source = TRUE
    BY <1>1, <1>4, <2>1, RemoveRight
  <2>2. CASE peer[h].source = FALSE
    BY <1>1, <1>4, <2>2, TasksSame
  <2> QED  BY <2>0, <2>1, <2>2
<1>6. SourcesRight'
  BY <1>3, <1>4, <1>5, NoPeerRight DEF SourcesRight
<1> QED  BY <1>1, <1>2, <1>3, <1>5, <1>6 DEF ServerKept

-----------------------------------------------------------------------------
(* Images *)

LEMMA DoInputRight ==
  ASSUME NEW p, PeerRight(p), NEW frame \in Frames
  PROVE  LET q == DoInput(p, frame)
         IN  /\ PeerRight(q) /\ q.source = p.source /\ q.config = p.config
             /\ q.image = IF p.state \in {"init", "idle"} THEN NoFrame ELSE frame
<1> DEFINE q == DoInput(p, frame)
<1>1. p \in PeerRecord /\ HasImage(p) /\ GoesOn(p)
  BY DEF PeerRight
<1>2. CASE p.state \in {"init", "idle"}
  <2>1. q = [p EXCEPT !.image = NoFrame]
    BY <1>2 DEF DoInput
  <2>2. /\ q \in PeerRecord /\ q.state = p.state /\ q.timer = p.timer /\ q.image = NoFrame
        /\ q.dying = p.dying /\ q.source = p.source /\ q.config = p.config
    BY <1>1, <2>1 DEF PeerRecord
  <2> HIDE DEF q
  <2>3. HasImage(q) /\ GoesOn(q)
    BY <1>1, <1>2, <2>2 DEF HasImage, GoesOn, ImageStates, TimerStates, BusyStates
  <2> QED  BY <1>2, <2>2, <2>3 DEF PeerRight, q
<1>3. CASE p.state \notin {"init", "idle"}
  <2> DEFINE on == p.timer \/ p.state \in {"waiting", "streaming_idle"}
  <2>1. q = [p EXCEPT !.image = frame, !.timer = on]
    BY <1>1, <1>3 DEF DoInput, PeerRecord
  <2>2. /\ on \in BOOLEAN /\ (on = TRUE <=> p.timer = TRUE \/ p.state \in {"waiting", "streaming_idle"})
    BY <1>1 DEF PeerRecord
  <2> HIDE DEF on
  <2>3. /\ q \in PeerRecord /\ q.state = p.state /\ q.timer = on /\ q.image = frame
        /\ q.dying = p.dying /\ q.source = p.source /\ q.config = p.config
        /\ q.blocked = p.blocked
    BY <1>1, <2>1, <2>2 DEF PeerRecord
  <2> HIDE DEF q
  <2>4. HasImage(q)
    BY <1>1, <2>3, NoFrameIsNone DEF HasImage
  <2>5. GoesOn(q)
    BY <1>1, <2>2, <2>3 DEF GoesOn, ImageStates, TimerStates, BusyStates
  <2> QED  BY <1>3, <2>3, <2>4, <2>5 DEF PeerRight, q
<1> QED  BY <1>2, <1>3

(* The channel's last image can be given to those who want it. *)
LEMMA FrameSendable ==
  ASSUME ServerKept, published # 0, NEW one \in Handler \union {NoHandler}
  PROVE  Sendable(Frame, one, Wanted)
<1>1. published \in 1 .. MaxImages
  BY InputAssumption DEF ServerKept, ChannelKept
<1>2. Frame \in Frames /\ Frame.type = Native
  BY <1>1, InputAssumption DEF Frame, Frames
<1>3. \A h \in Handler : peer[h].config.type \in Types
  <2> SUFFICES ASSUME NEW h \in Handler PROVE peer[h].config.type \in Types
    OBVIOUS
  <2>1. peer[h].config \in Requests \union {NoRequest}
    BY PeerTyped DEF PeerRecord
  <2> QED  BY <2>1, RequestAssumption DEF NoRequest
<1> QED  BY <1>2, <1>3 DEF Sendable, Wanted

LEMMA DeliveredRight ==
  ASSUME ServerKept, published # 0, NEW one \in Handler \union {NoHandler},
         peer' = Delivered(one)
  PROVE  /\ PeersKept' /\ \A h \in Handler : peer'[h].source = peer[h].source
         /\ \A h \in Handler :
              LET called == HasTask(h) /\ one \in {NoHandler, h}
              IN  /\ ~called => peer'[h] = peer[h]
                  /\ called /\ peer[h].state \in {"init", "idle"} => peer'[h].image = NoFrame
                  /\ called /\ peer[h].state \notin {"init", "idle"} =>
                       /\ peer'[h].image.type = peer[h].config.type
                       /\ h = one \/ (\A i \in DOMAIN m_tasks : m_tasks[i].handler # NoHandler)
                            => peer'[h].image.n = published
<1> DEFINE given == Given(Frame, one, Wanted)
           live == \A i \in DOMAIN m_tasks : m_tasks[i].handler # NoHandler
<1>1. peer' = [h \in Handler |-> IF h \in DOMAIN given THEN DoInput(peer[h], given[h])
                                 ELSE peer[h]]
  BY DEF Delivered
<1>2. /\ DOMAIN given = {h \in Handler : HasTask(h) /\ one \in {NoHandler, h}}
      /\ \A h \in DOMAIN given :
           /\ given[h] \in Frames /\ given[h].type = peer[h].config.type
           /\ h = one \/ live => given[h].n = published
  <2>1. TasksTyped /\ Sendable(Frame, one, Wanted)
    BY FrameSendable DEF ServerKept
  <2>2. Frame.n = published /\ \A h \in Handler : Wanted[h] = peer[h].config.type
    BY DEF Frame, Wanted
  <2>3. /\ DOMAIN given = {h \in Handler : HasTask(h) /\ one \in {NoHandler, h}}
        /\ \A h \in DOMAIN given :
             /\ given[h] \in Frames /\ given[h].type = Wanted[h]
             /\ h = one => given[h].n = Frame.n
             /\ live => given[h].n = Frame.n
    <3>1. RightlyGiven(Given(Frame, one, Wanted), Frame, one, Wanted)
      BY <2>1, GivenRight
    <3>2. RightlyGiven(given, Frame, one, Wanted)
      BY <3>1
    <3> HIDE DEF given
    <3> QED  BY <3>2 DEF RightlyGiven
  <2> HIDE DEF given, live
  <2> QED  BY <2>2, <2>3
<1> HIDE DEF given, live
<1>3. ASSUME NEW h \in Handler
      PROVE  /\ PeerRight(peer'[h]) /\ peer'[h].source = peer[h].source
             /\ h \notin DOMAIN given => peer'[h] = peer[h]
             /\ h \in DOMAIN given /\ peer[h].state \in {"init", "idle"}
                  => peer'[h].image = NoFrame
             /\ h \in DOMAIN given /\ peer[h].state \notin {"init", "idle"}
                  => peer'[h].image = given[h]
  <2>1. PeerRight(peer[h])
    BY PeerTyped
  <2>2. CASE h \in DOMAIN given
    <3>1. peer'[h] = DoInput(peer[h], given[h]) /\ given[h] \in Frames
      BY <1>1, <1>2, <2>2
    <3> QED  BY <2>1, <2>2, <3>1, DoInputRight
  <2>3. CASE h \notin DOMAIN given
    BY <1>1, <2>1, <2>3
  <2> QED  BY <2>2, <2>3
<1>4. peer' \in [Handler -> PeerRecord]
  BY <1>1, <1>3 DEF PeerRight
<1>5. PeersKept'
  BY <1>3, <1>4 DEF PeersKept, PeerRight, HasImage, GoesOn
<1> QED  BY <1>2, <1>3, <1>5 DEF live

(* Every peer that uses the channel is called, and its tasks are kept. *)
LEMMA SentKept ==
  ASSUME ServerKept, published # 0, NEW one \in Handler \union {NoHandler},
         peer' = Delivered(one), Sent(Frame, one, Wanted)
  PROVE  TasksTyped' /\ PeersKept' /\ SourcesRight'
<1>1. TasksTyped' /\ \A h \in Handler : HasTask(h)' <=> HasTask(h)
  BY FrameSendable, HasTaskLeft DEF ServerKept
<1>2. PeersKept' /\ \A h \in Handler : peer'[h].source = peer[h].source
  BY DeliveredRight
<1> QED  BY <1>1, <1>2 DEF ServerKept, SourcesRight

LEMMA InputFacts ==
  ASSUME ServerKept, Input
  PROVE  published # 0
BY DEF ServerKept, ChannelKept, Input, Receive

LEMMA InputKept ==
  ASSUME ServerKept, Input
  PROVE  ServerKept'
<1>1. /\ Sent(Frame, NoHandler, Wanted) /\ peer' = Delivered(NoHandler)
      /\ received' = published /\ requests' = requests
      /\ UNCHANGED <<published, up, available, m_fd, reopenTimer, gone, m_resend_to, resendTimer>>
  BY DEF Input, Receive, resendVars
<1>2. TasksTyped' /\ PeersKept' /\ SourcesRight'
  BY <1>1, InputFacts, SentKept
<1>3. ChannelKept' /\ FlagsKept'
  BY <1>1 DEF ServerKept, ChannelKept, FlagsKept
<1> QED  BY <1>1, <1>2, <1>3 DEF ServerKept

LEMMA ResentKept ==
  ASSUME ServerKept, Resent
  PROVE  ServerKept'
<1>1. UNCHANGED channelVars /\ resendTimer' = FALSE /\ requests' = requests
  BY DEF Resent, ResendNow
<1>2. CASE CanResend
  <2>1. /\ Sent(Frame, m_resend_to, Wanted) /\ peer' = Delivered(m_resend_to)
        /\ m_resend_to' = NoHandler
    BY <1>2 DEF Resent, ResendNow
  <2>2. published # 0 /\ m_resend_to \in Handler \union {NoHandler}
    BY <1>2 DEF CanResend, ServerKept, ChannelKept, FlagsKept
  <2>3. TasksTyped' /\ PeersKept' /\ SourcesRight'
    BY <2>1, <2>2, SentKept
  <2>4. ChannelKept' /\ FlagsKept'
    BY <1>1, <2>1, ChannelSame DEF ServerKept
  <2> QED  BY <1>1, <2>3, <2>4 DEF ServerKept
<1>3. CASE ~CanResend
  <2>1. UNCHANGED <<m_tasks, peer, m_resend_to>>
    BY <1>3 DEF Resent, ResendNow
  <2>2. ChannelKept' /\ FlagsKept'
    BY <1>1, <2>1, ResendTyped, ChannelSame DEF ServerKept
  <2>3. TasksTyped' /\ SourcesRight' /\ PeersKept'
    BY <2>1, TasksSame DEF ServerKept, SourcesRight, PeersKept
  <2> QED  BY <1>1, <2>2, <2>3 DEF ServerKept
<1> QED  BY <1>2, <1>3

LEMMA ChannelStepKept ==
  ASSUME ServerKept, Channel
  PROVE  ServerKept'
<1>1. UNCHANGED <<m_tasks, peer, requests, m_resend_to, resendTimer>>
  BY DEF Channel, Publish, PublisherGoes, PublisherComes, LoseChannel, Reopen, resendVars
<1>2. TasksTyped' /\ SourcesRight' /\ PeersKept' /\ requests' \in 0 .. MaxRequests
  BY <1>1, TasksSame DEF ServerKept, SourcesRight, PeersKept
<1>3. published' \in 0 .. MaxImages /\ received' \in 0 .. MaxImages /\ gone' \in 0 .. MaxGone
  <2>1. /\ published' = published \/ (published < MaxImages /\ published' = published + 1)
        /\ gone' = gone \/ (gone < MaxGone /\ gone' = gone + 1)
        /\ received' \in {received, published}
    BY DEF Channel, Publish, PublisherGoes, PublisherComes, LoseChannel, Reopen, Attached
  <2> QED  BY <2>1, InputAssumption DEF ServerKept, ChannelKept
<1>4. m_fd' \in {"closed", "open", "gone"}
  BY DEF Channel, Publish, PublisherGoes, PublisherComes, LoseChannel, Reopen, Attached,
     ServerKept, ChannelKept
<1>5. available' = TRUE => published' # 0
  <2>1. CASE Publish
    BY <2>1 DEF Publish, ServerKept, ChannelKept
  <2>2. CASE ~Publish
    <3>1. published' = published /\ available' \in {available, FALSE}
      BY <2>2 DEF Channel, PublisherGoes, PublisherComes, LoseChannel, Reopen
    <3> QED  BY <3>1 DEF ServerKept, ChannelKept
  <2> QED  BY <2>1, <2>2
<1>6. FlagsKept'
  <2>1. /\ up' \in {up, TRUE, FALSE} /\ available' \in {available, TRUE, FALSE}
        /\ reopenTimer' \in {reopenTimer, TRUE, FALSE}
    BY DEF Channel, Publish, PublisherGoes, PublisherComes, LoseChannel, Reopen
  <2> QED  BY <1>1, <2>1 DEF ServerKept, FlagsKept
<1>7. ChannelKept'
  BY <1>1, <1>3, <1>4, <1>5 DEF ServerKept, ChannelKept
<1> QED  BY <1>2, <1>6, <1>7 DEF ServerKept

LEMMA ServerStepKept == ServerKept /\ [Next]_vars => ServerKept'
<1> SUFFICES ASSUME ServerKept, [Next]_vars PROVE ServerKept'
  OBVIOUS
<1>1. CASE Next
  BY <1>1, ChannelStepKept, InputKept, ResentKept, DataTimeoutKept, DeleteKept, ConnectKept,
     PostEndKept, GetEndKept, SendCompleteKept, DropKept, LineKept DEF Next, Client
<1>2. CASE UNCHANGED vars
  <2>1. UNCHANGED <<channelVars, m_tasks, m_resend_to, resendTimer, peer, requests>>
    BY <1>2 DEF vars, inputVars, resendVars
  <2>2. ChannelKept' /\ FlagsKept'
    BY <2>1, ResendTyped, ChannelSame DEF ServerKept
  <2>3. TasksTyped' /\ SourcesRight' /\ PeersKept'
    BY <2>1, TasksSame DEF ServerKept, SourcesRight, PeersKept
  <2> QED  BY <2>1, <2>2, <2>3 DEF ServerKept
<1> QED  BY <1>1, <1>2

LEMMA ServerAlways == Spec => []ServerKept
BY ServerStarts, ServerStepKept, PTL DEF Spec

(* Each peer that uses the channel has one task there, others none. *)
LEMMA TasksCounted ==
  ASSUME ServerKept
  PROVE  NoDangling
<1> SUFFICES ASSUME NEW h \in Handler
             PROVE  Cardinality({i \in DOMAIN m_tasks : m_tasks[i].handler = h})
                      = IF peer[h].source THEN 1 ELSE 0
  BY DEF NoDangling
<1> DEFINE P == {i \in DOMAIN m_tasks : m_tasks[i].handler = h}
<1>1. peer[h].source \in BOOLEAN /\ (peer[h].source = TRUE <=> HasTask(h))
  BY PeerTyped DEF PeerRecord, ServerKept, SourcesRight
<1>2. CASE HasTask(h)
  <2>1. PICK i \in DOMAIN m_tasks : m_tasks[i].handler = h
    BY <1>2 DEF HasTask
  <2>2. P = {i}
    BY <2>1, InputAssumption DEF ServerKept, TasksTyped
  <2>3. Cardinality(P) = 1
    BY <2>2, FS_Singleton
  <2> QED  BY <1>1, <1>2, <2>3
<1>3. CASE ~HasTask(h)
  <2>1. P = {}
    BY <1>3 DEF HasTask
  <2>2. Cardinality(P) = 0
    BY <2>1, FS_EmptySet
  <2> QED  BY <1>1, <1>3, <2>2
<1> QED  BY <1>2, <1>3

(* Whatever clients ask for, however they read, and whenever images, sends *)
(* and timers come: buildPdu() finds an image, nothing that was begun is   *)
(* left without its next event, and the channel calls the peers that there *)
(* are (gvhttpserverpeer.cpp, gvimageinput.cpp).                           *)
THEOREM PeersGoOn == Spec => []PeerInvariant
<1>1. ServerKept => PeerInvariant
  <2> SUFFICES ASSUME ServerKept PROVE PeerInvariant
    OBVIOUS
  <2>1. TypeOK
    BY DEF ServerKept, ChannelKept, FlagsKept, TasksTyped, PeersKept, PeerRecord, InputTyped,
       TypeOK
  <2>2. ASSUME NEW h \in Handler
        PROVE  /\ peer[h].state \in ImageStates => peer[h].image # NoFrame /\ peer[h].source
               /\ ~peer[h].dying =>
                    /\ peer[h].timer <=> peer[h].state \in TimerStates
                    /\ peer[h].state \in BusyStates => peer[h].blocked
    BY PeerTyped DEF HasImage, GoesOn, PeerRecord
  <2>3. ImageThere /\ KeepsGoing
    BY <2>2 DEF ImageThere, KeepsGoing, ImageStates, TimerStates, BusyStates
  <2> QED  BY <2>1, <2>3, TasksCounted DEF PeerInvariant
<1> QED  BY <1>1, ServerAlways, PTL

(* What a peer does itself leaves the image alone. *)
LEMMA SendsKeepImage ==
  ASSUME NEW p \in PeerRecord
  PROVE  /\ \A q \in Responds(p) : q.image = p.image
         /\ \A q \in TimerOutcomes(p) : q.image = p.image
<1>1. \A next \in States : [p EXCEPT !.state = next].image = p.image
  BY DEF PeerRecord
<1>2. \A q \in Responds(p) : q.image = p.image
  BY <1>1 DEF PeerRecord, Responds, Sends
<1>3. /\ \A q \in SendsImage(p, "streaming_idle", "streaming_busy") : q.image = p.image
      /\ \A q \in SendsImage(p, "idle", "single_busy") : q.image = p.image
  BY DEF PeerRecord, SendsImage, Sends
<1>4. \A q \in Sends(p, [p EXCEPT !.state = "idle"], [p EXCEPT !.state = "file_busy"]) :
        q.image = p.image
  BY DEF PeerRecord, Sends
<1>5. [p EXCEPT !.state = Begun(p), !.timer = TRUE].image = p.image
  BY DEF PeerRecord
<1>6. ASSUME NEW q \in TimerOutcomes(p) PROVE q.image = p.image
  <2>1. \/ q \in Sends(p, [p EXCEPT !.state = "idle"], [p EXCEPT !.state = "file_busy"])
        \/ q \in Responds(p) \/ q = [p EXCEPT !.state = Begun(p), !.timer = TRUE]
        \/ q \in SendsImage(p, "streaming_idle", "streaming_busy")
        \/ q \in SendsImage(p, "idle", "single_busy") \/ q = p
    BY <1>6 DEF TimerOutcomes
  <2> QED  BY <1>2, <1>3, <1>4, <1>5, <2>1
<1> QED  BY <1>2, <1>6

LEMMA OneImageKept ==
  ASSUME ServerKept, NEW g \in Handler, NEW q, peer' = [peer EXCEPT ![g] = q],
         q.image \in {peer[g].image, NoFrame}, NEW h \in Handler
  PROVE  peer'[h].image \in {peer[h].image, NoFrame}
<1>1. peer \in [Handler -> PeerRecord]
  BY DEF ServerKept, PeersKept
<1>2. CASE g = h
  BY <1>1, <1>2
<1>3. CASE g # h
  BY <1>1, <1>3
<1> QED  BY <1>2, <1>3

(* The image of a peer is replaced only by one that is delivered. *)
LEMMA ImagesAreDelivered ==
  ASSUME ServerKept, [Next]_vars, ~Input, ~Resent, NEW h \in Handler
  PROVE  peer'[h].image \in {peer[h].image, NoFrame}
<1>1. CASE UNCHANGED peer
  BY <1>1
<1>2. ASSUME NEW g \in Handler, DataTimeout(g)
      PROVE  peer'[h].image \in {peer[h].image, NoFrame}
  <2> DEFINE p == [peer[g] EXCEPT !.timer = FALSE]
  <2>1. PICK q \in TimerOutcomes(p) : peer' = [peer EXCEPT ![g] = q]
    BY <1>2 DEF DataTimeout, TimerOutcomes
  <2>2. p \in PeerRecord /\ p.image = peer[g].image
    BY PeerTyped DEF PeerRecord
  <2> HIDE DEF p
  <2> QED  BY <2>1, <2>2, SendsKeepImage, OneImageKept
<1>3. ASSUME NEW g \in Handler, Delete(g)
      PROVE  peer'[h].image \in {peer[h].image, NoFrame}
  BY <1>3, OneImageKept DEF Delete, NoPeer
<1>4. ASSUME NEW g \in Handler, Connect(g)
      PROVE  peer'[h].image \in {peer[h].image, NoFrame}
  <2> DEFINE q == [peer[g] EXCEPT !.state = "init"]
  <2>1. peer' = [peer EXCEPT ![g] = q] /\ q.image = peer[g].image
    BY <1>4, PeerTyped DEF Connect, PeerRecord
  <2> QED  BY <2>1, OneImageKept
<1>5. ASSUME NEW g \in Handler, Drop(g)
      PROVE  peer'[h].image \in {peer[h].image, NoFrame}
  <2> DEFINE q == [peer[g] EXCEPT !.dying = TRUE]
  <2>1. peer' = [peer EXCEPT ![g] = q] /\ q.image = peer[g].image
    BY <1>5, PeerTyped DEF Drop, PeerRecord
  <2> QED  BY <2>1, OneImageKept
<1>6. ASSUME NEW g \in Handler, SendComplete(g)
      PROVE  peer'[h].image \in {peer[h].image, NoFrame}
  <2> DEFINE q == [SentAll(peer[g]) EXCEPT !.blocked = FALSE]
  <2>1. peer' = [peer EXCEPT ![g] = q]
    BY <1>6 DEF SendComplete
  <2>2. q.image = peer[g].image
    BY PeerTyped DEF SentAll, PeerRecord
  <2> QED  BY <2>1, <2>2, OneImageKept
<1>7. ASSUME NEW g \in Handler, PostEnd(g)
      PROVE  peer'[h].image \in {peer[h].image, NoFrame}
  BY <1>7, PeerTyped, SendsKeepImage, OneImageKept DEF PostEnd
<1>8. ASSUME NEW g \in Handler, GetEnd(g)
      PROVE  peer'[h].image \in {peer[h].image, NoFrame}
  <2>1. \/ \E q \in Responds(peer[g]) : peer' = [peer EXCEPT ![g] = q]
        \/ \E state : peer' = [peer EXCEPT ![g].state = state, ![g].timer = TRUE]
    BY <1>8 DEF GetEnd
  <2>2. ASSUME NEW state, peer' = [peer EXCEPT ![g].state = state, ![g].timer = TRUE]
        PROVE  peer'[h].image \in {peer[h].image, NoFrame}
    <3> DEFINE q == [peer[g] EXCEPT !.state = state, !.timer = TRUE]
    <3>1. peer' = [peer EXCEPT ![g] = q] /\ q.image = peer[g].image
      BY <2>2 DEF ServerKept, PeersKept, PeerRecord
    <3> QED  BY <3>1, OneImageKept
  <2> QED  BY <2>1, <2>2, PeerTyped, SendsKeepImage, OneImageKept, ZenonT(40)
<1>9. ASSUME NEW g \in Handler, NEW p, NEW target, Select(g, p, target), p.image = peer[g].image,
             p \in PeerRecord
      PROVE  peer'[h].image \in {peer[h].image, NoFrame}
  <2>1. peer' = [peer EXCEPT ![g] = Selected(p, target)]
    BY <1>9 DEF Select
  <2>2. Selected(p, target).image \in {p.image, NoFrame}
    BY <1>9 DEF Selected, PeerRecord
  <2> QED  BY <1>9, <2>1, <2>2, OneImageKept
<1>10. ASSUME NEW g \in Handler, NEW request \in Requests, GetLine(g, request)
       PROVE  peer'[h].image \in {peer[h].image, NoFrame}
  <2> DEFINE p == [peer[g] EXCEPT !.state = "got_get", !.config = request]
  <2>1. Select(g, p, request.target)
    BY <1>10 DEF GetLine
  <2>2. p \in PeerRecord /\ p.image = peer[g].image
    BY PeerTyped DEF PeerRecord, States
  <2> HIDE DEF p
  <2> QED  BY <1>9, <2>1, <2>2
<1>11. ASSUME NEW g \in Handler, NEW target \in Targets, PostLine(g, target)
       PROVE  peer'[h].image \in {peer[h].image, NoFrame}
  <2> DEFINE p == [peer[g] EXCEPT !.state = "got_post"]
  <2>1. Select(g, p, target)
    BY <1>11 DEF PostLine
  <2>2. p \in PeerRecord /\ p.image = peer[g].image
    BY PeerTyped DEF PeerRecord, States
  <2> HIDE DEF p
  <2> QED  BY <1>9, <2>1, <2>2
<1>12. Channel \/ UNCHANGED vars => UNCHANGED peer
  BY DEF Channel, vars
<1> QED  BY <1>1, <1>2, <1>3, <1>4, <1>5, <1>6, <1>7, <1>8, <1>10, <1>11, <1>12
         DEF Next, Client

(* What the channel's image, or its being sent again, does for the peers. *)
LEMMA InputDelivers ==
  ASSUME ServerKept, Input \/ Resent
  PROVE  UNCHANGED peer \/ (published # 0 /\ \E one \in {NoHandler, m_resend_to} :
                              /\ one \in Handler \union {NoHandler}
                              /\ peer' = Delivered(one))
<1>1. CASE Input
  <2>1. published # 0 /\ peer' = Delivered(NoHandler)
    BY <1>1, InputFacts DEF Input
  <2> QED  BY <2>1
<1>2. CASE Resent
  <2>1. CASE CanResend
    <3>1. published # 0 /\ m_resend_to \in Handler \union {NoHandler}
      BY <2>1 DEF CanResend, ServerKept, ChannelKept, FlagsKept
    <3>2. peer' = Delivered(m_resend_to)
      BY <1>2, <2>1 DEF Resent
    <3> QED  BY <3>1, <3>2
  <2>2. CASE ~CanResend
    BY <1>2, <2>2 DEF Resent
  <2> QED  BY <2>1, <2>2
<1> QED  BY <1>1, <1>2

(* Whoever else wants which types, and whatever images those who left had: *)
(* a peer that serves a request is given the type that it asked for        *)
(* (gvimageinput.cpp, gvhttpserverpeer.cpp).                               *)
THEOREM TypesRight == Spec => Converted
<1>1. ASSUME ServerKept, [Next]_vars, NEW h \in Handler,
             peer'[h].image \notin {NoFrame, peer[h].image}
      PROVE  peer'[h].image.type = peer[h].config.type
  <2>1. Input \/ Resent
    BY <1>1, ImagesAreDelivered
  <2>2. ~UNCHANGED peer
    BY <1>1
  <2>3. PICK one \in Handler \union {NoHandler} : peer' = Delivered(one)
    BY <1>1, <2>1, <2>2, InputDelivers
  <2>4. published # 0
    BY <1>1, <2>1, <2>2, InputDelivers
  <2> QED  BY <1>1, <2>3, <2>4, DeliveredRight
<1>2. ServerKept /\ [Next]_vars =>
        [\A h \in Handler : peer'[h].image \notin {NoFrame, peer[h].image} =>
           peer'[h].image.type = peer[h].config.type]_vars
  BY <1>1
<1> QED  BY <1>2, ServerAlways, PTL DEF Spec, Converted

(* A peer that serves a request is given the newest image, as long as      *)
(* nobody has left since the last one, and whenever it is sent again for   *)
(* the peer (gvimageinput.cpp).                                            *)
THEOREM NewestGiven == Spec => Newest
<1> DEFINE live == \A i \in DOMAIN m_tasks : m_tasks[i].handler # NoHandler
<1>1. ASSUME ServerKept, [Next]_vars, m_fd = "open", received' # received, live,
             NEW h \in Handler, Serves(h)
      PROVE  peer'[h].image.n = received'
  <2>1. Input
    <3>1. ~Start
      BY <1>1 DEF Start, channelVars
    <3>2. \A g \in Handler : \A p, target : Select(g, p, target) => UNCHANGED received
      BY <1>1, <3>1 DEF Select, channelVars
    <3>3. Next
      BY <1>1 DEF vars, inputVars, channelVars
    <3>4. ~Channel /\ ~Resent
      BY <1>1 DEF Channel, Publish, PublisherGoes, PublisherComes, LoseChannel, Reopen,
         Resent, ResendNow, channelVars
    <3>5. \A g \in Handler : ~Client(g)
      BY <1>1, <3>2 DEF Client, Connect, PostEnd, GetEnd, SendComplete, Drop, GetLine, PostLine,
         inputVars, channelVars
    <3>6. \A g \in Handler : ~DataTimeout(g) /\ ~Delete(g)
      BY <1>1 DEF DataTimeout, Delete, inputVars, channelVars
    <3> QED  BY <3>3, <3>4, <3>5, <3>6 DEF Next
  <2>2. peer' = Delivered(NoHandler) /\ published # 0 /\ received' = published
    BY <1>1, <2>1, InputFacts DEF Input, Receive
  <2>3. HasTask(h) /\ peer[h].state \notin {"init", "idle"}
    <3>1. peer[h].source = TRUE
      BY <1>1, PeerTyped DEF Serves, PeerRecord
    <3> QED  BY <1>1, <3>1 DEF ServerKept, SourcesRight, Serves
  <2> QED  BY <1>1, <2>2, <2>3, DeliveredRight
<1>2. ASSUME ServerKept, [Next]_vars, m_resend_to # NoHandler, m_resend_to' = NoHandler,
             Serves(m_resend_to)
      PROVE  peer'[m_resend_to].image.n = published
  <2> DEFINE one == m_resend_to
  <2>1. one \in Handler /\ ~UNCHANGED resendVars
    BY <1>2 DEF ServerKept, ChannelKept, resendVars
  <2>2. Resent /\ CanResend
    <3>1. Next
      BY <1>2, <2>1 DEF vars, inputVars
    <3>2. ~Channel /\ ~Input
      BY <2>1 DEF Channel, Publish, PublisherGoes, PublisherComes, LoseChannel, Reopen, Input,
         Receive
    <3>3. \A g \in Handler : g # NoHandler
      BY InputAssumption
    <3>4. \A g \in Handler : ~Client(g)
      BY <1>2, <2>1, <3>3 DEF Client, Connect, PostEnd, GetEnd, SendComplete, Drop, GetLine,
         PostLine, Select, Resend, inputVars
    <3>5. \A g \in Handler : ~DataTimeout(g) /\ ~Delete(g)
      BY <2>1 DEF DataTimeout, Delete, inputVars
    <3>6. Resent
      BY <3>1, <3>2, <3>4, <3>5 DEF Next
    <3> QED  BY <1>2, <3>6 DEF Resent, ResendNow
  <2>3. peer' = Delivered(one) /\ published # 0
    BY <1>2, <2>2 DEF Resent, CanResend, ServerKept, ChannelKept, FlagsKept
  <2>4. HasTask(one) /\ peer[one].state \notin {"init", "idle"}
    <3>1. peer[one].source = TRUE
      BY <1>2, <2>1, PeerTyped DEF Serves, PeerRecord
    <3> QED  BY <1>2, <2>1, <3>1 DEF ServerKept, SourcesRight, Serves
  <2> HIDE DEF one
  <2>5. peer'[one].image.n = published
    BY <1>2, <2>1, <2>3, <2>4, DeliveredRight
  <2> QED  BY <2>5 DEF one
<1>3. ServerKept /\ [Next]_vars =>
        [/\ m_fd = "open" /\ received' # received
              /\ (\A i \in DOMAIN m_tasks : m_tasks[i].handler # NoHandler) =>
                \A h \in Handler : Serves(h) => peer'[h].image.n = received'
         /\ m_resend_to # NoHandler /\ m_resend_to' = NoHandler =>
              (Serves(m_resend_to) => peer'[m_resend_to].image.n = published)]_vars
  BY <1>1, <1>2
<1> QED  BY <1>3, ServerAlways, PTL DEF Spec, Newest
=============================================================================
