---------------------------- MODULE ImageBuffers ----------------------------
(***************************************************************************)
(* Gr::Image (grlib/grimage.cpp), a shared pointer to a buffer, and what   *)
(* Gv::ImageInputSource::sendImageInput() (gvideo/gvimageinput.cpp) does   *)
(* with the pointers.  A buffer is used again when nobody else points to   *)
(* it; the pointers are those of the source, of its tasks and of the       *)
(* handlers, which keep the image that they were given.                    *)
(*                                                                         *)
(* Left out: sizes and types of images, but for raw and jpeg, and          *)
(* conversions that fail.                                                  *)
(***************************************************************************)
EXTENDS Integers, Subsequences

CONSTANTS
  Handler,    \* the image handlers
  NoHandler,  \* the null pointer to a handler
  Null,       \* the null pointer to a buffer
  Pictures,   \* what a camera may see
  Wants,      \* the types that each handler may want
  MaxTasks    \* bound: length of the list of tasks

ASSUME BufferAssumption ==
  /\ NoHandler \notin Handler /\ IsFiniteSet(Handler) /\ MaxTasks \in Nat
  /\ Pictures \intersect {"zero", "crossed"} = {}

VARIABLES
  m_image,   \* the source's image
  m_tasks,   \* a task for each handler
  held,      \* the image that each handler keeps
  given,     \* history: what was to be seen on it when it was given
  data       \* what is in each buffer

bufferVars == <<m_image, m_tasks, held, given, data>>

(* As many as there may be pointers.                                       *)
Buffers  == 1 .. MaxTasks + Cardinality(Handler) + 1
Pointers == Buffers \union {Null}
Contents == Pictures \union {"zero", "crossed"}
Types    == {"raw", "jpeg"}

ASSUME WantsAssumption == Wants \in [Handler -> SUBSET Types] /\ Null \notin Buffers

Tasks == [handler : Handler \union {NoHandler}, conversion : Types, image : Pointers]

BuffersTyped ==
  /\ m_image \in Pointers
  /\ m_tasks \in Seq(Tasks) /\ Len(m_tasks) <= MaxTasks
  /\ held \in [Handler -> Pointers] /\ given \in [Handler -> Contents]
  /\ data \in [Buffers -> Contents]

BuffersInit ==
  /\ m_image = Null /\ m_tasks = <<>>
  /\ held = [h \in Handler |-> Null] /\ given = [h \in Handler |-> "zero"]
  /\ data = [b \in Buffers |-> "zero"]

-----------------------------------------------------------------------------
(* Pointers *)

(* use_count() *)
UseCount(b, tasks) ==
  Cardinality({i \in DOMAIN tasks : tasks[i].image = b})
    + Cardinality({h \in Handler : held[h] = b})
    + (IF m_image = b THEN 1 ELSE 0)

NewBuffer(tasks) ==
  CHOOSE b \in Buffers :
    /\ UseCount(b, tasks) = 0
    /\ \A c \in 1 .. b - 1 : UseCount(c, tasks) > 0

\* Mutant of Recycle: the buffer is used again whoever looks at it.
RecycleAny(p, tasks) == IF p # Null THEN p ELSE NewBuffer(tasks)

(* Image::recycle() *)
Recycle(p, tasks) ==
  IF p # Null /\ UseCount(p, tasks) = 1 THEN p ELSE NewBuffer(tasks)

(* A buffer is freed with the last pointer, and a new one has zeros.       *)
Freed(contents) ==
  [b \in Buffers |->
     IF \/ m_image' = b
        \/ \E i \in DOMAIN m_tasks' : m_tasks'[i].image = b
        \/ \E h \in Handler : held'[h] = b
     THEN contents[b] ELSE "zero"]

(* Image::blank(), which leaves what is in the buffer, old or new; and     *)
(* what is written to it then.                                             *)
Blank ==
  /\ UNCHANGED <<m_tasks, held, given>>
  /\ \E b \in {Recycle(m_image, m_tasks)} : m_image' = b
  /\ data' = Freed(data)

Fill(contents) ==
  /\ UNCHANGED <<m_tasks, held, given>>
  /\ \E b \in {Recycle(m_image, m_tasks)} :
       m_image' = b /\ data' = Freed([data EXCEPT ![b] = contents])

-----------------------------------------------------------------------------
(* Tasks *)

HasTask(h) == \E i \in DOMAIN m_tasks : m_tasks[i].handler = h

(* addImageInputHandler() *)
Add(h, type) ==
  /\ ~HasTask(h) /\ Len(m_tasks) < MaxTasks
  /\ m_tasks' = Append(m_tasks, [handler |-> h, conversion |-> type, image |-> Null])
  /\ UNCHANGED <<m_image, held, given, data>>

(* removeImageInputHandler(): the task and its image stay until the next.  *)
Remove(h) ==
  /\ HasTask(h)
  /\ m_tasks' = [i \in DOMAIN m_tasks |->
                   IF m_tasks[i].handler = h THEN [m_tasks[i] EXCEPT !.handler = NoHandler]
                   ELSE m_tasks[i]]
  /\ UNCHANGED <<m_image, held, given, data>>

(* A handler lets go of its image. *)
Forget(h) ==
  /\ held[h] # Null /\ held' = [held EXCEPT ![h] = Null]
  /\ given' = [given EXCEPT ![h] = "zero"]
  /\ UNCHANGED <<m_image, m_tasks>> /\ data' = Freed(data)

(* The tasks in turn, each with what was done so far: one is copied from   *)
(* the first with the same conversion, whoever that was for; a raw image   *)
(* needs no conversion; and a jpeg goes to the task's buffer, or to a new  *)
(* one.                                                                    *)
FirstLike(i) ==
  CHOOSE j \in 1 .. i :
    /\ m_tasks[j].conversion = m_tasks[i].conversion
    /\ \A k \in 1 .. j - 1 : m_tasks[k].conversion # m_tasks[i].conversion

WithImage(done, i, p) == [done EXCEPT !.tasks[i].image = p]

Convert(done, i) ==
  LET b == Recycle(done.tasks[i].image, done.tasks)
  IN  CASE m_tasks[i].handler = NoHandler -> done
        [] m_tasks[i].handler # NoHandler /\ FirstLike(i) # i ->
             WithImage(done, i, done.tasks[FirstLike(i)].image)
        [] m_tasks[i].handler # NoHandler /\ FirstLike(i) = i
             /\ m_tasks[i].conversion = "raw" -> WithImage(done, i, Null)
        [] OTHER ->
             WithImage([done EXCEPT !.data[b] = done.data[m_image]], i, b)

Converted ==
  LET upTo[i \in 0 .. Len(m_tasks)] ==
        IF i = 0 THEN [tasks |-> m_tasks, data |-> data] ELSE Convert(upTo[i - 1], i)
  IN  upTo[Len(m_tasks)]

(* sendImageInput() to all handlers, who keep what they are given. *)
Send ==
  LET Of(h) == CHOOSE i \in DOMAIN m_tasks : m_tasks[i].handler = h
      Image(tasks, h) == IF tasks[Of(h)].image = Null THEN m_image ELSE tasks[Of(h)].image
  IN  \E done \in {Converted} :
        /\ m_tasks' = AtPlaces(done.tasks, {i \in DOMAIN m_tasks : m_tasks[i].handler # NoHandler})
        /\ held' = [h \in Handler |-> IF HasTask(h) THEN Image(done.tasks, h) ELSE held[h]]
        /\ given' = [h \in Handler |-> IF HasTask(h) THEN done.data[held'[h]] ELSE given[h]]
        /\ UNCHANGED m_image
        /\ data' = Freed(done.data)

=============================================================================
