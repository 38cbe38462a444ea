--------------------------- MODULE EventLoopProofs ---------------------------
(* The event loop waits for no longer than the soonest timer, is never     *)
(* given a closed descriptor, and implements the registry, for any number  *)
(* of lists, descriptors, handlers and timers.                             *)
EXTENDS EventLoop, SubsequenceProofs, TLAPS

-----------------------------------------------------------------------------
(* Timers *)

There(l, x) == \E i \in 1 .. Len(l) : l[i] = x

IsSoonest(r, l, time) ==
  /\ r = NoTimer => \A x \in Timer : ~(There(l, x) /\ time[x] # 0)
  /\ r # NoTimer =>
       /\ There(l, r) /\ time[r] # 0
       /\ \A x \in Timer : There(l, x) /\ time[x] # 0 => time[r] <= time[x]

TimersKept ==
  /\ TimerTyped /\ Start <= now
  /\ m_soonest # NoTimer => There(m_list, m_soonest)
  /\ at = 0 => IsSoonest(m_soonest, m_list, m_time)

LEMMA FoundSoonest ==
  ASSUME NEW l \in Seq(Timer \union {NoTimer}), NEW time \in [Timer -> Nat]
  PROVE  /\ FindSoonest(l, time) \in Timer \union {NoTimer}
         /\ IsSoonest(FindSoonest(l, time), l, time)
<1> DEFINE R == {i \in 1 .. Len(l) : l[i] # NoTimer /\ time[l[i]] # 0}
           First(i) == \A j \in R : \/ time[l[i]] < time[l[j]]
                                    \/ time[l[i]] = time[l[j]] /\ i <= j
<1>1. Len(l) \in Nat /\ \A i \in 1 .. Len(l) : l[i] \in Timer \union {NoTimer}
  OBVIOUS
<1>2. \A i \in R : i \in Nat /\ l[i] \in Timer /\ time[l[i]] \in Nat
  BY <1>1
<1>3. FindSoonest(l, time) = IF R = {} THEN NoTimer
                             ELSE l[CHOOSE i \in R : First(i)]
  BY DEF FindSoonest
<1>4. \A x \in Timer : There(l, x) /\ time[x] # 0 => \E i \in R : l[i] = x
  BY TimerAssumption DEF There
<1>5. CASE R = {}
  <2>1. FindSoonest(l, time) = NoTimer
    BY <1>3, <1>5
  <2> QED  BY <1>4, <1>5, <2>1 DEF IsSoonest
<1>6. CASE R # {}
  <2>1. PICK a \in R : \A j \in R : time[l[a]] <= time[l[j]]
    <3> DEFINE T == {time[l[i]] : i \in R}
    <3>1. T \subseteq Nat /\ T # {}
      BY <1>2, <1>6
    <3>2. PICK m \in T : \A n \in T : m <= n
      BY <3>1, NatMinimum
    <3> QED  BY <3>2
  <2>2. PICK k \in R : /\ time[l[k]] = time[l[a]]
                       /\ \A j \in R : time[l[j]] = time[l[a]] => k <= j
    <3> DEFINE T == {i \in R : time[l[i]] = time[l[a]]}
    <3>1. T \subseteq Nat /\ T # {}
      BY <1>2, <2>1
    <3>2. PICK m \in T : \A n \in T : m <= n
      BY <3>1, NatMinimum
    <3> QED  BY <3>2
  <2>3. First(k)
    <3> SUFFICES ASSUME NEW j \in R
                 PROVE  time[l[k]] < time[l[j]] \/ (time[l[k]] = time[l[j]] /\ k <= j)
      OBVIOUS
    <3>1. time[l[k]] <= time[l[j]] /\ time[l[k]] \in Nat /\ time[l[j]] \in Nat
      BY <1>2, <2>1, <2>2
    <3>2. time[l[j]] = time[l[k]] => k <= j
      BY <2>2
    <3> QED  BY <3>1, <3>2
  <2> DEFINE c == CHOOSE i \in R : First(i)
  <2>4. c \in R /\ First(c)
    BY <2>3
  <2>5. FindSoonest(l, time) = l[c]
    BY <1>3, <1>6
  <2>6. l[c] \in Timer /\ l[c] # NoTimer /\ There(l, l[c]) /\ time[l[c]] # 0
    BY <1>2, <2>4 DEF There
  <2>7. \A j \in R : time[l[c]] <= time[l[j]]
    <3> SUFFICES ASSUME NEW j \in R PROVE time[l[c]] <= time[l[j]]
      OBVIOUS
    <3>1. time[l[c]] < time[l[j]] \/ time[l[c]] = time[l[j]]
      BY <2>4
    <3>2. time[l[c]] \in Nat /\ time[l[j]] \in Nat
      BY <1>2, <2>4
    <3> DEFINE tc == time[l[c]]
               tj == time[l[j]]
    <3> HIDE DEF tc, tj
    <3>3. tc < tj \/ tc = tj
      BY <3>1 DEF tc, tj
    <3>4. tc \in Nat /\ tj \in Nat
      BY <3>2 DEF tc, tj
    <3>5. tc <= tj
      BY <3>3, <3>4
    <3> QED  BY <3>5 DEF tc, tj
  <2>8. IsSoonest(l[c], l, time)
    BY <1>4, <2>6, <2>7 DEF IsSoonest
  <2> QED  BY <2>5, <2>6, <2>8
<1> QED  BY <1>5, <1>6

LEMMA CreateKept ==
  ASSUME TimersKept, NEW x \in Timer, Create(x)
  PROVE  TimersKept'
<1>1. /\ m_list \in Seq(Timer \union {NoTimer}) /\ m_list' = Append(m_list, x)
      /\ m_time' = [m_time EXCEPT ![x] = 0] /\ m_time \in [Timer -> Nat]
      /\ ~There(m_list, x) /\ UNCHANGED <<now, m_soonest, at, passNow>>
  BY DEF Create, TimersKept, TimerTyped, Exists, There
<1>2. /\ m_list' \in Seq(Timer \union {NoTimer}) /\ Len(m_list) \in Nat
      /\ Len(m_list') = Len(m_list) + 1 /\ m_list'[Len(m_list) + 1] = x
      /\ \A i \in 1 .. Len(m_list) : m_list'[i] = m_list[i]
  BY <1>1
<1>3. m_time' \in [Timer -> Nat] /\ m_time'[x] = 0
      /\ \A y \in Timer : y # x => m_time'[y] = m_time[y]
  BY <1>1
<1>4. \A y : There(m_list', y) <=> There(m_list, y) \/ y = x
  <2> SUFFICES ASSUME NEW y
               PROVE  There(m_list', y) <=> There(m_list, y) \/ y = x
    OBVIOUS
  <2>1. ASSUME There(m_list, y) PROVE There(m_list', y)
    BY <1>2, <2>1 DEF There
  <2>2. There(m_list', x)
    BY <1>2 DEF There
  <2>3. ASSUME There(m_list', y), y # x PROVE There(m_list, y)
    BY <1>2, <2>3 DEF There
  <2> QED  BY <2>1, <2>2, <2>3
<1>5. m_soonest # x
  BY <1>1, TimerAssumption DEF TimersKept
<1>6. m_soonest \in Timer \union {NoTimer}
  BY DEF TimersKept, TimerTyped
<1>7. at = 0 => IsSoonest(m_soonest, m_list', m_time')
  <2> SUFFICES ASSUME at = 0 PROVE IsSoonest(m_soonest, m_list', m_time')
    OBVIOUS
  <2>1. IsSoonest(m_soonest, m_list, m_time)
    BY DEF TimersKept
  <2> QED  BY <1>3, <1>4, <1>5, <1>6, <2>1 DEF IsSoonest
<1> QED  BY <1>1, <1>2, <1>3, <1>4, <1>7 DEF TimersKept, TimerTyped

LEMMA DestroyKept ==
  ASSUME TimersKept, NEW x \in Timer, Destroy(x)
  PROVE  TimersKept'
<1>1. /\ m_list \in Seq(Timer \union {NoTimer}) /\ m_time \in [Timer -> Nat]
      /\ m_list' = [i \in DOMAIN m_list |-> IF m_list[i] = x THEN NoTimer ELSE m_list[i]]
      /\ m_soonest' = IF m_soonest = x THEN FindSoonest(m_list', m_time) ELSE m_soonest
      /\ UNCHANGED <<now, m_time, at, passNow>>
      /\ m_soonest \in Timer \union {NoTimer}
  BY DEF Destroy, TimersKept, TimerTyped
<1>2. /\ m_list' \in Seq(Timer \union {NoTimer}) /\ Len(m_list') = Len(m_list)
      /\ \A i \in 1 .. Len(m_list) :
           m_list'[i] = IF m_list[i] = x THEN NoTimer ELSE m_list[i]
  BY <1>1
<1>3. \A y \in Timer : There(m_list', y) <=> There(m_list, y) /\ y # x
  BY <1>2, TimerAssumption DEF There
<1>4. CASE m_soonest = x
  <2>1. m_soonest' = FindSoonest(m_list', m_time)
    BY <1>1, <1>4
  <2>2. m_soonest' \in Timer \union {NoTimer} /\ IsSoonest(m_soonest', m_list', m_time')
    BY <1>1, <1>2, <2>1, FoundSoonest
  <2>3. m_soonest' # NoTimer => There(m_list', m_soonest')
    BY <2>2 DEF IsSoonest
  <2> QED  BY <1>1, <1>2, <2>2, <2>3 DEF TimersKept, TimerTyped
<1>5. CASE m_soonest # x
  <2>1. m_soonest' = m_soonest
    BY <1>1, <1>5
  <2>2. m_soonest # NoTimer => There(m_list', m_soonest)
    BY <1>1, <1>3, <1>5 DEF TimersKept
  <2>3. at = 0 => IsSoonest(m_soonest, m_list', m_time)
    BY <1>1, <1>3, <1>5 DEF TimersKept, IsSoonest
  <2> QED  BY <1>1, <1>2, <2>1, <2>2, <2>3 DEF TimersKept, TimerTyped
<1> QED  BY <1>4, <1>5

(* Starting or stopping a timer, when update() does what Soonest() says. *)
LEMMA UpdateKept ==
  ASSUME TimersKept, NEW x \in Timer, There(m_list, x), NEW t \in Nat,
         t = 0 => m_time[x] # 0,
         m_time' = [m_time EXCEPT ![x] = t], m_soonest' = Soonest(x, m_time'),
         UNCHANGED <<now, m_list, at, passNow>>
  PROVE  TimersKept'
<1>1. /\ m_list \in Seq(Timer \union {NoTimer}) /\ m_time \in [Timer -> Nat]
      /\ m_soonest \in Timer \union {NoTimer} /\ x # NoTimer
  BY TimerAssumption DEF TimersKept, TimerTyped
<1>2. m_time' \in [Timer -> Nat] /\ m_time'[x] = t
      /\ \A y \in Timer : y # x => m_time'[y] = m_time[y]
  BY <1>1
<1>3. \A y \in Timer : m_time[y] \in Nat /\ m_time'[y] \in Nat
  BY <1>1, <1>2
<1>4. m_soonest' \in {m_soonest, x, FindSoonest(m_list, m_time')}
  BY DEF Soonest
<1>5. /\ FindSoonest(m_list, m_time') \in Timer \union {NoTimer}
      /\ IsSoonest(FindSoonest(m_list, m_time'), m_list, m_time')
  BY <1>1, <1>2, FoundSoonest
<1>6. m_soonest' \in Timer \union {NoTimer}
  BY <1>1, <1>4, <1>5
<1>7. m_soonest' # NoTimer => There(m_list, m_soonest')
  BY <1>4, <1>5 DEF TimersKept, IsSoonest
<1>8. ASSUME at = 0 PROVE IsSoonest(m_soonest', m_list, m_time')
  <2>0. IsSoonest(m_soonest, m_list, m_time)
    BY <1>8 DEF TimersKept
  <2>1. CASE t = 0 /\ m_soonest # x
    <3>1. m_soonest' = m_soonest
      BY <1>2, <2>1 DEF Soonest
    <3>2. m_soonest # NoTimer
      BY <2>0, <2>1 DEF IsSoonest
    <3>3. m_time'[m_soonest] = m_time[m_soonest]
      BY <1>1, <1>2, <2>1, <3>2
    <3> QED  BY <1>2, <2>0, <2>1, <3>1, <3>2, <3>3 DEF IsSoonest
  <2>2. CASE t # 0 /\ m_soonest # NoTimer /\ t > m_time'[m_soonest]
    <3>1. m_soonest' = m_soonest
      BY <1>2, <2>2 DEF Soonest
    <3>2. m_soonest # x /\ m_soonest \in Timer
      BY <1>1, <1>2, <2>2
    <3>3. m_time'[m_soonest] = m_time[m_soonest]
      BY <1>2, <3>2
    <3>4. m_time'[m_soonest] <= m_time'[x]
      BY <1>2, <1>3, <2>2, <3>2
    <3>5. \A y \in Timer : There(m_list, y) /\ m_time'[y] # 0 =>
                             m_time'[m_soonest] <= m_time'[y]
      BY <1>2, <2>0, <2>2, <3>3, <3>4 DEF IsSoonest
    <3> QED  BY <2>0, <2>2, <3>1, <3>3, <3>5 DEF IsSoonest
  <2>3. CASE /\ ~(t = 0 /\ m_soonest # x)
             /\ ~(t # 0 /\ m_soonest # NoTimer /\ t > m_time'[m_soonest])
             /\ t = 1
    <3>1. m_soonest' = x
      BY <1>2, <2>3 DEF Soonest
    <3>2. \A y \in Timer : m_time'[y] # 0 => 1 <= m_time'[y]
      BY <1>3
    <3>3. m_time'[x] = 1 /\ There(m_list, x)
      BY <1>2, <2>3
    <3>4. IsSoonest(x, m_list, m_time')
      BY <1>1, <3>2, <3>3 DEF IsSoonest
    <3> QED  BY <3>1, <3>4
  <2>4. CASE /\ ~(t = 0 /\ m_soonest # x)
             /\ ~(t # 0 /\ m_soonest # NoTimer /\ t > m_time'[m_soonest])
             /\ t # 1
    <3>1. m_soonest' = FindSoonest(m_list, m_time')
      BY <1>2, <2>4 DEF Soonest
    <3> QED  BY <1>5, <3>1
  <2> QED  BY <2>1, <2>2, <2>3, <2>4
<1>9. now' \in Nat /\ at' \in Nat /\ passNow' \in Nat /\ m_list' = m_list /\ Start <= now'
  BY DEF TimersKept, TimerTyped
<1> QED  BY <1>1, <1>2, <1>6, <1>7, <1>8, <1>9 DEF TimersKept, TimerTyped

LEMMA StartTimerKept ==
  ASSUME TimersKept, NEW x \in Timer, NEW n \in Nat, StartTimer(x, n)
  PROVE  TimersKept'
<1> DEFINE t == IF n = 0 THEN 1 ELSE now + n
<1>1. t \in Nat /\ t # 0
  BY DEF TimersKept, TimerTyped, Start
<1>2. There(m_list, x) /\ m_time' = [m_time EXCEPT ![x] = t]
      /\ m_soonest' = Soonest(x, m_time') /\ UNCHANGED <<now, m_list, at, passNow>>
  BY DEF StartTimer, Exists, There
<1> HIDE DEF t
<1> QED  BY <1>1, <1>2, UpdateKept

LEMMA CancelTimerKept ==
  ASSUME TimersKept, NEW x \in Timer, CancelTimer(x)
  PROVE  TimersKept'
<1>1. There(m_list, x) /\ m_time' = [m_time EXCEPT ![x] = 0] /\ m_time[x] # 0
      /\ m_soonest' = Soonest(x, m_time') /\ UNCHANGED <<now, m_list, at, passNow>>
  BY DEF CancelTimer, Exists, There, Active
<1> QED  BY <1>1, UpdateKept

LEMMA StartPassKept ==
  ASSUME TimersKept, StartPass
  PROVE  TimersKept' /\ at' = 1
BY DEF TimersKept, TimerTyped, StartPass

LEMMA PassTimeTyped ==
  ASSUME TimersKept, ReadClock
  PROVE  passNow' \in Nat
BY DEF TimersKept, TimerTyped, ReadClock, PassTime

LEMMA FireKept ==
  ASSUME TimersKept, at # 0, Fire
  PROVE  TimersKept' /\ at' # 0
<1>1. m_time' = [m_time EXCEPT ![m_list[at]] = 0] /\ UNCHANGED <<now, m_list, m_soonest, at>>
      /\ passNow' \in Nat
  BY PassTimeTyped DEF Fire
<1>2. m_time' \in [Timer -> Nat]
  BY <1>1 DEF TimersKept, TimerTyped
<1> QED  BY <1>1, <1>2 DEF TimersKept, TimerTyped

LEMMA PassKept ==
  ASSUME TimersKept, at # 0, Pass \/ Fired
  PROVE  TimersKept' /\ at' # 0
<1>1. at' = at + 1 /\ UNCHANGED <<now, m_list, m_time, m_soonest>> /\ passNow' \in Nat
  BY PassTimeTyped DEF Pass, Fired, TimersKept, TimerTyped
<1>2. at' \in Nat /\ at' # 0
  BY <1>1 DEF TimersKept, TimerTyped
<1> QED  BY <1>1, <1>2 DEF TimersKept, TimerTyped

LEMMA EndPassKept ==
  ASSUME TimersKept, EndPass
  PROVE  TimersKept' /\ at' = 0
<1> DEFINE P == {i \in DOMAIN m_list : m_list[i] # NoTimer}
<1>1. /\ m_list' = AtPlaces(m_list, P) /\ m_soonest' = FindSoonest(m_list', m_time)
      /\ at' = 0 /\ passNow' = 0 /\ UNCHANGED <<now, m_time>>
      /\ m_list \in Seq(Timer \union {NoTimer}) /\ m_time \in [Timer -> Nat]
  BY DEF EndPass, TimersKept, TimerTyped
<1>2. m_list' \in Seq(Timer \union {NoTimer})
  <2>1. P \subseteq DOMAIN m_list
    OBVIOUS
  <2> QED  BY <1>1, <2>1, LeftAtPlaces
<1>3. m_soonest' \in Timer \union {NoTimer} /\ IsSoonest(m_soonest', m_list', m_time')
  BY <1>1, <1>2, FoundSoonest
<1>4. m_soonest' # NoTimer => There(m_list', m_soonest')
  BY <1>3 DEF IsSoonest
<1> QED  BY <1>1, <1>2, <1>3, <1>4 DEF TimersKept, TimerTyped

-----------------------------------------------------------------------------
(* Lists and sets *)

HandlerOrNone == Handler \union {NoHandler}

ListsTyped ==
  /\ list \in [Kind -> [Fd -> HandlerOrNone]]
  /\ pending \in [Kind -> [Fd -> HandlerOrNone]]
  /\ inner \in [Kind -> SUBSET Fd] /\ outer \in [Kind -> SUBSET Fd]
  /\ own \in [Handler -> Fd \union {NoFd}]

PlacesTyped ==
  /\ pc \in LoopPcs /\ kind \in 1 .. Len(Kinds) /\ pos \in 0 .. Fds
  /\ cur \in HandlerOrNone /\ until \in Nat /\ calls \in 0 .. MaxCalls

FlagsTyped ==
  valid \in [Kind -> BOOLEAN] /\ atOnce \in BOOLEAN /\ quit \in BOOLEAN

(* Handlers are registered for the descriptors that they have, which are   *)
(* theirs alone; additions wait only while their list is locked.           *)
OwnersRight ==
  /\ \A k \in Kind, fd \in Fd :
       /\ list[k][fd] # NoHandler => own[list[k][fd]] = fd
       /\ pending[k][fd] # NoHandler => own[pending[k][fd]] = fd
       /\ ~Locked(k) => pending[k][fd] = NoHandler
  /\ \A g, h \in Handler : own[g] = own[h] /\ own[g] # NoFd => g = h

(* A set that is valid is that of the list, what select() has found is     *)
(* looked at before the set is made anew, and the loop is in the timers    *)
(* when they have a place.                                                 *)
ValidRight ==
  \A k \in Kind : valid[k] =>
    \A fd \in Fd : /\ fd \in inner[k] <=> list[k][fd] # NoHandler
                   /\ pending[k][fd] = NoHandler

FoundRight ==
  \A k \in Kind : /\ outer[k] \subseteq inner[k]
                  /\ pc \in {"outside", "top", "select"} => outer[k] = {}

PlacesRight ==
  /\ pc = "onevent" => pos \in Fd
  /\ at = 0 <=> pc \notin {"timers", "ontimer"}

LoopKept ==
  /\ ListsTyped /\ PlacesTyped /\ FlagsTyped /\ TimersKept
  /\ OwnersRight /\ ValidRight /\ FoundRight /\ PlacesRight /\ SelectNeverFails

LEMMA KindsFacts ==
  /\ Len(Kinds) \in Nat /\ 1 <= Len(Kinds) /\ DOMAIN Kinds = 1 .. Len(Kinds)
  /\ \A i \in 1 .. Len(Kinds) : Kinds[i] \in Kind
  /\ \A i, j \in 1 .. Len(Kinds) : Kinds[i] = Kinds[j] => i = j
<1>1. Kinds \in Seq(Range(Kinds)) /\ Kinds # <<>>
  BY LoopAssumption
<1>2. Len(Kinds) \in Nat /\ 1 <= Len(Kinds) /\ DOMAIN Kinds = 1 .. Len(Kinds)
  <2> DEFINE S == Range(Kinds)
  <2> HIDE DEF S
  <2>1. Kinds \in Seq(S) /\ Kinds # <<>>
    BY <1>1 DEF S
  <2> QED  BY <2>1
<1>3. \A i, j \in DOMAIN Kinds : Kinds[i] = Kinds[j] => i = j
  BY LoopAssumption
<1> QED  BY <1>2, <1>3 DEF Kind

LEMMA FdFacts ==
  /\ Fds \in Nat \ {0} /\ NoFd \notin Fd /\ NoHandler \notin Handler
  /\ \A fd \in Fd : fd \in 0 .. Fds /\ fd + 1 \in 0 .. Fds
BY LoopAssumption DEF Fd, NoFd

LEMMA DroppedAt ==
  ASSUME ListsTyped, NEW ks, NEW fd \in Fd, Dropped(ks, fd)
  PROVE  /\ list' \in [Kind -> [Fd -> HandlerOrNone]]
         /\ pending' \in [Kind -> [Fd -> HandlerOrNone]]
         /\ \A k \in Kind, f \in Fd :
              /\ list'[k][f] = IF k \in ks /\ f = fd THEN NoHandler ELSE list[k][f]
              /\ pending'[k][f] = IF k \in ks /\ f = fd THEN NoHandler ELSE pending[k][f]
BY DEF Dropped, ListsTyped, HandlerOrNone

LEMMA EntryChanged ==
  ASSUME NEW l \in [Kind -> [Fd -> HandlerOrNone]], NEW k \in Kind, NEW fd \in Fd,
         NEW h \in Handler
  PROVE  LET m == [l EXCEPT ![k][fd] = h]
         IN  /\ m \in [Kind -> [Fd -> HandlerOrNone]]
             /\ \A j \in Kind, f \in Fd :
                  m[j][f] = IF j = k /\ f = fd THEN h ELSE l[j][f]
<1>1. [l[k] EXCEPT ![fd] = h] \in [Fd -> HandlerOrNone]
  BY DEF HandlerOrNone
<1> QED  BY <1>1

LEMMA AddedAt ==
  ASSUME ListsTyped, NEW k \in Kind, NEW fd \in Fd, NEW h \in Handler, Added(k, fd, h)
  PROVE  /\ list' \in [Kind -> [Fd -> HandlerOrNone]]
         /\ pending' \in [Kind -> [Fd -> HandlerOrNone]]
         /\ \A j \in Kind, f \in Fd :
              /\ list'[j][f] = IF ~Locked(k) /\ j = k /\ f = fd THEN h ELSE list[j][f]
              /\ pending'[j][f] = IF Locked(k) /\ j = k /\ f = fd THEN h ELSE pending[j][f]
<1>1. CASE Locked(k)
  <2>1. pending' = [pending EXCEPT ![k][fd] = h] /\ list' = list
    BY <1>1 DEF Added
  <2> QED  BY <1>1, <2>1, EntryChanged DEF ListsTyped
<1>2. CASE ~Locked(k)
  <2>1. list' = [list EXCEPT ![k][fd] = h] /\ pending' = pending
    BY <1>2 DEF Added
  <2> QED  BY <1>2, <2>1, EntryChanged DEF ListsTyped
<1> QED  BY <1>1, <1>2

LEMMA CommittedAt ==
  ASSUME ListsTyped, NEW k \in Kind, Committed(k)
  PROVE  /\ list' \in [Kind -> [Fd -> HandlerOrNone]]
         /\ pending' \in [Kind -> [Fd -> HandlerOrNone]]
         /\ \A j \in Kind, f \in Fd :
              /\ list'[j][f] = IF j = k /\ pending[j][f] # NoHandler THEN pending[j][f]
                               ELSE list[j][f]
              /\ pending'[j][f] = IF j = k THEN NoHandler ELSE pending[j][f]
<1> DEFINE both == [fd \in Fd |-> IF pending[k][fd] # NoHandler THEN pending[k][fd]
                                  ELSE list[k][fd]]
<1>1. both \in [Fd -> HandlerOrNone] /\ Empty \in [Fd -> HandlerOrNone]
  BY DEF ListsTyped, Empty, HandlerOrNone
<1>2. list' = [list EXCEPT ![k] = both] /\ pending' = [pending EXCEPT ![k] = Empty]
  BY DEF Committed
<1> QED  BY <1>1, <1>2 DEF ListsTyped, Empty

-----------------------------------------------------------------------------
(* The calls of the program *)

LEMMA CallFacts ==
  ASSUME LoopKept, Count
  PROVE  /\ calls' \in 0 .. MaxCalls
         /\ pc \in {"outside", "ontimer", "onevent"}
BY LoopAssumption DEF LoopKept, PlacesTyped, Count, InProgram

LEMMA OpenKept ==
  ASSUME LoopKept, NEW h \in Handler, Open(h)
  PROVE  LoopKept'
<1> USE DEF LoopKept
<1>1. PICK fd \in Fd : /\ \A g \in Handler : own[g] # fd
                       /\ own' = [own EXCEPT ![h] = fd]
  BY DEF Open
<1>2. own[h] = NoFd /\ UNCHANGED <<timerVars, lists, sets, loop>> /\ Count
  BY DEF Open
<1>3. own' \in [Handler -> Fd \union {NoFd}] /\ own'[h] = fd
      /\ \A g \in Handler : g # h => own'[g] = own[g]
  BY <1>1 DEF ListsTyped
<1>4. ListsTyped'
  BY <1>2, <1>3 DEF ListsTyped, lists, sets
<1>5. PlacesTyped' /\ FlagsTyped'
  BY <1>2, CallFacts DEF PlacesTyped, FlagsTyped, lists, loop
<1>6. OwnersRight'
  <2>1. \A k \in Kind, f \in Fd :
          /\ list[k][f] \in HandlerOrNone /\ pending[k][f] \in HandlerOrNone
    BY DEF ListsTyped
  <2>2. \A k \in Kind, f \in Fd :
          /\ list[k][f] # NoHandler => own'[list[k][f]] = f
          /\ pending[k][f] # NoHandler => own'[pending[k][f]] = f
    BY <1>2, <1>3, <2>1, FdFacts DEF OwnersRight, HandlerOrNone
  <2>3. \A k \in Kind : Locked(k)' <=> Locked(k)
    BY <1>2 DEF Locked, loop
  <2>4. \A g, i \in Handler : own'[g] = own'[i] /\ own'[g] # NoFd => g = i
    BY <1>1, <1>3 DEF OwnersRight
  <2> QED  BY <1>2, <2>2, <2>3, <2>4 DEF OwnersRight, lists
<1>7. ValidRight' /\ FoundRight' /\ PlacesRight'
  BY <1>2 DEF ValidRight, FoundRight, PlacesRight, lists, sets, loop, timerVars
<1>8. SelectNeverFails'
  BY <1>2, CallFacts DEF SelectNeverFails, loop
<1>9. TimersKept'
  BY <1>2 DEF TimersKept, TimerTyped, timerVars
<1> QED  BY <1>4, <1>5, <1>6, <1>7, <1>8, <1>9

LEMMA AddHandlerKept ==
  ASSUME LoopKept, NEW k \in Kind, NEW h \in Handler, AddHandler(k, h)
  PROVE  LoopKept'
<1> USE DEF LoopKept
<1>1. /\ own[h] # NoFd /\ Added(k, own[h], h) /\ Count
      /\ UNCHANGED <<timerVars, sets, loop, own>>
  BY DEF AddHandler
<1>2. own[h] \in Fd
  BY <1>1 DEF ListsTyped
<1>3. /\ list' \in [Kind -> [Fd -> HandlerOrNone]]
      /\ pending' \in [Kind -> [Fd -> HandlerOrNone]]
      /\ \A j \in Kind, f \in Fd :
           /\ list'[j][f] = IF ~Locked(k) /\ j = k /\ f = own[h] THEN h ELSE list[j][f]
           /\ pending'[j][f] = IF Locked(k) /\ j = k /\ f = own[h] THEN h
                               ELSE pending[j][f]
  BY <1>1, <1>2, AddedAt
<1>4. valid' = [valid EXCEPT ![k] = FALSE]
  BY <1>1 DEF Added
<1>5. ListsTyped' /\ PlacesTyped'
  BY <1>1, <1>3, CallFacts DEF ListsTyped, PlacesTyped, sets, loop
<1>6. FlagsTyped'
  BY <1>1, <1>4 DEF FlagsTyped, loop
<1>7. OwnersRight'
  <2>1. \A j \in Kind : Locked(j)' <=> Locked(j)
    BY <1>1 DEF Locked, loop
  <2> QED  BY <1>1, <1>2, <1>3, <2>1 DEF OwnersRight
<1>8. ValidRight'
  <2>1. \A j \in Kind : valid'[j] => j # k /\ valid[j]
    BY <1>4 DEF FlagsTyped
  <2> QED  BY <1>1, <1>3, <2>1 DEF ValidRight, sets
<1>9. FoundRight' /\ PlacesRight'
  BY <1>1 DEF FoundRight, PlacesRight, sets, loop, timerVars
<1>10. SelectNeverFails'
  BY <1>1, CallFacts DEF SelectNeverFails, loop
<1>11. TimersKept'
  BY <1>1 DEF TimersKept, TimerTyped, timerVars
<1> QED  BY <1>5, <1>6, <1>7, <1>8, <1>9, <1>10, <1>11

(* Of dropHandler() for some lists, and of close() for all of them, where  *)
(* the handler's descriptor goes as well.                                  *)
LEMMA DroppedKept ==
  ASSUME LoopKept, NEW ks, NEW h \in Handler, own[h] # NoFd, Dropped(ks, own[h]),
         Count, UNCHANGED <<timerVars, sets, loop>>,
         \/ own' = own
         \/ ks = Kind /\ own' = [own EXCEPT ![h] = NoFd]
  PROVE  LoopKept'
<1> USE DEF LoopKept
<1>1. own[h] \in Fd
  BY DEF ListsTyped
<1>2. /\ list' \in [Kind -> [Fd -> HandlerOrNone]]
      /\ pending' \in [Kind -> [Fd -> HandlerOrNone]]
      /\ \A j \in Kind, f \in Fd :
           /\ list'[j][f] = IF j \in ks /\ f = own[h] THEN NoHandler ELSE list[j][f]
           /\ pending'[j][f] = IF j \in ks /\ f = own[h] THEN NoHandler
                               ELSE pending[j][f]
  BY <1>1, DroppedAt
<1>3. valid' = [j \in Kind |-> valid[j] /\ j \notin ks]
  BY DEF Dropped
<1>4. own' \in [Handler -> Fd \union {NoFd}]
  BY DEF ListsTyped
<1>5. ListsTyped' /\ PlacesTyped'
  BY <1>2, <1>4, CallFacts DEF ListsTyped, PlacesTyped, sets, loop
<1>6. FlagsTyped'
  BY <1>3 DEF FlagsTyped, loop
<1>7. OwnersRight'
  <2>1. \A j \in Kind : Locked(j)' <=> Locked(j)
    BY DEF Locked, loop
  <2>2. \A j \in Kind, f \in Fd :
          list[j][f] \in HandlerOrNone /\ pending[j][f] \in HandlerOrNone
    BY DEF ListsTyped
  <2>3. CASE own' = own
    BY <1>2, <2>1, <2>3 DEF OwnersRight
  <2>4. CASE ks = Kind /\ own' = [own EXCEPT ![h] = NoFd]
    <3>1. own'[h] = NoFd /\ \A g \in Handler : g # h => own'[g] = own[g]
      BY <2>4 DEF ListsTyped
    <3>2. \A j \in Kind, f \in Fd :
            /\ list'[j][f] # NoHandler => list'[j][f] = list[j][f] /\ f # own[h]
            /\ pending'[j][f] # NoHandler => pending'[j][f] = pending[j][f] /\ f # own[h]
      BY <1>2, <2>4
    <3>3. \A j \in Kind, f \in Fd :
            /\ list'[j][f] # NoHandler => own'[list'[j][f]] = f
            /\ pending'[j][f] # NoHandler => own'[pending'[j][f]] = f
            /\ ~Locked(j)' => pending'[j][f] = NoHandler
      BY <2>1, <2>2, <3>1, <3>2 DEF OwnersRight, HandlerOrNone
    <3>4. \A g, i \in Handler : own'[g] = own'[i] /\ own'[g] # NoFd => g = i
      BY <3>1 DEF OwnersRight
    <3> QED  BY <3>3, <3>4 DEF OwnersRight
  <2> QED  BY <2>3, <2>4
<1>8. ValidRight'
  <2>1. \A j \in Kind : valid'[j] => j \notin ks /\ valid[j]
    BY <1>3 DEF FlagsTyped
  <2> QED  BY <1>2, <2>1 DEF ValidRight, sets
<1>9. FoundRight' /\ PlacesRight'
  BY DEF FoundRight, PlacesRight, sets, loop, timerVars
<1>10. SelectNeverFails'
  BY CallFacts DEF SelectNeverFails, loop
<1>11. TimersKept'
  BY DEF TimersKept, TimerTyped, timerVars
<1> QED  BY <1>5, <1>6, <1>7, <1>8, <1>9, <1>10, <1>11

(* Nothing but timers and flags has changed. *)
LEMMA ListsSame ==
  ASSUME LoopKept, UNCHANGED <<lists, sets, own, pc, kind>>
  PROVE  ListsTyped' /\ OwnersRight' /\ ValidRight' /\ FoundRight' /\ SelectNeverFails'
<1>1. ListsTyped'
  BY DEF LoopKept, ListsTyped, lists, sets
<1>2. OwnersRight'
  BY DEF LoopKept, OwnersRight, Locked, lists
<1>3. ValidRight' /\ FoundRight'
  BY DEF LoopKept, ValidRight, FoundRight, lists, sets
<1>4. SelectNeverFails'
  BY DEF LoopKept, SelectNeverFails, AllOpen, sets
<1> QED  BY <1>1, <1>2, <1>3, <1>4

LEMMA TimerCallKept ==
  ASSUME LoopKept, TimerCall
  PROVE  LoopKept'
<1> USE DEF LoopKept
<1>1. PICK x \in Timer :
        \/ Create(x) \/ Destroy(x) \/ CancelTimer(x)
        \/ \E n \in Intervals : StartTimer(x, n)
  BY DEF TimerCall
<1>2. TimersKept'
  BY <1>1, CreateKept, DestroyKept, CancelTimerKept, StartTimerKept, LoopAssumption
<1>3. Count /\ UNCHANGED <<lists, sets, loop, own>> /\ at' = at
  BY <1>1 DEF TimerCall, Create, Destroy, CancelTimer, StartTimer
<1>4. ListsTyped' /\ OwnersRight' /\ ValidRight' /\ FoundRight' /\ SelectNeverFails'
  BY <1>3, ListsSame DEF loop
<1>5. PlacesTyped' /\ FlagsTyped' /\ PlacesRight'
  BY <1>3, CallFacts DEF PlacesTyped, FlagsTyped, PlacesRight, loop, lists
<1> QED  BY <1>2, <1>4, <1>5

LEMMA QuitKept ==
  ASSUME LoopKept, Quit
  PROVE  LoopKept'
<1> USE DEF LoopKept
<1>1. Count /\ UNCHANGED <<timerVars, lists, sets, pc, kind, pos, cur, until, atOnce, own>>
      /\ quit' = TRUE
  BY DEF Quit
<1>2. ListsTyped' /\ OwnersRight' /\ ValidRight' /\ FoundRight' /\ SelectNeverFails'
  BY <1>1, ListsSame
<1>3. PlacesTyped' /\ PlacesRight'
  BY <1>1, CallFacts DEF PlacesTyped, PlacesRight, timerVars
<1>4. FlagsTyped'
  BY <1>1 DEF FlagsTyped, lists
<1>5. TimersKept'
  BY <1>1 DEF TimersKept, TimerTyped, timerVars
<1> QED  BY <1>2, <1>3, <1>4, <1>5

LEMMA ProgramCallKept ==
  ASSUME LoopKept, ProgramCall
  PROVE  LoopKept'
<1>1. ASSUME NEW h \in Handler, Close(h) PROVE LoopKept'
  BY <1>1, DroppedKept DEF Close
<1>2. ASSUME NEW h \in Handler, NEW k \in Kind, DropHandler(k, h) PROVE LoopKept'
  BY <1>2, DroppedKept DEF DropHandler
<1> QED  BY <1>1, <1>2, OpenKept, AddHandlerKept, TimerCallKept, QuitKept DEF ProgramCall

-----------------------------------------------------------------------------
(* The steps of the loop *)

LEMMA KindTyped ==
  ASSUME LoopKept
  PROVE  kind \in 1 .. Len(Kinds) /\ Kinds[kind] \in Kind
BY KindsFacts DEF LoopKept, PlacesTyped

(* Steps that leave the registered handlers alone, and unlock no list.     *)
LEMMA OwnersSame ==
  ASSUME LoopKept, UNCHANGED <<list, pending, own>>,
         pc \in {"pass", "onevent"} => pc' \in {"pass", "onevent"} /\ kind' = kind
  PROVE  OwnersRight'
<1>1. \A k \in Kind : Locked(k) => Locked(k)'
  BY DEF Locked
<1> QED  BY <1>1 DEF LoopKept, OwnersRight

LEMMA TimersSame ==
  ASSUME TimersKept, UNCHANGED <<m_list, m_time, m_soonest, at, passNow>>,
         now' \in Nat, now <= now'
  PROVE  TimersKept'
<1>1. Start <= now'
  BY DEF TimersKept, TimerTyped, Start
<1> QED  BY <1>1 DEF TimersKept, TimerTyped

LEMMA TimersUnchanged ==
  ASSUME TimersKept, UNCHANGED timerVars
  PROVE  TimersKept'
BY DEF TimersKept, TimerTyped, timerVars

LEMMA RunKept ==
  ASSUME LoopKept, Run
  PROVE  LoopKept'
<1> USE DEF LoopKept
<1>1. pc = "outside" /\ pc' = "top"
      /\ UNCHANGED <<timerVars, lists, sets, kind, pos, cur, until, atOnce, quit, own, calls>>
  BY DEF Run
<1>2. ListsTyped' /\ PlacesTyped' /\ FlagsTyped'
  BY <1>1 DEF ListsTyped, PlacesTyped, FlagsTyped, lists, sets, LoopPcs
<1>3. TimersKept'
  BY <1>1, TimersUnchanged
<1>4. OwnersRight'
  BY <1>1, OwnersSame DEF lists
<1>5. ValidRight' /\ FoundRight' /\ PlacesRight' /\ SelectNeverFails'
  BY <1>1 DEF ValidRight, FoundRight, PlacesRight, SelectNeverFails, lists, sets, timerVars
<1> QED  BY <1>2, <1>3, <1>4, <1>5

LEMMA PrepareKept ==
  ASSUME LoopKept, Prepare
  PROVE  /\ LoopKept'
         /\ \A k \in Kind : inner'[k] = {fd \in Fd : list[k][fd] # NoHandler}
         /\ \A k \in Kind, fd \in Fd : pending[k][fd] = NoHandler
<1> USE DEF LoopKept
<1>1. /\ pc = "top" /\ pc' = "select"
      /\ inner' = [k \in Kind |-> IF valid[k] THEN inner[k]
                                  ELSE {fd \in Fd : list[k][fd] # NoHandler}]
      /\ valid' = [k \in Kind |-> TRUE]
      /\ until' = IF Interval = -1 THEN 0 ELSE now + Interval
      /\ atOnce' = (Interval = 0)
      /\ UNCHANGED <<timerVars, list, pending, outer, kind, pos, cur, quit, own, calls>>
  BY DEF Prepare
<1>2. \A k \in Kind, fd \in Fd : pending[k][fd] = NoHandler
  BY <1>1 DEF OwnersRight, Locked
<1>3. \A k \in Kind : inner'[k] = {fd \in Fd : list[k][fd] # NoHandler}
  <2> SUFFICES ASSUME NEW k \in Kind
               PROVE  inner'[k] = {fd \in Fd : list[k][fd] # NoHandler}
    OBVIOUS
  <2>1. CASE valid[k]
    <3>1. inner'[k] = inner[k]
      BY <1>1, <2>1
    <3>2. inner[k] \subseteq Fd /\ \A fd \in Fd : fd \in inner[k] <=> list[k][fd] # NoHandler
      BY <2>1 DEF ListsTyped, ValidRight
    <3> QED  BY <3>1, <3>2
  <2>2. CASE ~valid[k]
    BY <1>1, <2>2
  <2> QED  BY <2>1, <2>2
<1>4. until' \in Nat
  <2>1. now \in Nat /\ m_soonest \in Timer \union {NoTimer} /\ m_time \in [Timer -> Nat]
    BY DEF TimersKept, TimerTyped
  <2>2. m_soonest # NoTimer => m_time[m_soonest] \in Nat
    BY <2>1
  <2>3. Interval = -1 \/ Interval \in Nat
    BY <2>1, <2>2 DEF Interval
  <2> QED  BY <1>1, <2>1, <2>3
<1>5. ListsTyped'
  <2>1. inner' \in [Kind -> SUBSET Fd]
    BY <1>1 DEF ListsTyped
  <2> QED  BY <1>1, <2>1 DEF ListsTyped
<1>6. PlacesTyped'
  BY <1>1, <1>4 DEF PlacesTyped, LoopPcs
<1>7. FlagsTyped'
  <2>1. atOnce' \in BOOLEAN
    BY <1>1
  <2>2. valid' \in [Kind -> BOOLEAN] /\ quit' \in BOOLEAN
    BY <1>1 DEF FlagsTyped
  <2> QED  BY <2>1, <2>2 DEF FlagsTyped
<1>8. TimersKept'
  BY <1>1, TimersUnchanged
<1>9. OwnersRight'
  BY <1>1, OwnersSame
<1>10. ValidRight'
  BY <1>1, <1>2, <1>3 DEF ValidRight
<1>11. FoundRight' /\ PlacesRight'
  BY <1>1 DEF FoundRight, PlacesRight, timerVars
<1>12. SelectNeverFails'
  <2>1. \A k \in Kind : \A fd \in inner'[k] : \E h \in Handler : own'[h] = fd
    <3> SUFFICES ASSUME NEW k \in Kind, NEW fd \in inner'[k]
                 PROVE  \E h \in Handler : own'[h] = fd
      OBVIOUS
    <3>1. fd \in Fd /\ list[k][fd] # NoHandler
      BY <1>3
    <3>2. list[k][fd] \in Handler
      BY <3>1 DEF ListsTyped, HandlerOrNone
    <3>3. own[list[k][fd]] = fd
      BY <3>1 DEF OwnersRight
    <3> QED  BY <1>1, <3>2, <3>3
  <2> QED  BY <2>1 DEF SelectNeverFails, AllOpen
<1> QED  BY <1>2, <1>3, <1>5, <1>6, <1>7, <1>8, <1>9, <1>10, <1>11, <1>12

(* select() returns: with some descriptors, or when it times out. *)
LEMMA SelectReturnsKept ==
  ASSUME LoopKept, pc = "select", outer' \in [Kind -> SUBSET Fd],
         \A k \in Kind : outer'[k] \subseteq inner[k],
         \/ pc' = "timers" /\ StartPass
         \/ pc' = "pass" /\ UNCHANGED timerVars,
         kind' = 1, pos' = 0, until' = 0, atOnce' = FALSE,
         UNCHANGED <<lists, inner, cur, quit, own, calls>>
  PROVE  LoopKept'
<1> USE DEF LoopKept
<1>1. ListsTyped'
  BY DEF ListsTyped, lists
<1>2. PlacesTyped'
  BY KindsFacts, FdFacts DEF PlacesTyped, LoopPcs
<1>3. FlagsTyped'
  BY DEF FlagsTyped, lists
<1>4. TimersKept' /\ (at' = 0 <=> pc' \notin {"timers", "ontimer"})
  <2>1. CASE pc' = "timers" /\ StartPass
    BY <2>1, StartPassKept
  <2>2. CASE pc' = "pass" /\ UNCHANGED timerVars
    BY <2>2, TimersUnchanged DEF PlacesRight, timerVars
  <2> QED  BY <2>1, <2>2
<1>5. OwnersRight'
  BY OwnersSame DEF lists
<1>6. ValidRight'
  BY DEF ValidRight, lists
<1>7. FoundRight' /\ PlacesRight' /\ SelectNeverFails'
  BY <1>4 DEF FoundRight, PlacesRight, SelectNeverFails
<1> QED  BY <1>1, <1>2, <1>3, <1>4, <1>5, <1>6, <1>7

LEMMA SelectKept ==
  ASSUME LoopKept, SelectReady \/ SelectTimeout
  PROVE  LoopKept'
<1>1. CASE SelectReady
  <2>1. \/ pc' = "timers" /\ StartPass
        \/ pc' = "pass" /\ UNCHANGED timerVars
    BY <1>1 DEF SelectReady
  <2> QED  BY <1>1, <2>1, SelectReturnsKept DEF SelectReady
<1>2. CASE SelectTimeout
  <2>1. outer' \in [Kind -> SUBSET Fd] /\ \A k \in Kind : outer'[k] \subseteq inner[k]
    BY <1>2 DEF SelectTimeout
  <2> QED  BY <1>2, <2>1, SelectReturnsKept DEF SelectTimeout
<1> QED  BY <1>1, <1>2

LEMMA TimersStepKept ==
  ASSUME LoopKept, TimerPass \/ TimerReturns
  PROVE  LoopKept'
<1> USE DEF LoopKept
<1>1. /\ pc \in {"timers", "ontimer"} /\ pc' \in {"timers", "ontimer", "pass"}
      /\ UNCHANGED <<lists, sets, kind, pos, cur, until, atOnce, quit, own, calls>>
  BY DEF TimerPass, TimerReturns
<1>2. at # 0
  BY <1>1 DEF PlacesRight
<1>3. TimersKept' /\ (at' = 0 <=> pc' = "pass")
  <2>1. CASE Fire /\ pc' = "ontimer"
    BY <1>2, <2>1, FireKept
  <2>2. CASE (Pass \/ Fired) /\ pc' = "timers"
    BY <1>2, <2>2, PassKept
  <2>3. CASE EndPass /\ pc' = "pass"
    BY <2>3, EndPassKept
  <2> QED  BY <2>1, <2>2, <2>3 DEF TimerPass, TimerReturns
<1>4. ListsTyped' /\ PlacesTyped' /\ FlagsTyped'
  BY <1>1 DEF ListsTyped, PlacesTyped, FlagsTyped, lists, sets, LoopPcs
<1>5. OwnersRight'
  BY <1>1, OwnersSame DEF lists
<1>6. ValidRight' /\ FoundRight' /\ SelectNeverFails'
  BY <1>1 DEF ValidRight, FoundRight, SelectNeverFails, lists, sets
<1>7. PlacesRight'
  BY <1>1, <1>3 DEF PlacesRight
<1> QED  BY <1>3, <1>4, <1>5, <1>6, <1>7

LEMMA RaiseEventKept ==
  ASSUME LoopKept, RaiseEvent
  PROVE  /\ LoopKept'
         /\ pos' \in outer[Kinds[kind]] /\ pos' \in Fd
         /\ list[Kinds[kind]][pos'] # NoHandler /\ cur' = list[Kinds[kind]][pos']
<1> USE DEF LoopKept
<1>1. /\ pc = "pass" /\ pc' = "onevent"
      /\ UNCHANGED <<timerVars, lists, sets, kind, until, atOnce, quit, own, calls>>
  BY DEF RaiseEvent
<1>2. PICK fd \in ReadyFrom(Kinds[kind], pos) : pos' = fd /\ cur' = list[Kinds[kind]][fd]
  BY DEF RaiseEvent
<1>3. fd \in outer[Kinds[kind]] /\ fd \in Fd /\ list[Kinds[kind]][fd] # NoHandler
  BY <1>2, KindTyped DEF ReadyFrom, ListsTyped
<1>4. cur' \in HandlerOrNone
  BY <1>2, <1>3, KindTyped DEF ListsTyped
<1>5. pos' \in 0 .. Fds
  BY <1>2, <1>3, FdFacts
<1>6. ListsTyped' /\ FlagsTyped'
  BY <1>1 DEF ListsTyped, FlagsTyped, lists, sets
<1>7. PlacesTyped'
  BY <1>1, <1>4, <1>5 DEF PlacesTyped, LoopPcs
<1>8. TimersKept'
  BY <1>1, TimersUnchanged
<1>9. OwnersRight'
  BY <1>1, OwnersSame DEF lists
<1>10. ValidRight' /\ FoundRight' /\ SelectNeverFails'
  BY <1>1 DEF ValidRight, FoundRight, SelectNeverFails, lists, sets
<1>11. PlacesRight'
  BY <1>1, <1>2, <1>3 DEF PlacesRight, timerVars
<1> QED  BY <1>2, <1>3, <1>6, <1>7, <1>8, <1>9, <1>10, <1>11

LEMMA EventReturnsKept ==
  ASSUME LoopKept, EventReturns
  PROVE  LoopKept'
<1> USE DEF LoopKept
<1>1. /\ pc = "onevent" /\ pc' = "pass" /\ pos' = pos + 1 /\ cur' = NoHandler
      /\ UNCHANGED <<timerVars, lists, sets, kind, until, atOnce, quit, own, calls>>
  BY DEF EventReturns
<1>2. pos' \in 0 .. Fds
  BY <1>1, FdFacts DEF PlacesRight
<1>3. ListsTyped' /\ FlagsTyped'
  BY <1>1 DEF ListsTyped, FlagsTyped, lists, sets
<1>4. PlacesTyped'
  BY <1>1, <1>2 DEF PlacesTyped, LoopPcs, HandlerOrNone
<1>5. TimersKept'
  BY <1>1, TimersUnchanged
<1>6. OwnersRight'
  BY <1>1, OwnersSame DEF lists
<1>7. ValidRight' /\ FoundRight' /\ SelectNeverFails' /\ PlacesRight'
  BY <1>1 DEF ValidRight, FoundRight, SelectNeverFails, PlacesRight, lists, sets, timerVars
<1> QED  BY <1>3, <1>4, <1>5, <1>6, <1>7

LEMMA EndRaiseKept ==
  ASSUME LoopKept, EndRaise
  PROVE  LoopKept'
<1> USE DEF LoopKept
<1> DEFINE k == Kinds[kind]
<1>1. /\ pc = "pass" /\ Committed(k) /\ pos' = 0
      /\ \/ kind < Len(Kinds) /\ kind' = kind + 1 /\ pc' = "pass"
         \/ kind' = 1 /\ pc' = "bottom"
      /\ UNCHANGED <<timerVars, valid, sets, cur, until, atOnce, quit, own, calls>>
  BY DEF EndRaise
<1>2. k \in Kind /\ kind \in 1 .. Len(Kinds)
  BY KindTyped
<1>3. /\ list' \in [Kind -> [Fd -> HandlerOrNone]]
      /\ pending' \in [Kind -> [Fd -> HandlerOrNone]]
      /\ \A j \in Kind, f \in Fd :
           /\ list'[j][f] = IF j = k /\ pending[j][f] # NoHandler THEN pending[j][f]
                            ELSE list[j][f]
           /\ pending'[j][f] = IF j = k THEN NoHandler ELSE pending[j][f]
  BY <1>1, <1>2, CommittedAt
<1>4. \A j \in Kind : Locked(j) => j = k
  BY DEF Locked
<1>5. ListsTyped' /\ FlagsTyped'
  BY <1>1, <1>3 DEF ListsTyped, FlagsTyped, sets
<1>6. PlacesTyped'
  <2>1. kind' \in 1 .. Len(Kinds)
    BY <1>1, <1>2, KindsFacts
  <2>2. pos' \in 0 .. Fds
    BY <1>1, FdFacts
  <2> QED  BY <1>1, <2>1, <2>2 DEF PlacesTyped, LoopPcs
<1>7. TimersKept'
  BY <1>1, TimersUnchanged
<1> HIDE DEF k
<1>8. OwnersRight'
  <2>1. \A j \in Kind, f \in Fd :
          /\ list'[j][f] # NoHandler => own[list'[j][f]] = f
          /\ pending'[j][f] # NoHandler => own[pending'[j][f]] = f
    BY <1>3 DEF OwnersRight
  <2>2. \A j \in Kind, f \in Fd : pending'[j][f] = NoHandler
    BY <1>3, <1>4 DEF OwnersRight
  <2> QED  BY <1>1, <2>1, <2>2 DEF OwnersRight
<1>9. ValidRight'
  BY <1>1, <1>3 DEF ValidRight, sets
<1>10. FoundRight' /\ PlacesRight' /\ SelectNeverFails'
  BY <1>1 DEF FoundRight, PlacesRight, SelectNeverFails, sets, timerVars
<1> QED  BY <1>5, <1>6, <1>7, <1>8, <1>9, <1>10

LEMMA BottomKept ==
  ASSUME LoopKept, Bottom
  PROVE  LoopKept'
<1> USE DEF LoopKept
<1>1. /\ pc = "bottom" /\ pc' \in {"outside", "top"} /\ quit' = FALSE
      /\ outer' = [k \in Kind |-> {}]
      /\ UNCHANGED <<timerVars, lists, inner, kind, pos, cur, until, atOnce, own, calls>>
  BY DEF Bottom
<1>2. ListsTyped'
  BY <1>1 DEF ListsTyped, lists
<1>3. PlacesTyped' /\ FlagsTyped'
  BY <1>1 DEF PlacesTyped, FlagsTyped, LoopPcs, lists
<1>4. TimersKept'
  BY <1>1, TimersUnchanged
<1>5. OwnersRight'
  BY <1>1, OwnersSame DEF lists
<1>6. ValidRight' /\ FoundRight' /\ PlacesRight' /\ SelectNeverFails'
  BY <1>1 DEF ValidRight, FoundRight, PlacesRight, SelectNeverFails, lists, timerVars
<1> QED  BY <1>2, <1>3, <1>4, <1>5, <1>6

LEMMA TickKept ==
  ASSUME LoopKept, Tick
  PROVE  LoopKept'
<1> USE DEF LoopKept
<1>1. /\ now' = now + 1
      /\ UNCHANGED <<m_list, m_time, m_soonest, at, passNow, lists, sets, loop, own, calls>>
  BY DEF Tick
<1>2. TimersKept'
  <2>1. now' \in Nat /\ now <= now'
    BY <1>1 DEF TimersKept, TimerTyped
  <2> QED  BY <1>1, <2>1, TimersSame
<1>3. ListsTyped' /\ OwnersRight' /\ ValidRight' /\ FoundRight' /\ SelectNeverFails'
  BY <1>1, ListsSame DEF loop
<1>4. PlacesTyped' /\ FlagsTyped' /\ PlacesRight'
  BY <1>1 DEF PlacesTyped, FlagsTyped, PlacesRight, lists, loop
<1> QED  BY <1>2, <1>3, <1>4

LEMMA LoopStepKept == LoopKept /\ [Next]_vars => LoopKept'
<1> SUFFICES ASSUME LoopKept, [Next]_vars PROVE LoopKept'
  OBVIOUS
<1>1. CASE ProgramCall
  BY <1>1, ProgramCallKept
<1>2. CASE LoopStep
  BY <1>2, RunKept, PrepareKept, SelectKept, TimersStepKept, RaiseEventKept,
     EventReturnsKept, EndRaiseKept, BottomKept DEF LoopStep
<1>3. CASE Tick
  BY <1>3, TickKept
<1>4. CASE UNCHANGED vars
  <2>1. UNCHANGED <<timerVars, lists, sets, loop, own, calls>>
    BY <1>4 DEF vars
  <2>2. TimersKept'
    BY <2>1, TimersUnchanged DEF LoopKept
  <2>3. ListsTyped' /\ OwnersRight' /\ ValidRight' /\ FoundRight' /\ SelectNeverFails'
    BY <2>1, ListsSame DEF loop
  <2>4. PlacesTyped' /\ FlagsTyped' /\ PlacesRight'
    BY <2>1 DEF LoopKept, PlacesTyped, FlagsTyped, PlacesRight, lists, loop, timerVars
  <2> QED  BY <2>2, <2>3, <2>4 DEF LoopKept
<1> QED  BY <1>1, <1>2, <1>3, <1>4 DEF Next

-----------------------------------------------------------------------------
(* The beginning: the descriptors are those up to the number of handlers,  *)
(* and the timers are in the list.                                         *)

LEMMA NumberedFrom0 ==
  ASSUME NEW S, IsFiniteSet(S)
  PROVE  Injection(S, 0 .. Cardinality(S) - 1) # {}
<1> DEFINE n == Cardinality(S)
<1>1. n \in Nat /\ ExistsBijection(1 .. n, S)
  BY FS_CardinalityType
<1> HIDE DEF n
<1>2. PICK f \in Bijection(1 .. n, S) : TRUE
  BY <1>1 DEF ExistsBijection
<1>3. f \in [1 .. n -> S] /\ \A x \in S : \E i \in 1 .. n : f[i] = x
  BY <1>2 DEF Bijection, Surjection
<1> DEFINE at0(x) == CHOOSE i \in 1 .. n : f[i] = x
           g == [x \in S |-> at0(x) - 1]
<1>4. \A x \in S : at0(x) \in 1 .. n /\ f[at0(x)] = x
  BY <1>3
<1> HIDE DEF at0
<1>5. \A x \in S : at0(x) - 1 \in 0 .. n - 1
  BY <1>1, <1>4
<1>6. g \in [S -> 0 .. n - 1]
  BY <1>5
<1>7. \A x, y \in S : g[x] = g[y] => x = y
  <2> SUFFICES ASSUME NEW x \in S, NEW y \in S, g[x] = g[y] PROVE x = y
    OBVIOUS
  <2>1. at0(x) - 1 = at0(y) - 1
    OBVIOUS
  <2>2. at0(x) = at0(y)
    BY <1>1, <1>4, <2>1
  <2> QED  BY <1>4, <2>2
<1>8. g \in Injection(S, 0 .. n - 1)
  BY <1>6, <1>7 DEF Injection, IsInjective
<1> QED  BY <1>8 DEF n

LEMMA LoopStarts == Init => LoopKept
<1> SUFFICES ASSUME Init PROVE LoopKept
  OBVIOUS
<1>1. /\ own \in [Handler -> Fd \union {NoFd}] /\ \A h \in Handler : own[h] \in Fd
      /\ \A g, h \in Handler : own[g] = own[h] => g = h
  <2> DEFINE n == Cardinality(Handler)
  <2>1. own \in Injection(Handler, 0 .. n - 1)
    BY NumberedFrom0, LoopAssumption DEF Init
  <2>2. own \in [Handler -> 0 .. n - 1] /\ \A g, h \in Handler : own[g] = own[h] => g = h
    BY <2>1 DEF Injection, IsInjective
  <2>3. n \in Nat /\ n <= Fds /\ Fds \in Nat
    BY LoopAssumption, FS_CardinalityType
  <2> HIDE DEF n
  <2>4. 0 .. n - 1 \subseteq Fd
    BY <2>3 DEF Fd
  <2> QED  BY <2>2, <2>4
<1>2. \A fd \in Fd : (\E h \in Handler : own[h] = fd) =>
        /\ (CHOOSE h \in Handler : own[h] = fd) \in Handler
        /\ own[CHOOSE h \in Handler : own[h] = fd] = fd
  OBVIOUS
<1>3. list \in [Kind -> [Fd -> HandlerOrNone]]
      /\ \A k \in Kind, fd \in Fd : list[k][fd] # NoHandler => own[list[k][fd]] = fd
  BY <1>2 DEF Init, HandlerOrNone
<1>4. pending \in [Kind -> [Fd -> HandlerOrNone]]
      /\ \A k \in Kind, fd \in Fd : pending[k][fd] = NoHandler
  BY DEF Init, Empty, HandlerOrNone
<1>5. inner \in [Kind -> SUBSET Fd] /\ outer \in [Kind -> SUBSET Fd]
  BY DEF Init
<1>6. ListsTyped
  BY <1>1, <1>3, <1>4, <1>5 DEF ListsTyped
<1>7. PlacesTyped
  <2>1. kind \in 1 .. Len(Kinds) /\ pos \in 0 .. Fds /\ calls \in 0 .. MaxCalls
    BY KindsFacts, LoopAssumption DEF Init
  <2> QED  BY <2>1 DEF Init, PlacesTyped, LoopPcs, HandlerOrNone
<1>8. FlagsTyped
  BY DEF Init, FlagsTyped
<1>9. TimersKept
  <2>1. m_list \in Bijection(1 .. Cardinality(Timer), Timer)
    BY FS_CardinalityType, TimerAssumption DEF Init, ExistsBijection
  <2>2. m_list \in [1 .. Cardinality(Timer) -> Timer]
    BY <2>1 DEF Bijection, Surjection
  <2>3. Cardinality(Timer) \in Nat
    BY FS_CardinalityType, TimerAssumption
  <2>4. m_list \in Seq(Timer \union {NoTimer})
    BY <2>2, <2>3
  <2>5. m_time \in [Timer -> Nat]
    BY DEF Init, Start
  <2>6. m_soonest \in Timer \union {NoTimer} /\ IsSoonest(m_soonest, m_list, m_time)
    BY <2>4, <2>5, FoundSoonest DEF Init
  <2>7. m_soonest # NoTimer => There(m_list, m_soonest)
    BY <2>6 DEF IsSoonest
  <2>8. now \in Nat /\ Start <= now /\ at \in Nat /\ passNow \in Nat
    BY DEF Init, Start
  <2> QED  BY <2>4, <2>5, <2>6, <2>7, <2>8 DEF TimersKept, TimerTyped
<1>10. OwnersRight
  BY <1>1, <1>3, <1>4 DEF OwnersRight
<1>11. ValidRight /\ FoundRight /\ PlacesRight /\ SelectNeverFails
  BY DEF Init, ValidRight, FoundRight, PlacesRight, SelectNeverFails
<1> QED  BY <1>6, <1>7, <1>8, <1>9, <1>10, <1>11 DEF LoopKept

LEMMA LoopAlways == Spec => []LoopKept
BY LoopStarts, LoopStepKept, PTL DEF Spec

LEMMA RegisteredThere ==
  ASSUME LoopKept
  PROVE  HandlersThere
BY DEF LoopKept, OwnersRight, HandlersThere, Registered

(* Whatever the program adds, drops, closes, opens, starts and stops in    *)
(* its callbacks: the loop waits for the soonest timer, select() is never  *)
(* given a closed descriptor, and who is registered is there               *)
(* (geventloop_unix.cpp, geventhandler.cpp, gtimerlist.cpp).               *)
THEOREM LoopCorrect == Spec => []LoopInvariant
<1>1. LoopKept => LoopInvariant
  <2> SUFFICES ASSUME LoopKept PROVE LoopInvariant
    OBVIOUS
  <2>1. TypeOK
    BY DEF LoopKept, ListsTyped, PlacesTyped, FlagsTyped, TimersKept, HandlerOrNone, TypeOK
  <2>2. SoonestRight
    <3>1. \A x : Exists(x) <=> There(m_list, x)
      BY DEF Exists, There
    <3>2. m_soonest \in Timer \union {NoTimer}
      BY DEF LoopKept, TimersKept, TimerTyped
    <3> QED  BY <3>1, <3>2 DEF LoopKept, TimersKept, IsSoonest, SoonestRight, Running, Active
  <2> QED  BY <2>1, <2>2, RegisteredThere DEF LoopKept, LoopInvariant
<1> QED  BY <1>1, LoopAlways, PTL

-----------------------------------------------------------------------------
(* Passes over a list *)

LEMMA PassStep ==
  ASSUME LoopKept, [Next]_vars, NEW k \in Kind, Locked(k), Locked(k)', NEW fd \in Fd
  PROVE  list'[k][fd] \in {list[k][fd], NoHandler}
<1>1. CASE list' = list
  BY <1>1
<1>2. ASSUME NEW j \in Kind, NEW h \in Handler, AddHandler(j, h)
      PROVE  list'[k][fd] = list[k][fd]
  <2>1. own[h] \in Fd /\ Added(j, own[h], h)
    BY <1>2 DEF AddHandler, LoopKept, ListsTyped
  <2> QED  BY <2>1, AddedAt DEF LoopKept
<1>3. ASSUME NEW ks, NEW h \in Handler, own[h] # NoFd, Dropped(ks, own[h])
      PROVE  list'[k][fd] \in {list[k][fd], NoHandler}
  <2>1. own[h] \in Fd
    BY <1>3 DEF LoopKept, ListsTyped
  <2> QED  BY <1>3, <2>1, DroppedAt DEF LoopKept
<1>4. CASE EndRaise
  <2>1. Kinds[kind] = k /\ kind < Len(Kinds) /\ kind' = kind + 1 /\ Kinds[kind'] = k
    BY <1>4 DEF EndRaise, Locked
  <2>2. kind \in 1 .. Len(Kinds) /\ kind' \in 1 .. Len(Kinds)
    BY <2>1, KindTyped, KindsFacts
  <2>3. kind' = kind
    BY <2>1, <2>2, KindsFacts
  <2> QED  BY <2>1, <2>2, <2>3
<1>5. CASE ProgramCall
  <2>1. \/ list' = list
        \/ \E h \in Handler, j \in Kind : AddHandler(j, h)
        \/ \E h \in Handler, ks \in SUBSET Kind : own[h] # NoFd /\ Dropped(ks, own[h])
    <3>1. \A j \in Kind : {j} \in SUBSET Kind
      OBVIOUS
    <3>2. Kind \in SUBSET Kind
      OBVIOUS
    <3> QED  BY <1>5, <3>1, <3>2 DEF ProgramCall, Open, Close, DropHandler, TimerCall, Quit, lists
  <2> QED  BY <1>1, <1>2, <1>3, <2>1
<1>6. CASE LoopStep
  BY <1>1, <1>4, <1>6 DEF LoopStep, Run, Prepare, SelectReady, SelectTimeout, TimerPass,
     TimerReturns, RaiseEvent, EventReturns, Bottom, lists
<1>7. CASE Tick
  BY <1>1, <1>7 DEF Tick, lists
<1>8. CASE UNCHANGED vars
  BY <1>1, <1>8 DEF vars, lists
<1> QED  BY <1>5, <1>6, <1>7, <1>8 DEF Next

(* A handler that is added while a list is gone through is not called in   *)
(* that pass, whichever handlers are dropped in it and however descriptors *)
(* are used again (geventhandler.cpp).                                     *)
THEOREM NewcomersWait == Spec => NoNewcomersInPass
<1>1. LoopKept /\ [Next]_vars =>
        [\A k \in Kind : Locked(k) /\ Locked(k)' =>
           \A fd \in Fd : list'[k][fd] \in {list[k][fd], NoHandler}]_vars
  BY PassStep
<1> QED  BY <1>1, LoopAlways, PTL DEF Spec, NoNewcomersInPass
-----------------------------------------------------------------------------
(* The loop implements the registry *)

Reg == [k \in Kind |-> [fd \in Fd |-> Registered(k, fd)]]

ProgramPcs == {"outside", "ontimer"}

LEMMA Callers ==
  /\ pc \in ProgramPcs => Calling = Registry!Program
  /\ pc = "onevent" => Calling = [who |-> "handler", kind |-> Kinds[kind], fd |-> pos,
                                  handler |-> cur]
  /\ pc \notin ProgramPcs \union {"onevent"} => Calling = Registry!Loop
  /\ pc \in ProgramPcs \union {"onevent"} => Calling # Registry!Loop
BY DEF Calling, ProgramPcs, Registry!Program, Registry!Loop

LEMMA CallerSame ==
  ASSUME \/ UNCHANGED <<pc, kind, pos, cur>>
         \/ pc \in ProgramPcs /\ pc' \in ProgramPcs
         \/ pc \notin ProgramPcs \union {"onevent"} /\ pc' \notin ProgramPcs \union {"onevent"}
  PROVE  Calling' = Calling
BY DEF Calling, ProgramPcs

LEMMA RegTyped ==
  ASSUME ListsTyped
  PROVE  /\ Reg \in [Kind -> [Fd -> HandlerOrNone]]
         /\ \A k \in Kind, fd \in Fd : Reg[k][fd] = Registered(k, fd)
<1>1. \A k \in Kind, fd \in Fd : Registered(k, fd) \in HandlerOrNone
  BY DEF ListsTyped, Registered
<1> QED  BY <1>1 DEF Reg

LEMMA RegSame ==
  ASSUME \A k \in Kind, fd \in Fd : Registered(k, fd)' = Registered(k, fd)
  PROVE  Reg' = Reg
BY DEF Reg

LEMMA AddsInRegistry ==
  ASSUME LoopKept, NEW k \in Kind, NEW h \in Handler, AddHandler(k, h)
  PROVE  Registry!Add(k, own[h], h) /\ own[h] \in Fd
<1> USE DEF LoopKept
<1>1. /\ own[h] \in Fd /\ Added(k, own[h], h) /\ Count
      /\ UNCHANGED <<timerVars, sets, loop, own>>
  BY DEF AddHandler, ListsTyped
<1>2. \A j \in Kind, f \in Fd :
        /\ list'[j][f] = IF ~Locked(k) /\ j = k /\ f = own[h] THEN h ELSE list[j][f]
        /\ pending'[j][f] = IF Locked(k) /\ j = k /\ f = own[h] THEN h ELSE pending[j][f]
  BY <1>1, AddedAt
<1>3. \A j \in Kind, f \in Fd : ~Locked(j) => pending[j][f] = NoHandler
  BY DEF OwnersRight
<1>4. \A j \in Kind, f \in Fd :
        Registered(j, f)' = IF j = k /\ f = own[h] THEN h ELSE Registered(j, f)
  BY <1>2, <1>3, FdFacts DEF Registered
<1>5. Reg' = [Reg EXCEPT ![k][own[h]] = h]
  BY <1>1, <1>4 DEF Reg
<1>6. Calling # Registry!Loop /\ UNCHANGED <<inner, Calling>>
  BY <1>1, CallFacts, Callers, CallerSame DEF ProgramPcs, loop, sets
<1> QED  BY <1>1, <1>5, <1>6 DEF Registry!Add, Reg

LEMMA DropsInRegistry ==
  ASSUME LoopKept, NEW ks, NEW h \in Handler, own[h] # NoFd, Dropped(ks, own[h]),
         Count, UNCHANGED <<sets, loop>>
  PROVE  Registry!Drop(ks, own[h]) /\ own[h] \in Fd
<1> USE DEF LoopKept
<1>1. own[h] \in Fd
  BY DEF ListsTyped
<1>2. \A j \in Kind, f \in Fd :
        /\ list'[j][f] = IF j \in ks /\ f = own[h] THEN NoHandler ELSE list[j][f]
        /\ pending'[j][f] = IF j \in ks /\ f = own[h] THEN NoHandler ELSE pending[j][f]
  BY <1>1, DroppedAt
<1>3. \A j \in Kind, f \in Fd :
        Registered(j, f)' = IF j \in ks /\ f = own[h] THEN NoHandler ELSE Registered(j, f)
  BY <1>2 DEF Registered
<1>4. Reg' = [k \in Kind |-> IF k \in ks THEN [Reg[k] EXCEPT ![own[h]] = NoHandler]
                             ELSE Reg[k]]
  BY <1>1, <1>3 DEF Reg
<1>5. Calling # Registry!Loop /\ UNCHANGED <<inner, Calling>>
  BY CallFacts, Callers, CallerSame DEF ProgramPcs, loop, sets
<1> QED  BY <1>1, <1>4, <1>5 DEF Registry!Drop, Reg

RegistrySame == UNCHANGED <<Reg, inner, Calling>>

LEMMA CallsInRegistry ==
  ASSUME LoopKept, ProgramCall
  PROVE  Registry!RNext \/ RegistrySame
<1>1. ASSUME NEW h \in Handler, Open(h) PROVE RegistrySame
  <2>1. UNCHANGED <<lists, sets, loop>>
    BY <1>1 DEF Open
  <2>2. UNCHANGED Reg
    BY <2>1, RegSame DEF Registered, lists
  <2> QED  BY <2>1, <2>2, CallerSame DEF RegistrySame, sets, loop
<1>2. ASSUME NEW h \in Handler, Close(h) PROVE Registry!RNext
  <2>1. Registry!Drop(Kind, own[h]) /\ own[h] \in Fd
    BY <1>2, DropsInRegistry DEF Close
  <2> QED  BY <2>1 DEF Registry!RNext
<1>3. ASSUME NEW h \in Handler, NEW k \in Kind, DropHandler(k, h) PROVE Registry!RNext
  <2>1. Registry!Drop({k}, own[h]) /\ own[h] \in Fd
    BY <1>3, DropsInRegistry DEF DropHandler
  <2> QED  BY <2>1 DEF Registry!RNext
<1>4. ASSUME NEW h \in Handler, NEW k \in Kind, AddHandler(k, h) PROVE Registry!RNext
  BY <1>4, AddsInRegistry DEF Registry!RNext
<1>5. CASE TimerCall \/ Quit
  <2>1. UNCHANGED <<lists, sets, pc, kind, pos, cur>>
    BY <1>5 DEF TimerCall, Quit, loop
  <2>2. UNCHANGED Reg
    BY <2>1, RegSame DEF Registered, lists
  <2> QED  BY <2>1, <2>2, CallerSame DEF RegistrySame, sets
<1> QED  BY <1>1, <1>2, <1>3, <1>4, <1>5 DEF ProgramCall

(* Steps of the loop between two callbacks, of which the registry knows    *)
(* nothing: a list that is unlocked has the same handlers registered.      *)
LEMMA LoopUnseen ==
  ASSUME LoopKept,
         \/ SelectReady \/ SelectTimeout \/ EndRaise \/ Tick
         \/ TimerPass /\ pc' # "ontimer"
         \/ Bottom /\ pc' # "outside"
  PROVE  RegistrySame
<1> USE DEF LoopKept
<1>1. inner' = inner
  BY DEF SelectReady, SelectTimeout, EndRaise, Tick, TimerPass, Bottom, sets
<1>2. Calling' = Calling
  <2>1. CASE Tick
    BY <2>1, CallerSame DEF Tick, loop
  <2>2. CASE ~Tick
    <3>1. pc \notin ProgramPcs \union {"onevent"} /\ pc' \notin ProgramPcs \union {"onevent"}
      BY <2>2 DEF SelectReady, SelectTimeout, EndRaise, TimerPass, Bottom, ProgramPcs
    <3> QED  BY <3>1, CallerSame
  <2> QED  BY <2>1, <2>2
<1>3. Reg' = Reg
  <2>1. CASE EndRaise
    <3> DEFINE k == Kinds[kind]
    <3>1. \A j \in Kind, f \in Fd :
            /\ list'[j][f] = IF j = k /\ pending[j][f] # NoHandler THEN pending[j][f]
                             ELSE list[j][f]
            /\ pending'[j][f] = IF j = k THEN NoHandler ELSE pending[j][f]
      BY <2>1, KindTyped, CommittedAt DEF EndRaise
    <3> HIDE DEF k
    <3> QED  BY <3>1, RegSame DEF Registered
  <2>2. CASE ~EndRaise
    <3>1. UNCHANGED <<list, pending>>
      BY <2>2 DEF SelectReady, SelectTimeout, Tick, TimerPass, Bottom, lists
    <3> QED  BY <3>1, RegSame DEF Registered
  <2> QED  BY <2>1, <2>2
<1> QED  BY <1>1, <1>2, <1>3 DEF RegistrySame

LEMMA LooksInRegistry ==
  ASSUME LoopKept, Prepare
  PROVE  Registry!Look
<1> USE DEF LoopKept
<1>1. /\ \A k \in Kind : inner'[k] = {fd \in Fd : list[k][fd] # NoHandler}
      /\ \A k \in Kind, fd \in Fd : pending[k][fd] = NoHandler
  BY PrepareKept
<1>2. \A k \in Kind, fd \in Fd : Registered(k, fd) = list[k][fd] /\ Reg[k][fd] = list[k][fd]
  BY <1>1, RegTyped DEF Registered
<1>3. \A k \in Kind : inner'[k] = {fd \in Fd : Reg[k][fd] # NoHandler}
  BY <1>1, <1>2
<1>4. inner' = [k \in Kind |-> {fd \in Fd : Reg[k][fd] # NoHandler}]
  <2>1. inner' = [k \in Kind |-> inner'[k]]
    BY DEF Prepare
  <2> QED  BY <1>3, <2>1
<1>5. UNCHANGED <<list, pending>> /\ pc = "top" /\ pc' = "select"
  BY DEF Prepare
<1>6. Reg' = Reg
  BY <1>5, RegSame DEF Registered
<1>7. Calling = Registry!Loop /\ Calling' = Calling
  BY <1>5, Callers, CallerSame DEF ProgramPcs
<1> QED  BY <1>4, <1>6, <1>7 DEF Registry!Look, Reg

LEMMA CallbacksInRegistry ==
  ASSUME LoopKept, RaiseEvent
  PROVE  Registry!Call
<1> USE DEF LoopKept
<1> DEFINE k == Kinds[kind]
<1>1. /\ pos' \in outer[k] /\ pos' \in Fd /\ list[k][pos'] # NoHandler
      /\ cur' = list[k][pos']
  BY RaiseEventKept
<1>2. k \in Kind /\ kind' = kind /\ pc = "pass" /\ pc' = "onevent"
      /\ UNCHANGED <<lists, sets>>
  BY KindTyped DEF RaiseEvent
<1>3. Reg[k][pos'] = list[k][pos']
  <2>1. Reg[k][pos'] = Registered(k, pos')
    BY <1>1, <1>2, RegTyped
  <2>2. CASE pending[k][pos'] = NoHandler
    BY <2>1, <2>2 DEF Registered
  <2>3. CASE pending[k][pos'] # NoHandler
    <3>1. pending[k][pos'] \in Handler /\ list[k][pos'] \in Handler
      BY <1>1, <1>2, <2>3 DEF ListsTyped, HandlerOrNone
    <3>2. own[pending[k][pos']] = pos' /\ own[list[k][pos']] = pos'
      BY <1>1, <1>2, <2>3 DEF OwnersRight
    <3>3. pending[k][pos'] = list[k][pos']
      BY <1>1, <3>1, <3>2, FdFacts DEF OwnersRight
    <3> QED  BY <2>1, <3>3 DEF Registered
  <2> QED  BY <2>2, <2>3
<1>4. pos' \in inner[k]
  BY <1>1, <1>2 DEF FoundRight
<1>5. Calling = Registry!Loop
  BY <1>2, Callers DEF ProgramPcs
<1>6. Calling' = [who |-> "handler", kind |-> k, fd |-> pos', handler |-> Reg[k][pos']]
  BY <1>1, <1>2, <1>3 DEF Calling
<1>7. Reg' = Reg /\ inner' = inner
  BY <1>2, RegSame DEF Registered, lists, sets
<1> HIDE DEF k
<1>8. \E j \in Kind, fd \in Fd :
        /\ fd \in inner[j] /\ Reg[j][fd] # NoHandler
        /\ Calling' = Registry!HandlerOf(j, fd)
  <2>1. Calling' = Registry!HandlerOf(k, pos')
    BY <1>6 DEF Registry!HandlerOf, Reg
  <2> QED  BY <1>1, <1>2, <1>3, <1>4, <2>1
<1> QED  BY <1>5, <1>7, <1>8 DEF Registry!Call, Reg

LEMMA ReturnsInRegistry ==
  ASSUME Run \/ TimerReturns \/ EventReturns
  PROVE  Registry!Return
<1>1. /\ pc \in ProgramPcs \union {"onevent"} /\ pc' \notin ProgramPcs \union {"onevent"}
      /\ UNCHANGED <<list, pending, inner>>
  BY DEF Run, TimerReturns, EventReturns, ProgramPcs, lists, sets
<1>2. Calling # Registry!Loop
  BY <1>1, Callers
<1>3. Calling' = Registry!Loop
  BY <1>1 DEF Calling, ProgramPcs, Registry!Loop
<1>4. Reg' = Reg
  BY <1>1, RegSame DEF Registered
<1> QED  BY <1>1, <1>2, <1>3, <1>4 DEF Registry!Return, Reg

LEMMA ProgramInRegistry ==
  ASSUME \/ TimerPass /\ pc' = "ontimer"
         \/ Bottom /\ pc' = "outside"
  PROVE  Registry!Call
<1>1. /\ pc \notin ProgramPcs \union {"onevent"} /\ pc' \in ProgramPcs
      /\ UNCHANGED <<list, pending, inner>>
  BY DEF TimerPass, Bottom, ProgramPcs, lists, sets
<1>2. Calling = Registry!Loop
  BY <1>1, Callers
<1>3. Calling' = Registry!Program
  BY <1>1 DEF Calling, ProgramPcs, Registry!Program
<1>4. Reg' = Reg
  BY <1>1, RegSame DEF Registered
<1> QED  BY <1>1, <1>2, <1>3, <1>4 DEF Registry!Call, Reg

LEMMA StepInRegistry ==
  ASSUME LoopKept, [Next]_vars
  PROVE  Registry!RNext \/ RegistrySame
<1>1. CASE ProgramCall
  BY <1>1, CallsInRegistry
<1>2. CASE LoopStep
  <2>1. CASE Prepare
    BY <2>1, LooksInRegistry DEF Registry!RNext
  <2>2. CASE RaiseEvent
    BY <2>2, CallbacksInRegistry DEF Registry!RNext
  <2>3. CASE Run \/ TimerReturns \/ EventReturns
    BY <2>3, ReturnsInRegistry DEF Registry!RNext
  <2>4. CASE \/ TimerPass /\ pc' = "ontimer"
             \/ Bottom /\ pc' = "outside"
    BY <2>4, ProgramInRegistry DEF Registry!RNext
  <2>5. CASE \/ SelectReady \/ SelectTimeout \/ EndRaise
             \/ TimerPass /\ pc' # "ontimer"
             \/ Bottom /\ pc' # "outside"
    BY <2>5, LoopUnseen
  <2> QED  BY <1>2, <2>1, <2>2, <2>3, <2>4, <2>5 DEF LoopStep
<1>3. CASE Tick
  BY <1>3, LoopUnseen
<1>4. CASE UNCHANGED vars
  <2>1. UNCHANGED <<lists, sets, loop>>
    BY <1>4 DEF vars
  <2>2. Reg' = Reg
    BY <2>1, RegSame DEF Registered, lists
  <2> QED  BY <2>1, <2>2, CallerSame DEF RegistrySame, sets, loop
<1> QED  BY <1>1, <1>2, <1>3, <1>4 DEF Next

LEMMA StartsInRegistry == Init => Registry!RInit
<1> SUFFICES ASSUME Init PROVE Registry!RInit
  OBVIOUS
<1>1. Reg \in [Kind -> [Fd -> Handler \union {NoHandler}]]
  BY LoopStarts, RegTyped DEF LoopKept, HandlerOrNone
<1>2. inner = [k \in Kind |-> {}] /\ Calling = Registry!Program
  BY Callers DEF Init, ProgramPcs
<1> QED  BY <1>1, <1>2 DEF Registry!RInit, Reg

(* A handler is called only while it is registered, for a descriptor that  *)
(* select() was asked about, and select() is asked about all that are      *)
(* registered and no others, though registering and dropping wait for the  *)
(* end of a pass and the sets are kept from one turn to the next           *)
(* (geventloop_unix.cpp, geventhandler.cpp).                               *)
THEOREM LoopRefines == Spec => ImplementsRegistry
<1>1. LoopKept /\ [Next]_vars => [Registry!RNext]_<<Reg, inner, Calling>>
  BY StepInRegistry DEF RegistrySame
<1>2. Spec => [][Registry!RNext]_<<Reg, inner, Calling>>
  BY <1>1, LoopAlways, PTL DEF Spec
<1>3. Spec => Registry!RInit
  BY StartsInRegistry DEF Spec
<1>4. Registry!RInit /\ [][Registry!RNext]_<<Reg, inner, Calling>> => Registry!RSpec
  BY DEF Registry!RSpec, Reg
<1> QED  BY <1>2, <1>3, <1>4 DEF ImplementsRegistry
=============================================================================
