------------------------------ MODULE EventLoop ------------------------------
(***************************************************************************)
(* GNet::EventLoopImp with its FdSet and EventHandlerList                  *)
(* (gnet/geventloop_unix.cpp, gnet/geventhandler.cpp), and the timers of   *)
(* TimerList: the select() loop that every program runs in.                *)
(*                                                                         *)
(* A program is a set of handlers, each of which may own one descriptor    *)
(* (as GNet::Socket does: its destructor drops the descriptor from all the *)
(* lists and closes it) and of timers.  Before run(), and in each callback *)
(* of a handler or a timer, it may make any of the calls of the interface, *)
(* on any of its handlers and timers, in any order: handlers and timers    *)
(* are destroyed in callbacks, their own among them, and descriptor        *)
(* numbers are used again.                                                 *)
(*                                                                         *)
(* Abstractions: a handler list is a function from descriptors, which it   *)
(* is sorted by; an entry with a null handler is the same as none, since   *)
(* the iterators pass over both.  Exceptions out of callbacks, which end   *)
(* run(), are left out.                                                    *)
(***************************************************************************)
EXTENDS TimerList, Functions

CONSTANTS
  Kinds,      \* the sequence of lists: <<"read", "write", "exception">>
  Fds,        \* number of descriptors
  Handler,    \* the program's handlers
  NoHandler,  \* the null pointer
  Intervals,  \* timer intervals, in ticks
  MaxNow,     \* bound: the last time of day
  MaxCalls    \* bound: number of calls made by the program

ASSUME LoopAssumption ==
  /\ Kinds # <<>> /\ Kinds \in Seq(Range(Kinds))
  /\ \A i, j \in DOMAIN Kinds : Kinds[i] = Kinds[j] => i = j
  /\ NoHandler \notin Handler /\ IsFiniteSet(Handler)
  /\ Fds \in Nat \ {0} /\ Cardinality(Handler) <= Fds
  /\ Intervals \subseteq Nat /\ MaxCalls \in Nat

VARIABLES
  list,     \* m_list of each list
  pending,  \* m_pending_list of each list
  valid,    \* m_valid of each FdSet
  inner,    \* m_set_internal
  outer,    \* m_set_external
  pc,       \* where the loop is
  kind,     \* the list that raiseEvents() goes through
  pos,      \* its place in the list: a descriptor
  cur,      \* the handler that is being called
  until,    \* when select() times out, zero for never
  atOnce,   \* timeout_immediate
  quit,     \* m_quit
  own,      \* the descriptor of each handler
  calls     \* number of calls the program has made

lists == <<list, pending, valid>>
sets  == <<inner, outer>>
loop  == <<pc, kind, pos, cur, until, atOnce, quit>>
vars  == <<timerVars, lists, sets, loop, own, calls>>

Fd   == 0 .. Fds - 1
NoFd == Fds
Kind == {Kinds[i] : i \in DOMAIN Kinds}

Locked(k) == pc \in {"pass", "onevent"} /\ Kinds[kind] = k

Empty == [fd \in Fd |-> NoHandler]

(* The client's calls are made outside of run() and in callbacks. *)
InProgram == pc \in {"outside", "ontimer", "onevent"}

LoopPcs == {"outside", "ontimer", "onevent", "top", "select", "timers", "pass",
            "bottom"}

TypeOK ==
  /\ TimerTyped
  /\ list \in [Kind -> [Fd -> Handler \union {NoHandler}]]
  /\ pending \in [Kind -> [Fd -> Handler \union {NoHandler}]]
  /\ valid \in [Kind -> BOOLEAN]
  /\ inner \in [Kind -> SUBSET Fd] /\ outer \in [Kind -> SUBSET Fd]
  /\ pc \in LoopPcs /\ kind \in 1 .. Len(Kinds) /\ pos \in 0 .. Fds
  /\ cur \in Handler \union {NoHandler}
  /\ until \in Nat /\ atOnce \in BOOLEAN /\ quit \in BOOLEAN
  /\ own \in [Handler -> Fd \union {NoFd}] /\ calls \in 0 .. MaxCalls

(* The program has been set up: its handlers have descriptors, lowest      *)
(* first, and wait to read; its timers are there, stopped or started.      *)
(* Which handler has which descriptor makes no difference.                 *)
Init ==
  /\ own = CHOOSE f \in Injection(Handler, 0 .. Cardinality(Handler) - 1) : TRUE
  /\ list = [k \in Kind |-> [fd \in Fd |->
               IF k = Kinds[1] /\ \E h \in Handler : own[h] = fd
               THEN CHOOSE h \in Handler : own[h] = fd ELSE NoHandler]]
  /\ pending = [k \in Kind |-> Empty]
  /\ valid = [k \in Kind |-> FALSE]
  /\ inner = [k \in Kind |-> {}] /\ outer = [k \in Kind |-> {}]
  /\ pc = "outside" /\ kind = 1 /\ pos = 0 /\ cur = NoHandler /\ until = 0
  /\ atOnce = FALSE /\ quit = FALSE /\ calls = 0
  /\ now = Start /\ at = 0 /\ passNow = 0
  /\ m_list = CHOOSE f \in Bijection(1 .. Cardinality(Timer), Timer) : TRUE
  /\ m_time \in [Timer -> {0, Start + 1}]
  /\ m_soonest = FindSoonest(m_list, m_time)

-----------------------------------------------------------------------------
(* The calls that the program makes *)

Count == InProgram /\ calls < MaxCalls /\ calls' = calls + 1

\* Mutant of Added: a locked list is changed at once.
AddedAtOnce(k, fd, h) ==
  /\ list' = [list EXCEPT ![k][fd] = h]
  /\ valid' = [valid EXCEPT ![k] = FALSE]
  /\ UNCHANGED pending

(* EventHandlerList::add(), and the FdSet is invalidated. *)
Added(k, fd, h) ==
  /\ IF Locked(k)
     THEN pending' = [pending EXCEPT ![k][fd] = h] /\ UNCHANGED list
     ELSE list' = [list EXCEPT ![k][fd] = h] /\ UNCHANGED pending
  /\ valid' = [valid EXCEPT ![k] = FALSE]

\* Mutants of Dropped: the pending list is forgotten; the FdSet is not
\* invalidated.
DroppedFromList(ks, fd) ==
  /\ list' = [k \in Kind |-> IF k \in ks THEN [list[k] EXCEPT ![fd] = NoHandler]
                             ELSE list[k]]
  /\ valid' = [k \in Kind |-> valid[k] /\ k \notin ks]
  /\ UNCHANGED pending

DroppedQuietly(ks, fd) ==
  /\ list' = [k \in Kind |-> IF k \in ks THEN [list[k] EXCEPT ![fd] = NoHandler]
                             ELSE list[k]]
  /\ pending' = [k \in Kind |-> IF k \in ks
                                THEN [pending[k] EXCEPT ![fd] = NoHandler]
                                ELSE pending[k]]
  /\ UNCHANGED valid

(* EventHandlerList::remove(): in a locked list the handler is nulled, in  *)
(* the pending list as well.                                               *)
Dropped(ks, fd) ==
  /\ list' = [k \in Kind |-> IF k \in ks THEN [list[k] EXCEPT ![fd] = NoHandler]
                             ELSE list[k]]
  /\ pending' = [k \in Kind |-> IF k \in ks
                                THEN [pending[k] EXCEPT ![fd] = NoHandler]
                                ELSE pending[k]]
  /\ valid' = [k \in Kind |-> valid[k] /\ k \notin ks]

(* The kernel gives out the lowest descriptor that is free. *)
Open(h) ==
  /\ Count /\ own[h] = NoFd
  /\ \E fd \in Fd :
       /\ \A g \in Handler : own[g] # fd
       /\ \A lower \in 0 .. fd - 1 : \E g \in Handler : own[g] = lower
       /\ own' = [own EXCEPT ![h] = fd]
  /\ UNCHANGED <<timerVars, lists, sets, loop>>

AddHandler(k, h) ==
  /\ Count /\ own[h] # NoFd
  /\ Added(k, own[h], h)
  /\ UNCHANGED <<timerVars, sets, loop, own>>

DropHandler(k, h) ==
  /\ Count /\ own[h] # NoFd
  /\ Dropped({k}, own[h])
  /\ UNCHANGED <<timerVars, sets, loop, own>>

Close(h) ==
  /\ Count /\ own[h] # NoFd
  /\ Dropped(Kind, own[h])
  /\ own' = [own EXCEPT ![h] = NoFd]
  /\ UNCHANGED <<timerVars, sets, loop>>

TimerCall ==
  /\ Count
  /\ \E x \in Timer :
       \/ Create(x) \/ Destroy(x) \/ CancelTimer(x)
       \/ \E n \in Intervals : now + n <= MaxNow /\ StartTimer(x, n)
  /\ UNCHANGED <<lists, sets, loop, own>>

Quit ==
  /\ Count
  /\ quit' = TRUE
  /\ UNCHANGED <<timerVars, lists, sets, pc, kind, pos, cur, until, atOnce, own>>

ProgramCall ==
  \/ \E h \in Handler : Open(h) \/ Close(h)
  \/ \E h \in Handler, k \in Kind : AddHandler(k, h) \/ DropHandler(k, h)
  \/ TimerCall \/ Quit

-----------------------------------------------------------------------------
(* run() and runOnce() *)

Run ==
  /\ pc = "outside"
  /\ pc' = "top"
  /\ UNCHANGED <<timerVars, lists, sets, kind, pos, cur, until, atOnce, quit, own, calls>>

(* The sets are made anew if their lists have changed, and the soonest     *)
(* timer says how long select() may wait.                                  *)
Prepare ==
  /\ pc = "top"
  /\ inner' = [k \in Kind |-> IF valid[k] THEN inner[k]
                              ELSE {fd \in Fd : list[k][fd] # NoHandler}]
  /\ valid' = [k \in Kind |-> TRUE]
  /\ until' = IF Interval = -1 THEN 0 ELSE now + Interval
  /\ atOnce' = (Interval = 0)
  /\ pc' = "select"
  /\ UNCHANGED <<timerVars, list, pending, outer, kind, pos, cur, quit, own, calls>>

(* Or else select() fails with EBADF, which run() throws. *)
AllOpen == \A k \in Kind : \A fd \in inner[k] : \E h \in Handler : own[h] = fd

\* Mutant of SelectReady: timers wait for a select() that times out.
SelectReadyOnly ==
  /\ pc = "select" /\ AllOpen
  /\ outer' \in [Kind -> SUBSET Fd]
  /\ \A k \in Kind : outer'[k] \subseteq inner[k]
  /\ \E k \in Kind : outer'[k] # {}
  /\ pc' = "pass" /\ UNCHANGED timerVars
  /\ kind' = 1 /\ pos' = 0 /\ until' = 0 /\ atOnce' = FALSE
  /\ UNCHANGED <<lists, inner, cur, quit, own, calls>>

(* Some descriptors are ready.  The timers have their turn first if one    *)
(* was due before select().                                                *)
SelectReady ==
  /\ pc = "select" /\ AllOpen
  /\ outer' \in [Kind -> SUBSET Fd]
  /\ \A k \in Kind : outer'[k] \subseteq inner[k]
  /\ \E k \in Kind : outer'[k] # {}
  /\ IF atOnce THEN pc' = "timers" /\ StartPass
     ELSE pc' = "pass" /\ UNCHANGED timerVars
  /\ kind' = 1 /\ pos' = 0 /\ until' = 0 /\ atOnce' = FALSE
  /\ UNCHANGED <<lists, inner, cur, quit, own, calls>>

SelectTimeout ==
  /\ pc = "select" /\ AllOpen
  /\ until # 0 /\ now >= until
  /\ outer' = [k \in Kind |-> {}]
  /\ pc' = "timers" /\ StartPass
  /\ kind' = 1 /\ pos' = 0 /\ until' = 0 /\ atOnce' = FALSE
  /\ UNCHANGED <<lists, inner, cur, quit, own, calls>>

(* doTimeouts() *)
TimerPass ==
  /\ pc = "timers"
  /\ \/ Fire /\ pc' = "ontimer"
     \/ Pass /\ UNCHANGED pc
     \/ EndPass /\ pc' = "pass"
  /\ UNCHANGED <<lists, sets, kind, pos, cur, until, atOnce, quit, own, calls>>

TimerReturns ==
  /\ pc = "ontimer"
  /\ Fired /\ pc' = "timers"
  /\ UNCHANGED <<lists, sets, kind, pos, cur, until, atOnce, quit, own, calls>>

(* raiseEvents(): the next handler of the list whose descriptor is ready.  *)
ReadyFrom(k, from) == {fd \in outer[k] : from <= fd /\ list[k][fd] # NoHandler}

RaiseEvent ==
  /\ pc = "pass"
  /\ \E fd \in ReadyFrom(Kinds[kind], pos) :
       /\ \A other \in ReadyFrom(Kinds[kind], pos) : fd <= other
       /\ pos' = fd /\ cur' = list[Kinds[kind]][fd]
  /\ pc' = "onevent"
  /\ UNCHANGED <<timerVars, lists, sets, kind, until, atOnce, quit, own, calls>>

EventReturns ==
  /\ pc = "onevent"
  /\ pc' = "pass" /\ pos' = pos + 1 /\ cur' = NoHandler
  /\ UNCHANGED <<timerVars, lists, sets, kind, until, atOnce, quit, own, calls>>

(* unlock(): the additions made during the pass are added now. *)
Committed(k) ==
  /\ list' = [list EXCEPT ![k] = [fd \in Fd |-> IF pending[k][fd] # NoHandler
                                                THEN pending[k][fd]
                                                ELSE list[k][fd]]]
  /\ pending' = [pending EXCEPT ![k] = Empty]

EndRaise ==
  /\ pc = "pass" /\ ReadyFrom(Kinds[kind], pos) = {}
  /\ Committed(Kinds[kind])
  /\ IF kind < Len(Kinds) THEN kind' = kind + 1 /\ UNCHANGED pc
     ELSE kind' = 1 /\ pc' = "bottom"
  /\ pos' = 0
  /\ UNCHANGED <<timerVars, valid, sets, cur, until, atOnce, quit, own, calls>>

Bottom ==
  /\ pc = "bottom"
  /\ pc' = IF quit THEN "outside" ELSE "top"
  /\ quit' = FALSE
  /\ outer' = [k \in Kind |-> {}]
  /\ UNCHANGED <<timerVars, lists, inner, kind, pos, cur, until, atOnce, own, calls>>

(* Time passes while the loop waits and in callbacks; the rest takes none. *)
Tick ==
  /\ now < MaxNow /\ pc \in {"select", "ontimer", "onevent"}
  /\ now' = now + 1
  /\ UNCHANGED <<m_list, m_time, m_soonest, at, passNow, lists, sets, loop, own, calls>>

LoopStep ==
  \/ Run \/ Prepare \/ SelectReady \/ SelectTimeout
  \/ TimerPass \/ TimerReturns \/ RaiseEvent \/ EventReturns
  \/ EndRaise \/ Bottom

Next == ProgramCall \/ LoopStep \/ Tick

Spec == Init /\ [][Next]_vars

(* Callbacks return, select() does not wait beyond its timeout, and time   *)
(* passes.  Nothing makes a descriptor ready.                              *)
Steps ==
  \/ Run \/ Prepare \/ SelectTimeout \/ TimerPass
  \/ TimerReturns \/ RaiseEvent \/ EventReturns \/ EndRaise \/ Bottom

FairSpec == Spec /\ WF_vars(Steps) /\ SF_vars(Tick)

-----------------------------------------------------------------------------
(* The handler that is registered, as the program sees it. *)
Registered(k, fd) == IF pending[k][fd] # NoHandler THEN pending[k][fd]
                     ELSE list[k][fd]

(* select() is never given a descriptor that the program has closed, so    *)
(* that run() does not end with EBADF, though descriptors are closed in    *)
(* the middle of passes over the lists.                                    *)
SelectNeverFails == pc = "select" => AllOpen

(* A handler that is registered has not been destroyed, and it has the     *)
(* descriptor that it is registered for.                                   *)
HandlersThere ==
  \A k \in Kind, fd \in Fd :
    Registered(k, fd) # NoHandler => own[Registered(k, fd)] = fd

LoopInvariant == TypeOK /\ SoonestRight /\ SelectNeverFails /\ HandlersThere

(* A pass over a list raises no event for a handler that was added during  *)
(* the pass: it may be for a new socket with an old number.                *)
NoNewcomersInPass ==
  [][\A k \in Kind : Locked(k) /\ Locked(k)' =>
       \A fd \in Fd : list'[k][fd] \in {list[k][fd], NoHandler}]_vars

(* The loop implements the registry. *)
Calling ==
  CASE pc \in {"outside", "ontimer"} -> [who |-> "program"]
    [] pc = "onevent" -> [who |-> "handler", kind |-> Kinds[kind], fd |-> pos,
                          handler |-> cur]
    [] OTHER -> [who |-> "loop"]

Registry == INSTANCE EventRegistry WITH
  Kinds <- Kind,
  reg <- [k \in Kind |-> [fd \in Fd |-> Registered(k, fd)]],
  watched <- inner, call <- Calling

ImplementsRegistry == Registry!RSpec

(* A timer that is due goes off, or is stopped or started again by the     *)
(* program, however busy the descriptors keep the loop.                    *)
TimersGoOff ==
  \A x \in Timer :
    (pc # "outside" /\ Running(x) /\ m_time[x] <= now) ~>
      (~Running(x) \/ m_time[x] > now \/ pc = "outside")

=============================================================================
