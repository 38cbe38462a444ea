------------------------------ MODULE TimerList ------------------------------
(***************************************************************************)
(* GNet::TimerBase and GNet::TimerList (gnet/gtimer.cpp,                   *)
(* gnet/gtimerlist.cpp): the timers of a program, of which the list        *)
(* remembers the soonest for the event loop to wait for.                   *)
(*                                                                         *)
(* The actions here are the calls that a program makes on its timers and   *)
(* the parts of doTimeouts(); EventLoop says when they happen.  A timer    *)
(* that is destroyed leaves a null pointer in the list until the next      *)
(* doTimeouts() has ended, so that a pass under way keeps its place.       *)
(* Time is a number of ticks; zero in m_time means not active and one      *)
(* means at once, as in the code.                                          *)
(***************************************************************************)
EXTENDS Integers, Subsequences

CONSTANTS
  Timer,     \* the timers of the program
  NoTimer,   \* the null pointer
  MaxList    \* bound: length of the list, with its null pointers

ASSUME TimerAssumption == NoTimer \notin Timer /\ IsFiniteSet(Timer) /\ MaxList \in Nat

VARIABLES
  now,       \* the time of day
  m_list,    \* the list
  m_time,    \* when each timer goes off
  m_soonest, \* the timer that is to go off first
  at,        \* doTimeouts()'s place in the list, zero outside of it
  passNow    \* the time that doTimeouts() goes by, zero until it is needed

timerVars == <<now, m_list, m_time, m_soonest, at, passNow>>

Start == 2   \* the time before which none is an absolute time

Exists(x) == \E i \in 1 .. Len(m_list) : m_list[i] = x
Active(x) == m_time[x] # 0

TimerTyped ==
  /\ now \in Nat
  /\ m_list \in Seq(Timer \union {NoTimer})
  /\ m_time \in [Timer -> Nat]
  /\ m_soonest \in Timer \union {NoTimer}
  /\ at \in Nat /\ passNow \in Nat

(* The first of the timers in the list with the least time. *)
FindSoonest(list, time) ==
  LET running == {i \in 1 .. Len(list) : list[i] # NoTimer /\ time[list[i]] # 0}
      First(i) == \A j \in running :
                    \/ time[list[i]] < time[list[j]]
                    \/ time[list[i]] = time[list[j]] /\ i <= j
  IN  IF running = {} THEN NoTimer
      ELSE list[CHOOSE i \in running : First(i)]

(* update(): nothing changes when a timer that is not the soonest is       *)
(* cancelled, or a later one started.                                      *)
Soonest(x, time) ==
  IF time[x] = 0 /\ m_soonest # x
    THEN m_soonest
  ELSE IF time[x] # 0 /\ m_soonest # NoTimer /\ time[x] > time[m_soonest]
    THEN m_soonest
  ELSE IF time[x] = 1 THEN x ELSE FindSoonest(m_list, time)

Create(x) ==
  /\ ~Exists(x) /\ Len(m_list) < MaxList
  /\ m_list' = Append(m_list, x)
  /\ m_time' = [m_time EXCEPT ![x] = 0]
  /\ UNCHANGED <<now, m_soonest, at, passNow>>

Destroy(x) ==
  /\ Exists(x)
  /\ m_list' = [i \in DOMAIN m_list |-> IF m_list[i] = x THEN NoTimer
                                        ELSE m_list[i]]
  /\ m_soonest' = IF m_soonest = x THEN FindSoonest(m_list', m_time)
                  ELSE m_soonest
  /\ UNCHANGED <<now, m_time, at, passNow>>

StartTimer(x, interval) ==
  /\ Exists(x)
  /\ m_time' = [m_time EXCEPT ![x] = IF interval = 0 THEN 1 ELSE now + interval]
  /\ m_soonest' = Soonest(x, m_time')
  /\ UNCHANGED <<now, m_list, at, passNow>>

CancelTimer(x) ==
  /\ Exists(x) /\ Active(x)
  /\ m_time' = [m_time EXCEPT ![x] = 0]
  /\ m_soonest' = Soonest(x, m_time')
  /\ UNCHANGED <<now, m_list, at, passNow>>

(* interval(): how long to wait, -1 for ever. *)
Interval ==
  IF m_soonest = NoTimer THEN -1
  ELSE IF m_time[m_soonest] = 1 \/ now >= m_time[m_soonest] THEN 0
  ELSE m_time[m_soonest] - now

-----------------------------------------------------------------------------
(* doTimeouts() *)

StartPass == at' = 1 /\ passNow' = 0 /\ UNCHANGED <<now, m_list, m_time, m_soonest>>

(* expired(): the clock is read once in a pass, if at all. *)
PassTime == IF passNow = 0 THEN now ELSE passNow

AtActive == at <= Len(m_list) /\ m_list[at] # NoTimer /\ Active(m_list[at])

Expired == AtActive /\ (m_time[m_list[at]] = 1 \/ m_time[m_list[at]] <= PassTime)

ReadClock == passNow' = IF AtActive /\ m_time[m_list[at]] # 1 THEN PassTime
                        ELSE passNow

(* doTimeout(): the timer is no longer active when its handler is called. *)
Fire ==
  /\ Expired
  /\ m_time' = [m_time EXCEPT ![m_list[at]] = 0]
  /\ ReadClock
  /\ UNCHANGED <<now, m_list, m_soonest, at>>

Pass ==
  /\ at <= Len(m_list) /\ ~Expired
  /\ ReadClock
  /\ at' = at + 1
  /\ UNCHANGED <<now, m_list, m_time, m_soonest>>

Fired == at' = at + 1 /\ UNCHANGED <<now, m_list, m_time, m_soonest, passNow>>

(* collectGarbage(), and the soonest timer is looked for afresh. *)
EndPass ==
  /\ at > Len(m_list)
  /\ m_list' = AtPlaces(m_list, {i \in DOMAIN m_list : m_list[i] # NoTimer})
  /\ m_soonest' = FindSoonest(m_list', m_time)
  /\ at' = 0 /\ passNow' = 0
  /\ UNCHANGED <<now, m_time>>

-----------------------------------------------------------------------------
(* The event loop never waits beyond a timer: between two passes the       *)
(* soonest timer is one that is there and running, and none goes off       *)
(* before it; there is none only if no timer is running.  In a pass it     *)
(* may be out of date, but it is never a timer that has been destroyed.    *)
Running(x) == Exists(x) /\ Active(x)

SoonestRight ==
  /\ m_soonest # NoTimer => Exists(m_soonest)
  /\ at = 0 =>
       /\ m_soonest = NoTimer => \A x \in Timer : ~Running(x)
       /\ m_soonest # NoTimer =>
            /\ Running(m_soonest)
            /\ \A x \in Timer : Running(x) => m_time[m_soonest] <= m_time[x]

=============================================================================
