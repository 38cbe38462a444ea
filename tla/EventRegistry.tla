---------------------------- MODULE EventRegistry ----------------------------
(***************************************************************************)
(* What an event loop promises (gnet/geventhandler.h, gnet/geventloop.h):  *)
(* handlers are registered for descriptors and dropped again at any time,  *)
(* select() is asked about all of those that are registered and no others, *)
(* and a handler is called only while it is registered, for a descriptor   *)
(* that select() was asked about.                                          *)
(***************************************************************************)
CONSTANTS Kinds, Fd, Handler, NoHandler

VARIABLES
  reg,      \* the handler registered for each kind of event and descriptor
  watched,  \* the descriptors that select() was asked about
  call      \* who is running: the program (before run() or in a timer's
            \* callback), the loop, or a handler with its kind and descriptor

Program == [who |-> "program"]
Loop == [who |-> "loop"]
HandlerOf(k, fd) == [who |-> "handler", kind |-> k, fd |-> fd, handler |-> reg[k][fd]]

RInit ==
  /\ reg \in [Kinds -> [Fd -> Handler \union {NoHandler}]]
  /\ watched = [k \in Kinds |-> {}]
  /\ call = Program

(* Only the program and its handlers change what is registered. *)
Add(k, fd, h) ==
  /\ call # Loop
  /\ reg' = [reg EXCEPT ![k][fd] = h]
  /\ UNCHANGED <<watched, call>>

Drop(ks, fd) ==
  /\ call # Loop
  /\ reg' = [k \in Kinds |-> IF k \in ks THEN [reg[k] EXCEPT ![fd] = NoHandler]
                             ELSE reg[k]]
  /\ UNCHANGED <<watched, call>>

Look ==
  /\ call = Loop
  /\ watched' = [k \in Kinds |-> {fd \in Fd : reg[k][fd] # NoHandler}]
  /\ UNCHANGED <<reg, call>>

Call ==
  /\ call = Loop
  /\ \/ call' = Program
     \/ \E k \in Kinds, fd \in Fd :
          /\ fd \in watched[k] /\ reg[k][fd] # NoHandler
          /\ call' = HandlerOf(k, fd)
  /\ UNCHANGED <<reg, watched>>

Return ==
  /\ call # Loop /\ call' = Loop
  /\ UNCHANGED <<reg, watched>>

RNext ==
  \/ \E k \in Kinds, fd \in Fd, h \in Handler : Add(k, fd, h)
  \/ \E ks \in SUBSET Kinds, fd \in Fd : Drop(ks, fd)
  \/ Look \/ Call \/ Return

RSpec == RInit /\ [][RNext]_<<reg, watched, call>>

=============================================================================
