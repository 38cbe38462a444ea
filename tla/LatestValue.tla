----------------------------- MODULE LatestValue -----------------------------
(***************************************************************************)
(* What a G::Publisher channel promises (the class comment of              *)
(* glib/gpublisher.h): a broadcast in which a newer message overwrites an  *)
(* older one that was not consumed.  A message is its serial number.  A    *)
(* member that receives gets the message that is current at that moment,   *)
(* whole, and never the same message twice; it need not get every message. *)
(* Nothing is published once the publisher has said goodbye.               *)
(***************************************************************************)
EXTENDS Naturals

CONSTANT Member

VARIABLES
  latest,    \* the current message, zero for none
  joined,    \* the members
  seen,      \* the last message each member was given
  retired    \* the publisher has said goodbye

lvVars == <<latest, joined, seen, retired>>

(* A message in one piece: its header and its payload belong together. *)
Message(n) == [head |-> n, body |-> n]

LVInit ==
  /\ latest = 0 /\ joined = {} /\ seen = [m \in Member |-> Message(0)]
  /\ retired = FALSE

Publish ==
  /\ ~retired
  /\ latest' = latest + 1
  /\ UNCHANGED <<joined, seen, retired>>

Join(m) ==
  /\ m \notin joined
  /\ joined' = joined \union {m}
  /\ seen' = [seen EXCEPT ![m] = Message(0)]
  /\ UNCHANGED <<latest, retired>>

Deliver(m) ==
  /\ m \in joined /\ seen[m].body < latest
  /\ seen' = [seen EXCEPT ![m] = Message(latest)]
  /\ UNCHANGED <<latest, joined, retired>>

Leave(m) ==
  /\ m \in joined
  /\ joined' = joined \ {m}
  /\ UNCHANGED <<latest, seen, retired>>

Retire ==
  /\ ~retired
  /\ retired' = TRUE
  /\ UNCHANGED <<latest, joined, seen>>

LVNext ==
  \/ Publish \/ Retire
  \/ \E m \in Member : Join(m) \/ Deliver(m) \/ Leave(m)

LVSpec == LVInit /\ [][LVNext]_lvVars

=============================================================================
