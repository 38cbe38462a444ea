------------------------------ MODULE MCCamera ------------------------------
(* A webcam with two clients. *)
EXTENDS Camera, TLC

CONSTANTS h1, h2

TwoHandlers == {h1, h2}

MCWants == h1 :> {"jpeg"} @@ h2 :> {"raw", "jpeg"}

MCOptions ==
  {[sleep |-> TRUE,  oneShot |-> FALSE, lazy |-> TRUE],
   [sleep |-> FALSE, oneShot |-> TRUE,  lazy |-> FALSE]}

=============================================================================
