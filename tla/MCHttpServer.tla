---------------------------- MODULE MCHttpServer ----------------------------
(* A small http server: streams and single images, converted or not. *)
EXTENDS HttpServer, TLC

Symmetry == Permutations(Handler)

SomeRequests ==
  {[target |-> "channel", type |-> "jpeg", streaming |-> TRUE,  quick |-> TRUE],
   [target |-> "channel", type |-> "raw",  streaming |-> FALSE, quick |-> FALSE],
   [target |-> "nowhere", type |-> "jpeg", streaming |-> FALSE, quick |-> TRUE],
   [target |-> "file",    type |-> "jpeg", streaming |-> FALSE, quick |-> TRUE]}

=============================================================================
