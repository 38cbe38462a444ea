----------------------------- MODULE MCEventLoop -----------------------------
(* A small instance of EventLoop for TLC. *)
EXTENDS EventLoop

CONSTANTS h1, h2, t1, t2

TwoHandlers == {h1, h2}
TwoTimers == {t1, t2}
ReadWrite == <<"read", "write">>

=============================================================================
