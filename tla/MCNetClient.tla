----------------------------- MODULE MCNetClient -----------------------------
(* Small instances of NetClient for TLC. *)
EXTENDS NetClient

WithWatchdog ==
  [program |-> "http", named |-> TRUE, auth |-> FALSE, once |-> FALSE, watchdog |-> TRUE, timeout |-> FALSE]
WithPassword == [WithWatchdog EXCEPT !.named = FALSE, !.auth = TRUE, !.watchdog = FALSE]
WithOnce     == [WithPassword EXCEPT !.once = TRUE]
ForRtsp      == [WithWatchdog EXCEPT !.program = "rtsp", !.watchdog = FALSE, !.timeout = TRUE]

BothPrograms == {WithWatchdog, WithPassword, WithOnce, ForRtsp}

=============================================================================
