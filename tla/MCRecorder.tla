----------------------------- MODULE MCRecorder -----------------------------
(* Small instances of Recorder for TLC. *)
EXTENDS Recorder

TwoOptions == { [base |-> "slow", fast |-> FALSE, once |-> FALSE],
                [base |-> "stopped", fast |-> TRUE, once |-> TRUE] }

=============================================================================
