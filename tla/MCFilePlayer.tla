---------------------------- MODULE MCFilePlayer ----------------------------
(* Three days of recordings, some of them still to come, and other roots:  *)
(* two with names of the same length, and one that is empty.               *)
EXTENDS FilePlayer, TLC

MCContents ==
  1 :> {<<2, 1>>, <<3, 2>>} @@ 2 :> {<<1, 1>>, <<1, 2>>, <<3, 1>>} @@ 3 :> {} @@ 4 :> {<<2, 2>>}

MCLength == 1 :> 4 @@ 2 :> 4 @@ 3 :> 4 @@ 4 :> 5

MCBad == {<<1, 2>>}

MCOptions ==
  {[loop |-> FALSE, stays |-> TRUE, ribbon |-> TRUE, skip |-> 0, reverse |-> FALSE,
    sent |-> {"play", "turn", "stop", "move", "click"}],
   [loop |-> TRUE, stays |-> TRUE, ribbon |-> TRUE, skip |-> 1, reverse |-> TRUE,
    sent |-> {"play", "turn", "stop", "move", "click"}],
   [loop |-> FALSE, stays |-> FALSE, ribbon |-> FALSE, skip |-> 0, reverse |-> TRUE,
    sent |-> {}],
   [loop |-> FALSE, stays |-> TRUE, ribbon |-> TRUE, skip |-> 0, reverse |-> FALSE,
    sent |-> {"turn", "stop", "root", "click"}]}

=============================================================================
