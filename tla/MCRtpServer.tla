----------------------------- MODULE MCRtpServer -----------------------------
(* An AVC camera whose numbers wrap within one access unit (b and c) and   *)
(* come again (d), with the timestamp zero; a JPEG camera; and a camera    *)
(* with the source number zero, which sends both and an aggregation        *)
(* packet, with the numbers and timestamps of the others (m and l).        *)
EXTENDS RtpServer

Packet(type, source, unit, size, index, seq, timestamp) ==
  [type |-> type, jpeg |-> type = 26, source |-> source, unit |-> unit, index |-> index,
   seq |-> seq, timestamp |-> timestamp,
   form |-> IF size = 1 THEN "single" ELSE IF index = 1 THEN "first"
            ELSE IF index = size THEN "last" ELSE "middle"]

Cut(type, source, unit, size, seq, timestamp) ==
  {Packet(type, source, unit, size, i, (seq + i - 1) % 16, timestamp) : i \in 1 .. size}

Other(type, source, unit, form, seq, timestamp) ==
  {[Packet(type, source, unit, 1, 1, seq, timestamp) EXCEPT !.form = form]}

MCPackets ==
  UNION {Cut(96, 1, "a", 1, 9, 1), Cut(96, 1, "b", 4, 10, 2), Cut(96, 1, "c", 3, 14, 2),
         Cut(96, 1, "d", 3, 11, 0), Cut(96, 1, "e", 2, 4, 3), Other(96, 1, "f", "invalid", 6, 3),
         Cut(26, 2, "j", 3, 15, 4), Cut(26, 2, "k", 1, 2, 5), Cut(26, 0, "l", 2, 15, 4),
         Cut(96, 0, "m", 2, 10, 2), Other(96, 0, "n", "aggregate", 3, 7), Other(8, 0, "o", "single", 4, 8)}

=============================================================================
