----------------------------- MODULE StatusTLV -----------------------------
(***************************************************************************)
(* liboscar's class StatusTLV: the low word of the four bytes that stand   *)
(* for a presence status.  The high word holds flags, which no one reads.  *)
(***************************************************************************)
EXTENDS Naturals

\* What StatusTLV writes of a status.
specPack(s) ==
  CASE s = "OFFLINE" -> 65535 [] s = "INVISIBLE" -> 256 [] s = "DND" -> 19
    [] s = "OCUPPIED" -> 17 [] s = "NA" -> 5 [] s = "AWAY" -> 1 [] s = "FFC" -> 32
    [] OTHER -> 0

\* Mutant: the codes of two statuses are taken for each other.
parseStatusSwapped(w) ==
  CASE w = 65535 -> "OFFLINE" [] w = 1 -> "NA" [] w = 5 -> "AWAY" [] OTHER -> "ONLINE"

\* The statuses it reads of a word.
parseStatus(w) ==
  CASE w = 65535 -> "OFFLINE" [] w = 256 -> "INVISIBLE" [] w \in {19, 2} -> "DND"
    [] w = 17 -> "OCUPPIED" [] w = 5 -> "NA" [] w = 1 -> "AWAY" [] w = 32 -> "FFC"
    [] OTHER -> "ONLINE"
=============================================================================
