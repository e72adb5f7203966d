---------------------------- MODULE MCLogImport ----------------------------
(***************************************************************************)
(* Two accounts, and a third whose name the expression cuts to the first's. *)
(* Groups numbered in order, with a gap, and out of order; directories with *)
(* up to four entries, of which none to three sort before the dots, in two  *)
(* protocols of which one account has both.                                 *)
(***************************************************************************)
EXTENDS LogImport

CONSTANTS Ann, Bob, AnnSmith

MCCutTo == (Ann :> Ann) @@ (Bob :> Bob) @@ (AnnSmith :> Ann)

Group(id, name) == [kind |-> "group", id |-> id, name |-> name]
Contact(name, group) == [kind |-> "contact", name |-> name, group |-> group]

MCContactLists ==
  {<<Group(0, "top"), Group(1, "work"), Contact("x", 1), Contact("y", 0)>>,
   <<Group(1, "work"), Group(2, "home"), Contact("x", 2)>>,
   <<Group(1, "work"), Group(3, "home"), Contact("x", 3)>>,
   <<Group(2, "home"), Group(1, "work"), Contact("x", 2)>>}

MCAccountLists == {<<Ann>>, <<Bob, Ann>>, <<Ann, Bob>>, <<Ann, AnnSmith>>}

Log(protocol, account, contact, file) ==
  [protocol |-> protocol, account |-> account, contact |-> contact, file |-> file]

MCLogs ==
  SUBSET {Log("MSN", Ann, 2, 2), Log("MSN", Bob, 3, 2), Log("ICQ", Ann, 2, 2),
          Log("ICQ", Bob, 2, 3), Log("ICQ", Bob, -1, 2), Log("ICQ", Bob, -2, 3), Log("ICQ", Bob, -3, 2)}
=============================================================================
