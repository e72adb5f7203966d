---------------------------- MODULE MCRosterSync ----------------------------
(* Instances of RosterSync for TLC, and the properties the runs check. *)
EXTENDS RosterSync

Rec(uin, type, gid, iid) == [uin |-> uin, type |-> type, gid |-> gid, iid |-> iid]

\* A master group, a group of its own, and what u1 has been given.
Groups == {Rec("", "group", 0, 0), Rec("friends", "group", 1, 0)}
SeparateIds ==
  { {Rec("", "group", 0, 0)},
    Groups \cup {Rec("u1", "buddy", 1, 1)} }
=============================================================================
