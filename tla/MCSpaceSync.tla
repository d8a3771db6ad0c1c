---------------------------- MODULE MCSpaceSync ----------------------------
(***************************************************************************)
(* A folder page and a page that may be in it or beside it, for SpaceSync. *)
(***************************************************************************)
EXTENDS SpaceSync, TLC

MCPages    == {"folder", "leaf"}
MCParents  == {None, "folder"}
MCLabels   == {{"red"}, {"red", "blue"}}
There[p \in MCPages] ==
  [version |-> 1, status |-> "current", labels |-> {"red"},
   parent |-> IF p = "leaf" THEN "folder" ELSE None]
Indexed[p \in MCPages] == There[p] @@ [tags |-> {"red", "team"}, active |-> TRUE]

(* A new deployment over a space, and one whose root has been indexed.     *)
MCBefore   ==
  {[pages |-> There, roots |-> [r \in {"r"} |-> "absent"], reg |-> [p \in MCPages |-> NoRow]],
   [pages |-> [There EXCEPT !["leaf"] = Unborn], roots |-> [r \in {"r"} |-> "active"],
    reg |-> [Indexed EXCEPT !["leaf"] = NoRow]]}
MCRootPage == [r \in {"r"} |-> "folder"]
MCRootTags == [r \in {"r"} |-> {"team"}]
=============================================================================
