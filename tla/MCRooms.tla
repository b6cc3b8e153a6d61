------------------------------- MODULE MCRooms -------------------------------
(***************************************************************************)
(* Two demo rooms, one more that may be created, three requests.  The name *)
(* "c " is "c" when stripped; a location may be cleared; a PATCH renames   *)
(* and clears the location, or sets the description and leaves the name.   *)
(***************************************************************************)
EXTENDS Rooms, TLC

CONSTANTS e1, e2, e3, d1, d2, n1

MCEditors == {e1, e2, e3}
MCNewRooms == {n1}
MCDemoRooms == {d1, d2}

MCRow(name, location) == [name |-> name, location |-> location, description |-> Null]

MCNewRows == {MCRow("c", Null)}
MCDemoRow == (d1 :> MCRow("a", "here")) @@ (d2 :> MCRow("b", Null))
MCStrip == [v \in {"a", "b", "c", "c ", "here", "text", Null} |-> IF v = "c " THEN "c" ELSE v]
MCOffers == [name |-> {"a", "b", "c "}, location |-> {Null, "here"}, description |-> {"text"}]
MCPatches ==
  {[name |-> "b", location |-> Null], [name |-> Null, description |-> "text"]}
=============================================================================
