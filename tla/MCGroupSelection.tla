-------------------------- MODULE MCGroupSelection --------------------------
(***************************************************************************)
(* Small households for GroupSelection: two rooms that are apart (listed   *)
(* in either order), grouped under either coordinator, and grouped again   *)
(* under a new group id.                                                   *)
(***************************************************************************)
EXTENDS GroupSelection

CONSTANTS kitchen, office, gA, gB, gC

Zone(id, coordinator, members) ==
  [id |-> id, coordinator |-> coordinator, members |-> members]

TwoRooms ==
  { <<Zone(gA, kitchen, <<kitchen>>), Zone(gB, office, <<office>>)>>,
    <<Zone(gB, office, <<office>>), Zone(gA, kitchen, <<kitchen>>)>>,
    <<Zone(gA, kitchen, <<kitchen, office>>)>>,
    <<Zone(gB, office, <<kitchen, office>>)>>,
    <<Zone(gC, office, <<office, kitchen>>)>> }
=============================================================================
