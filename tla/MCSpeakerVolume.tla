-------------------------- MODULE MCSpeakerVolume --------------------------
(***************************************************************************)
(* A small household for SpeakerVolume: a group of two rooms whose         *)
(* coordinator has GroupRenderingControl, and a single older speaker.      *)
(***************************************************************************)
EXTENDS SpeakerVolume
LOCAL INSTANCE FiniteSetsExt

CONSTANTS kitchen, office, attic, downstairs, upstairs

Household == [g \in Groups |-> IF g = downstairs THEN <<kitchen, office>>
                               ELSE <<attic>>]
Coordinators == [g \in Groups |-> IF g = downstairs THEN kitchen ELSE attic]
Average(volumes, g) ==
  MapThenSumSet(LAMBDA r : volumes[r], MembersOf(g)) \div Cardinality(MembersOf(g))
AtFirst == [r \in Rooms |-> IF r = office THEN 2 ELSE 1]
=============================================================================
