----------------------------- MODULE MCArtwork -----------------------------
(* Values of Artwork's constants for the model checker. *)
EXTENDS Artwork

CONSTANTS c1, c2

RowListsValue == {<<c1, c2>>}
PhotosValue == <<c2>>
=============================================================================
