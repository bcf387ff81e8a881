------------------------------ MODULE MCInput ------------------------------
(***************************************************************************)
(* Keys and a pad with a few buttons, the default meaning of each, and a   *)
(* mapping of the owner's.                                                 *)
(***************************************************************************)
EXTENDS Input

KeysAndPad ==
  {<<"key", "Up">>, <<"key", "Menu">>, <<"key", "Start">>, <<"key", "R2">>,
   <<"pad", "Up">>, <<"pad", "R2">>}

\* The buttons of a pad, which no operating system repeats.
PadButtons == {<<"pad", "Up">>, <<"pad", "Menu">>, <<"pad", "Start">>}

Usual == [b \in Buttons |->
  CASE b = "Up" -> "Up" [] b = "R2" -> "Favorites"
    [] b = "Start" -> "Menu" [] b = "Menu" -> "ExitButton"]
Custom == [b \in Buttons |->
  CASE b = "Up" -> "Back" [] b = "R2" -> "Down"
    [] b = "Start" -> "None" [] b = "Menu" -> "Confirm"]
TwoMappings == {Usual, Custom}
=============================================================================
