----------------------------- MODULE MCBrowsing -----------------------------
(***************************************************************************)
(* Two groups, and Favorites whose first page holds no playlist and one    *)
(* placeholder.                                                            *)
(***************************************************************************)
EXTENDS Browsing

Kitchen == <<"item", "item", "item">>
Study == <<"item", "item">>
TwoQueues == [g \in {"kitchen", "study"} |-> IF g = "kitchen" THEN Kitchen ELSE Study]
OneFolder ==
  [o \in {"FV:2", "FV:2/1"} |->
     IF o = "FV:2" THEN <<"placeholder", "item", "FV:2/1", "playlist", "playlist">>
     ELSE <<"playlist", "playlist", "playlist">>]
OneRow == {-1, 1}

\* For PlaylistPages.cfg: nothing but playlists, more of them than two pages hold.
NoQueue == [g \in {"kitchen"} |-> <<>>]
PlaylistsOnly == [o \in {"FV:2"} |-> [i \in 1..4 |-> "playlist"]]
Down == {1}
=============================================================================
