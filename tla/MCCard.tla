------------------------------- MODULE MCCard --------------------------------
(* CardFiles for TLC: games of one title in three folders, so that they    *)
(* share their states; one has a name that GB2312 writes otherwise.        *)
EXTENDS CardFiles

Three == [games |-> {"one", "two", "wide"}, events |-> 2]
Alone == [games |-> {"one"}, events |-> 3]
BothSetups == {Three, Alone}
Sav == [g \in Games |-> "x.sav"]
Slot == [g \in Games |-> "x.sv0"]
=============================================================================
