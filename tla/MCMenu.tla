------------------------------- MODULE MCMenu --------------------------------
(* MenuThreads for TLC.  One thread and every way through the pages; the    *)
(* slide show of games with two pictures, with none and with no archive;    *)
(* two threads at a time, where a stop passed early, on one page.           *)
EXTENDS MenuThreads

Games     == {"two", "none", "closed"}
GameShots == [two |-> 2, none |-> 0, closed |-> 1]

Tour(p, g, n, f) == [pages |-> p, games |-> g, threads |-> n, faults |-> f]

AllTours == {Tour(AllPages, {"none"}, 1, 1), Tour({"menu"}, Games, 1, 0),
             Tour({"type"}, {"two", "none"}, 1, 0), Tour({"recent"}, {"two", "none"}, 1, 0),
             Tour({"menu"}, {"closed"}, 2, 0),
             Tour({"search"}, {"closed"}, 2, 1), Tour({"setting"}, {"closed"}, 2, 1)}
=============================================================================
