------------------------------ MODULE GameLists ------------------------------
(***************************************************************************)
(* favorites.lst and recent.lst: each change reads the whole file, empties *)
(* it and writes it again with the game in front (shoucang, mui_run_game)  *)
(* or without it (mui_recent), or leaves it empty.  Lines are found by     *)
(* strcmp of the UTF-8 name with the name in the file, which is GB2312.    *)
(* What fprintf, fflush and fsync return is never looked at.               *)
(***************************************************************************)
EXTENDS Card, Sequences

CONSTANTS
    Wide,      \* the games whose names GB2312 writes otherwise than UTF-8
    MaxLines   \* bound: the length of a list

ASSUME ListAssumption == Wide \subseteq Games /\ MaxLines \in Nat

VARIABLES
    cache,     \* DAT_003af2b4: favorites.lst as it was last read
    chosen,    \* history: per list, the games not in Wide, newest first
    short      \* history: the lists that the full card took but a part of

Favorites == "favorites.lst"
Recent == "recent.lst"
Lists == {Favorites, Recent}

(* A line, or the beginning of one that a power cut left. *)
Lines == [game : Games, whole : BOOLEAN]
Line(g) == [game |-> g, whole |-> TRUE]
NotRead == <<[game |-> None, whole |-> FALSE]>>

ListsInit ==
    /\ \A l \in Lists : card[l] = <<>> /\ disk[l] = <<>>
    /\ cache = NotRead /\ chosen = [l \in Lists |-> <<>>] /\ short = {}

Same(g, line) == line.game = g /\ g \notin Wide
Favourites == IF cache = NotRead THEN card[Favorites] ELSE cache
IsShoucang(g) == \E i \in DOMAIN Favourites :
                    Favourites[i].whole /\ Same(g, Favourites[i])

(* What a loop over s copies of it: the members that are in S, in order. *)
Kept(S, s) ==
    LET kept[n \in 0 .. Len(s)] ==
          IF n = 0 THEN <<>>
          ELSE IF s[n] \in S THEN Append(kept[n - 1], s[n]) ELSE kept[n - 1]
    IN  kept[Len(s)]

(* The file without g and without a torn last line, and with g in front. *)
Without(g, lines) == Kept({line \in Lines : line.whole /\ ~Same(g, line)}, lines)
InFront(g, lines) == <<Line(g)>> \o Without(g, lines)

(* What the card may hold of a list that is written to it. *)
ListParts(lines) ==
    {SubSeq(lines, 1, n) : n \in 0 .. Len(lines)}
    \cup {SubSeq(lines, 1, n - 1) \o <<[lines[n] EXCEPT !.whole = FALSE]>> : n \in 1 .. Len(lines)}

Known(lines) ==
    LET plain == Kept({line \in Lines : line.whole /\ line.game \notin Wide}, lines)
    IN  [i \in DOMAIN plain |-> plain[i].game]

(* The same of the history: of a list that was cut short the player goes   *)
(* on from what is left.                                                   *)
Before(l) == IF l \in short THEN Known(card[l]) ELSE chosen[l]
Chosen(l, g, add) ==
    LET others == Kept(Games \ {g}, Before(l))
    IN  chosen' = [chosen EXCEPT ![l] = IF g \in Wide THEN Before(l)
                                        ELSE IF add THEN <<g>> \o others ELSE others]

Rewrite(l, lines) ==
    /\ busy = None /\ busy' = l
    /\ Len(lines) <= MaxLines
    /\ \/ Write(l, lines) /\ short' = short \ {l} /\ UNCHANGED events
       \/ /\ \E part \in ListParts(lines) \ {lines} : Write(l, part)
          /\ short' = short \union {l} /\ Event
    /\ UNCHANGED <<disk, late>>

(* shoucang: a game that the page shows as a favourite is dropped, another *)
(* put in front.  The page has read the favourites to show it.             *)
Shoucang(g) ==
    /\ LET lines == card[Favorites]
       IN  Rewrite(Favorites, IF IsShoucang(g) THEN Without(g, lines) ELSE InFront(g, lines))
    /\ Chosen(Favorites, g, g \notin {Before(Favorites)[i] : i \in DOMAIN Before(Favorites)})
    /\ cache' = Favourites

(* A game is started: it comes first in recent.lst. *)
Played(g) ==
    /\ Rewrite(Recent, InFront(g, card[Recent]))
    /\ Chosen(Recent, g, TRUE)
    /\ UNCHANGED cache

(* mui_recent: one game is taken off the list. *)
Forget(g) ==
    /\ \E i \in DOMAIN card[Recent] : card[Recent][i].game = g
    /\ Rewrite(Recent, Without(g, card[Recent]))
    /\ Chosen(Recent, g, FALSE)
    /\ UNCHANGED cache

(* All are: mui_recent, mui_shoucang, and mui_setting of both lists. *)
ForgetAll(l) ==
    /\ Rewrite(l, <<>>)
    /\ chosen' = [chosen EXCEPT ![l] = <<>>]
    /\ UNCHANGED cache

(* The file of a list cannot be opened to be written: to forget all is     *)
(* then skipped, the others write through NULL, and the program dies and   *)
(* is started again.  Either way the favourites are read anew.             *)
Unopened ==
    /\ busy = None
    /\ cache' = NotRead
    /\ UNCHANGED <<card, disk, busy, late, events, chosen, short>>

(* Mutant: the favourites are not read again. *)
ListSynced_KeepsCache ==
    /\ busy \in Lists /\ busy' = None
    /\ UNCHANGED <<card, chosen, short>> /\ Fsync(busy)
    /\ UNCHANGED cache

(* The end of each: fflush, fsync, fclose; shoucang reads the file again. *)
ListSynced ==
    /\ busy \in Lists /\ busy' = None
    /\ UNCHANGED <<card, chosen, short>> /\ Fsync(busy)
    /\ cache' = IF busy = Favorites THEN card[busy] ELSE cache

(* After a cut the program reads the lists anew.  Of a list that was being *)
(* rewritten, or that fsync failed for, the player keeps what is left.     *)
ListsCut ==
    /\ cache' = NotRead
    /\ chosen' = [l \in Lists |-> IF l \in late \union {busy} THEN Known(disk[l]) ELSE chosen[l]]
    /\ short' = short \ (late \union {busy})

-----------------------------------------------------------------------------
ListsTypeOK ==
    /\ \A l \in Lists : card[l] \in Seq(Lines) /\ disk[l] \in Seq(Lines)
    /\ cache \in Seq(Lines) \cup {NotRead}
    /\ chosen \in [Lists -> Seq(Games)] /\ short \subseteq Lists

(* Outside a rewrite the lists hold what the player chose, newest first    *)
(* and each game once, as far as the two spellings of its name agree:      *)
(* the cached copy never makes shoucang add what it should drop, and what  *)
(* was synced survives any cut.  Of a list that did not fit on the card    *)
(* they hold the beginning, until it is changed again.                     *)
Begins(s, t) == \E n \in 0 .. Len(t) : s = SubSeq(t, 1, n)
ListsAsChosen ==
    \A l \in Lists \ {busy} : IF l \in short THEN Begins(Known(card[l]), chosen[l])
                              ELSE Known(card[l]) = chosen[l]
=============================================================================
