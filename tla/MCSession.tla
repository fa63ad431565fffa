----------------------------- MODULE MCSession ------------------------------
(* GameSession for TLC: two games and three cores, on cards and consoles    *)
(* that each bring out one part: the rom buffer, the loaders, the screen.   *)
EXTENDS GameSession

CoreNames == {"a", "b", "gpsp"}
Plain(c) == [packed |-> "plain", assigned |-> FALSE, type |-> "core", core |-> c]
Good == [format |-> "565", turn |-> Unasked, fault |-> None]
Console(one, two, a, b, g, f, s, t) ==
    [file |-> [x \in {"one", "two"} |-> IF x = "one" THEN one ELSE two],
     ask |-> [c \in CoreNames |-> CASE c = "a" -> a [] c = "b" -> b [] OTHER -> g],
     fba |-> f, soft |-> s, trouble |-> t]
Set(c) == [Plain(c) EXCEPT !.packed = "set"]
Zip(c) == [Plain(c) EXCEPT !.packed = "zip"]
Assigned(f) == [f EXCEPT !.assigned = TRUE]
Faulty(x) == [Good EXCEPT !.fault = x]

Roms == {Console(Assigned(Plain("a")), Assigned(Set("a")), Good, Good, Good, <<"b">>, FALSE, TRUE),
         Console(Zip("a"), [Zip("b") EXCEPT !.type = "direct"], Good, Good, Good, <<"b">>, FALSE, TRUE),
         Console(Assigned(Zip("a")), [Plain("b") EXCEPT !.type = "direct"], Good, Good, Good, <<"b">>, FALSE, TRUE),
         Console([Zip("gpsp") EXCEPT !.type = "gpsp"], [Plain("a") EXCEPT !.type = "unknown"], Good, Good, Good, <<"b">>, FALSE, TRUE)}
Loaders == {Console(Set("a"), Plain("a"), Good, Faulty(x), Faulty("support"), <<"b", "a">>, FALSE, FALSE) :
                x \in {"open", "support", "init", "entry", "region"}}
           \cup {Console(Plain("a"), [Plain("gpsp") EXCEPT !.type = "gpsp"], Faulty(x), Good, Good, <<"b">>, FALSE, FALSE) :
                x \in {"open", "support", "init", "entry", "region"}}
           \cup {Console(Plain("a"), [Plain("b") EXCEPT !.type = "gpsp"], Good, Good, Faulty(x), <<"b">>, FALSE, FALSE) :
                x \in {"init", "entry"}}
Turned == [format |-> "8888", turn |-> 1, fault |-> None]
Silent == [format |-> "unset", turn |-> Unasked, fault |-> None]
Screens == {Console(Plain("a"), other, Turned, b, b, <<"a", "b">>, soft, FALSE) :
                other \in {Plain("b"), Set("b"), [Plain("gpsp") EXCEPT !.type = "gpsp"]},
                b \in {Good, Silent}, soft \in BOOLEAN}
           \cup {Console(Plain("a"), [Plain("gpsp") EXCEPT !.type = "gpsp"], Good, Good, Turned, <<"a">>, soft, FALSE) :
                soft \in BOOLEAN}
           \cup {Console(Plain("a"), Set("a"), Turned, Good, Good, <<"a">>, soft, TRUE) : soft \in BOOLEAN}
All == Roms \cup Loaders \cup Screens
=============================================================================
