----------------------------- MODULE RoverClientMC -----------------------------
(* Three bases in a row and a rover that may stand at either end of it: at *)
(* the near end, "a" is closest, "b" next by less than the hysteresis, and *)
(* "c" far off.                                                            *)
EXTENDS RoverClient

Near == [a |-> 0, b |-> 3, c |-> 9]
Far  == [a |-> 9, b |-> 6, c |-> 0]
Kilometres == [p \in Places |-> IF p = "near" THEN Near ELSE Far]

(* Automatic choice, with the far base as the initial one. *)
FarMount == [auto : {TRUE}, mount : {"c"}, account : {1}]

(* The initial base is listed, or not. *)
Listings == {Bases, Bases \ {"c"}}

(* As above, and the choice off, another base, or a wrong password. *)
Panel == FarMount \union [auto : {FALSE}, mount : {"a"}, account : {1}]
                 \union [auto : {TRUE}, mount : {"c"}, account : {2}]
=============================================================================
