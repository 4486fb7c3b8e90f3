---------------------------- MODULE MCKoboGateway ----------------------------
(* Values for checking KoboGateway with TLC. *)
EXTENDS KoboGateway, TLC

CONSTANTS b1, x1, c1, c2, d1, d2

Symmetries == Permutations(Calls) \cup Permutations(Devices)

(* One book of the library with an EPUB, and a book of the store. *)
MCFiles == [b \in Books |-> IF b \in Known THEN {"epub"} ELSE {}]
MCIdLists == {<<b1>>, <<x1>>, <<b1, x1>>}

MCPuts == {[readable |-> TRUE,  status |-> "Reading",  sides |-> {"bookmark"}],
           [readable |-> TRUE,  status |-> NoStatus,   sides |-> Sides],
           [readable |-> FALSE, status |-> NoStatus,   sides |-> {}]}
=============================================================================
