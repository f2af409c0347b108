--------------------------- MODULE MCSessionOverFfi ---------------------------
(* Two names in up to three slots; a small and a large string, a list, a       *)
(* function.  The limits admit two large values but not three, and two lists    *)
(* of two items, but nothing besides them.                                     *)
EXTENDS SessionOverFfi

CONSTANTS x, y, null, short, long, list, fn, a1

MCName == {x, y}
MCScalar == {short, long}
MCCompound == {list}
MCCallable == {fn}
MCAddr == {a1}
MCProgram == {1, 3}
MCSize == [v \in {null, short, long, list} |->
              CASE v = null -> 1 [] v = short -> 2 [] v = long -> 4 [] v = list -> 3]
MCNodes == [v \in {null, short, long, list} |-> IF v = list THEN 3 ELSE 1]

================================================================================
