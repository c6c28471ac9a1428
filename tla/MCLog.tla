-------------------------------- MODULE MCLog --------------------------------
(***************************************************************************)
(* MgxLog for TLC: every kind of directive, with arguments at the ends of  *)
(* the ranges, alone and in pairs.                                         *)
(***************************************************************************)
EXTENDS MgxLog

Convs == {"d", "l", "P", "M", "p"}
Raws == {0, 8, 99, 128, 255}
Numbers ==
    UNION {{num(c, f, FALSE, 0, r), num(c, f, TRUE, 4, r), num(c, f, FALSE, 4, r)} :
           c \in Convs, f \in {"", "u", "x", "X"}, r \in Raws}
Floats ==
    UNION {{flt(n, p, FALSE, 0, f), flt(n, p, TRUE, 3, f)} :
           n \in BOOLEAN, p \in {0, 7, 75, 79, 80}, f \in 0..2}
Others == {one("a"), one("%"), str(<<"s", "t">>, NoLen), str(<<"s", "t", "r">>, 2), str(<<>>, NoLen)}

Short == {one("a"), one("%"), str(<<"s", "t", "r">>, 2), num("d", "", TRUE, 3, 8), flt(TRUE, 79, FALSE, 0, 1)}
MCFormats == {<<d>> : d \in Numbers \cup Floats \cup Others} \cup {<<d, e>> : d \in Short, e \in Short} \cup {<<>>}
MCChar == OwnChars \cup {"%", "s", "t", "r", "h", "m"}
MCHeader == <<"h">>
MCTag == <<"m">>
=============================================================================
