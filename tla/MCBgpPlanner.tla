---------------------------- MODULE MCBgpPlanner ----------------------------
(* A block of five patterns for BgpPlanner, over two codes: a path, a cycle *)
(* that shares two variables, four patterns over one quad pattern, and a    *)
(* repeated variable.                                                       *)
EXTENDS BgpPlanner

(* ?x p ?y . ?y p ?z . ?z p ?y . ?z q ?z . ?y p ?w                          *)
BlockAt == <<<<"x", "y">>, <<"y", "z">>, <<"z", "y">>, <<"z", "z">>, <<"y", "w">>>>
BlockQuad == <<"p", "p", "p", "q", "p">>
BlockPoints == <<{{"x"}}, {{"y"}}, {{"z"}}, {{"z"}}, {{"y"}}>>

All == [v \in {"x", "y", "z", "w"} |-> {1, 2}]
OneX == {All, [All EXCEPT !["x"] = {1}]}
OneWOrNone == {All, [All EXCEPT !["w"] = {1}], [All EXCEPT !["y"] = {}]}

(* No tuple conjunct, FILTER(?x != ?z), FILTER(?x = ?z)                     *)
XZ == [c \in {"xz"} |-> {"x", "z"}]
XZMeanings == {[c \in {} |-> {}],
               [c \in {"xz"} |-> {f \in [{"x", "z"} -> {1, 2}] : f["x"] # f["z"]}],
               [c \in {"xz"} |-> {f \in [{"x", "z"} -> {1, 2}] : f["x"] = f["z"]}]}
=============================================================================
