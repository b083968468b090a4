----------------------------- MODULE MCCodeHeads -----------------------------
EXTENDS CodeHeads

CONSTANTS t, u

(* One literal constant outside the dictionary, three literals of it; two  *)
(* IRIs, one a prefix of the other so ordered against their codes, a blank *)
(* node and an IRI constant outside the dictionary.                        *)
MCLiterals == {-1, 0, 1, 2}
MCNames == {-2, 3, 4, 5}

PlaceOf(x) ==
  CASE x = 5 -> 0 [] x = 4 -> 1 [] x = -2 -> 2 [] x = 3 -> 3 [] x = t -> 4

(* u is ordered after t, or neither before the other.                      *)
MCPlaces == {[x \in MCNames \cup {t, u} |-> IF x = u THEN p ELSE PlaceOf(x)] : p \in {4, 5}}

Rows(f) == [i \in DOMAIN f |-> <<f[i]>>]

By(col, desc) == [col |-> col, expr |-> FALSE, desc |-> desc]

Select(rows, pv, start, stop, distinct, order) ==
  [op |-> "head", rows |-> rows, single |-> FALSE, pv |-> pv,
   start |-> start, stop |-> stop, distinct |-> distinct, order |-> order]

(* DISTINCT over up to four literals.  Those of the dictionary are         *)
(* interchangeable, so only where the constant stands matters.             *)
Firsts == {SubSeq(<<0, 1, 2>>, 1, n) : n \in 0..3}
Distincts ==
  {Select(Rows(f), <<1>>, 0, None, TRUE, <<>>) :
     f \in Firsts \cup UNION {{InsertAt(g, k, -1) : k \in 1 .. Len(g) + 1} : g \in Firsts}}

Mixed == << <<0, 3>>, <<None, 4>>, <<1, 5>>, <<0, 3>>, <<1, 3>> >>
Constants == << <<3, 0>>, <<-2, -1>>, <<4, 1>>, <<5, -1>>, <<4, None>> >>

Orders == {<<By(1, FALSE)>>, <<By(2, TRUE)>>, <<By(1, TRUE), By(2, FALSE)>>,
           <<By(2, FALSE), By(0, FALSE), By(1, TRUE)>>}

Sorted ==
  {Select(rows, <<2, 1>>, w[1], w[2], FALSE, order) :
     rows \in {Mixed, Constants}, w \in {<<0, None>>, <<0, 1>>, <<1, 3>>}, order \in Orders}
    \cup {Select(rows, pv, 1, 3, TRUE, <<By(2, TRUE), By(1, FALSE)>>) :
            rows \in {Mixed, Constants}, pv \in {<<1>>}}

(* One match under a LIMIT, the shapes handed back, a bare ORDER BY.       *)
Shapes ==
  {[Select(Mixed, <<1>>, 1, 2, FALSE, <<>>) EXCEPT !.single = TRUE],
   Select(Mixed, None, 0, None, FALSE, <<By(2, FALSE)>>),
   Select(Mixed, None, 0, None, FALSE, <<>>),
   Select(Mixed, None, 0, None, TRUE, <<By(1, FALSE)>>),
   Select(Mixed, <<1>>, 0, 2, FALSE, <<[By(1, FALSE) EXCEPT !.expr = TRUE]>>),
   Select(Mixed, <<1>>, 0, 0, TRUE, <<By(0, TRUE)>>)}

Spec1(kind, col, distinct) == [kind |-> kind, col |-> col, distinct |-> distinct]

AllCounts ==
  <<Spec1("rows", 0, FALSE), Spec1("rows", 0, TRUE), Spec1("col", 2, FALSE),
    Spec1("col", 2, TRUE), Spec1("const", 0, FALSE), Spec1("const", 0, TRUE),
    Spec1("none", 0, FALSE)>>

Count(rows, single, columnar, keys, counts) ==
  [op |-> "count", rows |-> rows, single |-> single, columnar |-> columnar,
   implicit |-> keys = <<>>, keys |-> keys, counts |-> counts]

Full == << <<0, 1>>, <<1, 0>>, <<0, 2>>, <<2, 1>>, <<1, 1>> >>
Partial == << <<0, 1>>, <<-1, None>>, <<1, -1>>, <<None, 2>>, <<2, 2>>, <<-1, 0>> >>

Counts ==
  {Count(Full, FALSE, columnar, keys, AllCounts) :
     columnar \in BOOLEAN, keys \in {<<>>, <<1>>, <<1, 0>>, <<1, 2>>}}
    \cup {Count(Partial, FALSE, FALSE, keys, AllCounts) : keys \in {<<>>, <<1>>, <<2, 1>>}}
    \cup {Count(rows, single, TRUE, keys, <<AllCounts[1], AllCounts[3]>>) :
            rows \in {<<>>, Full}, single \in BOOLEAN, keys \in {<<>>, <<1>>}}
    \cup {Count(rows, FALSE, columnar, keys, AllCounts) :
            rows \in {<<>>, Full}, columnar \in BOOLEAN, keys \in {<<>>, <<0>>, <<1>>}}

MCQueries == Distincts \cup Sorted \cup Shapes \cup Counts
=============================================================================
