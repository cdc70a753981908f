--------------------------- MODULE MCFindingRule ---------------------------
(* Instance of FindingRule for TLC: numbers up to 2 fit, 3 does not; every *)
(* version of up to four segments, in tables of one line, and the short    *)
(* ones in tables of two lines.                                            *)
EXTENDS FindingRule

CONSTANTS app, other, unknown, word

MCWords       == {app, other, unknown, word}
MCTargetName  == <<app>>
MCUnknown     == <<unknown>>
MCRecommended == <<1, 2, 0>>

Versions(n) == UNION {[1..k -> 0..3 \cup {word}] : k \in 1..n}
Row(n, v)   == <<n, <<word>>, v>>

MCLines(n) == {Row(<<app>>, v) : v \in Versions(n)}
                \cup {<<>>, <<<<app>>>>, <<<<app>>, <<1>>>>, Row(<<other>>, <<0>>)}
MCTables == {<<>>} \cup {<<l>> : l \in MCLines(4)}
              \cup {<<l, m>> : l \in MCLines(2), m \in MCLines(2)}
=============================================================================
