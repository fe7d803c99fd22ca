--------------------------- MODULE MCQueryPlanner ---------------------------
(* QueryPlanner for TLC: accounts of two sizes that move between two          *)
(* programs, asked for without filters and with one and two of them.          *)
EXTENDS QueryPlanner

CONSTANTS tok, prog, other, x

Of(p, n) == [owner |-> p, len |-> n, first8 |-> x, first32 |-> None, holder |-> None]

MCContents == {Of(prog, 10), Of(prog, 20), Of(other, 10)}

Gpa(filters) == [program |-> prog, filters |-> filters]

\* The discriminator index is not enabled: its filter is passed over.
MCQueries == {Gpa(<<>>),
              Gpa(<<Entry("data_size", 10)>>),
              Gpa(<<Entry("discriminator", x), Entry("data_size", 10)>>)}

MCEnabled == {"program", "data_size"}

Symmetry == Permutations(Accounts)
=============================================================================
