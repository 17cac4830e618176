----------------------------- MODULE MCDiagnose -----------------------------
\* Two versions of a file: one resource with a literal name, and the same resource
\* moved down by a line under one with a computed name.
EXTENDS Diagnose, TLC

CONSTANTS u1, r1, r2

MCContents == {"v1", "v2"}
MCCreates  == [c \in MCContents |-> IF c = "v1" THEN {1} ELSE {1, 2}]
MCLiteral  == [c \in MCContents |-> IF c = "v1" THEN {1} ELSE {2}]
MCSymmetry == Permutations({r1, r2})
=============================================================================
