------------------------------ MODULE MCSession ------------------------------
\* Two documents: one a notification names and one only a preview finds.
EXTENDS Session, TLC

CONSTANTS u1, u2

MCURIs   == {u1, u2}
MCOneURI == {u1}

URISymmetry == Permutations(MCURIs)
=============================================================================
