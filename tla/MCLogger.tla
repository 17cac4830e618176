------------------------------ MODULE MCLogger ------------------------------
\* A queue of one: two goroutines and the sender are enough to fill it.
EXTENDS Logger
=============================================================================
