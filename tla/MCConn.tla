-------------------------------- MODULE MCConn --------------------------------
\* Two goroutines, so that answers can be swapped and frames interleave.
EXTENDS Conn, TLC

CONSTANTS c1, c2
=============================================================================
