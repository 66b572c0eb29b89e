----------------------------- MODULE MCRxSizing -----------------------------
(* The receive buffer with the numbers of the source, for TLC.             *)
EXTENDS RxSizing

\* "+RCV=65535,240," and 240 bytes of payload, ",-120,-20" and "\r\n": 266.
\* "+OK\r\n": 5.  "+READY\r\n": 8.  257: the longest line no read can lose.
MCLines == {5, 8, 250, 257, 266}
MCReads == {1, 64, 200} \cup {CHUNK}
MCTotals == 0..RX_BUF \ {1, 2, 3, 4, 6, 7, 9, 11, 12, 14, 17, 19, 22, 27}
MCCuts == {0, 1, 2, 3, 9, 246, 250}
MCWholes == {0, 5, 250}
=============================================================================
