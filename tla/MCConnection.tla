---------------------------- MODULE MCConnection ----------------------------
(* Small instances of Connection.  The addresses 0 (TV) and 4 (Playback 1) *)
(* stand for all: connections are told apart by whether they share one.    *)
EXTENDS Connection

TwoAddresses == {0, 4}
OneAddress == {4}
=============================================================================
