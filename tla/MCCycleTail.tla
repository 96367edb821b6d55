---------------------------- MODULE MCCycleTail ----------------------------
(***************************************************************************)
(* CycleTail for TLC: a bill is named by its date and whether its currency *)
(* is quoted.                                                              *)
(***************************************************************************)
EXTENDS CycleTail

BillDate(b) == b[1]
BillQuoted(b) == b[2]

\* One that nobody can convert, with the earliest date, and two of later days.
ThreeDays == {<<1, FALSE>>, <<2, TRUE>>, <<3, TRUE>>}

=============================================================================
