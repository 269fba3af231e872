---------------------------- MODULE MCStateStore ----------------------------
(* Three commands on one record and one on another.                        *)
EXTENDS StateStore

CONSTANTS c1, c2, c3, c4, lead, account

MCRecordOf == [c \in Commands |-> IF c = c4 THEN account ELSE lead]
=============================================================================
