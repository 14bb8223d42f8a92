------------------------------ MODULE MC_Codec ------------------------------
(***************************************************************************)
(* Codec with a key whose code, 410G-1, has every kind of character, in    *)
(* its check too; with no tasks, and with two of which one lacks the later *)
(* key.                                                                    *)
(***************************************************************************)
EXTENDS Codec, TLC

MCKeys == {8257}

MCCheckOf == [k \in 0 .. 65535 |-> (k + k \div 256) % 32]

MCSnapshots == {(7 :> [says |-> 200, later |-> Absent]) @@
                  (3 :> [says |-> 1, later |-> 254]),
                <<>>}
=============================================================================
