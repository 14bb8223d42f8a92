---------------------------- MODULE MC_TaskSync ----------------------------
(***************************************************************************)
(* TaskSync on a phone and a browser tab, each with a store of its own.    *)
(***************************************************************************)
EXTENDS TaskSync, TLC

CONSTANTS phone, tab, phoneStore, webStore

MCStore == {phoneStore, webStore}
MCStoreOf == [c \in Client |-> IF c = phone THEN phoneStore ELSE webStore]
MCWeb == Client \ {phone}

InStep == [s \in Store |-> 0]
WebAhead == [s \in Store |-> IF s = webStore THEN 1 ELSE 0]

============================================================================
