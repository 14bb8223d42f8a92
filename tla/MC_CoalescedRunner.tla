------------------------ MODULE MC_CoalescedRunner ------------------------
(***************************************************************************)
(* CoalescedRunner on four calls: enough for the run in flight, a trailing *)
(* run, a call that lands in the window between settling and callback, and *)
(* one whose continuation is still to run.                                 *)
(***************************************************************************)
EXTENDS CoalescedRunner, TLC

CONSTANTS onEdit, onVisible, onRefresh, onInit

MCCaller == {onEdit, onVisible, onRefresh, onInit}

===========================================================================
