------------------------------- MODULE MCVGA -------------------------------
(* VGA on a screen of three rows of two cells. *)
EXTENDS VGA

(* What the handler prints, longer than a row. *)
Message == <<"p", "q", "r">>
=============================================================================
