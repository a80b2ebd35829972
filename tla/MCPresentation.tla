--------------------------- MODULE MCPresentation ---------------------------
(***************************************************************************)
(* Model-checking instance of Presentation, for every configuration of the *)
(* display; the bounds are in the cfg files.                               *)
(***************************************************************************)
EXTENDS Presentation

AllModes == [display : {"WINDOW"}, console_control : {FALSE}]
                \cup [display : {"CONSOLE"}, console_control : BOOLEAN]
=============================================================================
