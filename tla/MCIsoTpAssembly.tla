-------------------------- MODULE MCIsoTpAssembly --------------------------
(***************************************************************************)
(* Three ECUs: one whose answer takes so many frames that the sequence     *)
(* number wraps, one whose answer ends in a half filled frame, and one     *)
(* that answers in a single frame.  Any two of them answer at once.        *)
(***************************************************************************)
EXTENDS IsoTpAssembly
CONSTANTS engine, gearbox, brakes

\* 43 occurs within the data, where the search for it must not begin.
MCBody == (engine  :> [i \in 1..116 |-> IF i = 9 THEN 67 ELSE i])
       @@ (gearbox :> <<1, 12, 67, 13, 2, 14, 3, 15, 4, 17, 5, 18, 6, 19>>)
       @@ (brakes  :> <<4, 16>>)

MCAnswering == kSubset(2, Ecus)
=============================================================================
