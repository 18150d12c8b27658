-------------------------------- MODULE Slots --------------------------------
(***************************************************************************)
(* The state of whichever service a behaviour is of: the services share    *)
(* these variables because no behaviour has two of them.                   *)
(***************************************************************************)
VARIABLES s1, s2, s3, s4, s5, s6, s7, s8, s9, s10, s11, s12

slots == <<s1, s2, s3, s4, s5, s6, s7, s8, s9, s10, s11, s12>>
==============================================================================
