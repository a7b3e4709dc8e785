----------------------------- MODULE MCDirectMode -----------------------------
(***************************************************************************)
(* DirectMode on a small instance: two of the four features, and           *)
(* orientations whose differences leave the range of an angle.             *)
(***************************************************************************)
EXTENDS DirectMode

MCFeatures == <<"accel", "rotation">>
MCYaws == {-180, 90}
=============================================================================
