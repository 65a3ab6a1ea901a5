---------------------------- MODULE MCExposition -----------------------------
(***************************************************************************)
(* The value of module Exposition's constant that is a sequence.           *)
(***************************************************************************)
EXTENDS Exposition

MCBounds == <<1, 2>>
=============================================================================
