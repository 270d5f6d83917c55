------------------------------ MODULE MCLivox1 ------------------------------
(* An instance of Livox1 for TLC: two configurations that differ in every    *)
(* setting, and one the model of device does not support.                    *)
EXTENDS Livox1

Config(format, mode) ==
  [lvxCoordinate |-> format, lvxReturnMode |-> format, lvxWorkMode |-> mode,
   lvxSampling |-> 1]

ReturnModeOnly == <<"lvxReturnMode">>
TripleReturn == {Config(3, 1)}
TwoModes == {Config(0, 1), Config(1, 2)} \cup TripleReturn
PowerSaving == {Config(1, 2)}
Numbers == 1 .. 14
=============================================================================
