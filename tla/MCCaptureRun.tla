---------------------------- MODULE MCCaptureRun ----------------------------
(* Values for TLC: one device in depth, or a batch of two.                  *)
EXTENDS CaptureRun

OneDevice == <<"d1">>
TwoDevices == <<"d1", "d2">>
OneHostCheck == <<"h1">>
TwoHostChecks == <<"h1", "h2">>
OneBmcCheck == <<"b1">>
=============================================================================
