---------------------------- MODULE MCEsp32Input ----------------------------
EXTENDS Esp32Input, TLC

CONSTANT a

MCColumnOf == a :> 0
=============================================================================
