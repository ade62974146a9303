-------------------------------- MODULE MCCia --------------------------------
EXTENDS CiaPair

SomeControlA == {{}, {"START", "FLOAD"}, {"START", "ONESHOT"}}
SomeControlB == {{}, {"START"}, {"START", "INA"}}
SomeMasks == {{"TA", "FLG"}, {"TB"}}
=============================================================================
