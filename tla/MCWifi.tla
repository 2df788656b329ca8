--------------------------------- MODULE MCWifi ---------------------------------
EXTENDS Wifi

MCStrongest == <<0, 1, 2, 3>>
===============================================================================
