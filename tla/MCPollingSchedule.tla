------------------------- MODULE MCPollingSchedule -------------------------
EXTENDS PollingSchedule

Obs(s, i) == [semantic |-> s, interval |-> i]
MCProfiles == {<<>>, <<Obs(2, 10), Obs(1, 5)>>, <<Obs(1, 5), Obs(1, 10)>>, <<Obs(1, 2)>>, <<Obs(3, 0)>>}
=============================================================================
