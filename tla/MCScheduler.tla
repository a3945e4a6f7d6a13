---------------------------- MODULE MCScheduler ----------------------------
(* Instances of Scheduler for TLC: who does what in each run.              *)
EXTENDS Scheduler

CONSTANTS t1, t2, t3, p1, p2, e1, e2

MCThreads == {t1, t2, t3}
TwoThreads == {t1, t2}
MCProcessors == {p1, p2}
MCEvents == {e1, e2}
OneEvent == {e1}
Nobody == {}

WaitT1 == {t1} \X {e1} \X BOOLEAN
WaitMixed == WaitT1 \cup {<<t2, e1, TRUE>>, <<t1, e2, FALSE>>}
WaitForNothing == {<<t1, NoEvent, TRUE>>}
T2StopsT1 == {<<t2, t1>>}
BothStopT1 == {<<t2, t1>>, <<t3, t1>>}
T3StopsT1 == {<<t3, t1>>}
AbortEachOther == {<<t2, t1>>, <<t1, t2>>}
SuspendOthersOrSelf == {<<t2, t1>>, <<t3, t3>>}
SwapT1 == {t1}
SwapT1T3 == {t1, t3}
T2PinsT3 == {<<t2, t3>>}
=============================================================================
