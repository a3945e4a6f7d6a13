---------------------------- MODULE MCMsgQueue ----------------------------
\* A small instance of MsgQueue.
EXTENDS MsgQueue

CONSTANTS t1, t2, t3, p1, p2, s1, m1, m2, m3

Send(t, m, p, option, reply) ==
    [thread |-> t, msg |-> m, port |-> p, option |-> option, reply |-> reply]
Receive(t, q, large, timeout) ==
    [thread |-> t, from |-> q, large |-> large, timeout |-> timeout]

\* Two ports of one set: senders that wait, for a time or not, messages over
\* the backlog, a receiver with a small buffer and a timeout.
SetSends == {Send(t1, m1, p1, {"NOTIFY"}, Nil), Send(t1, m2, p1, {"TIMEOUT"}, Nil),
             Send(t2, m2, p1, {}, Nil), Send(t2, m3, p2, {}, Nil)}
SetReceives == {Receive(t3, p1, TRUE, "none"), Receive(t3, s1, TRUE, "none"), Receive(t2, s1, FALSE, "some")}
SetJoins == {p1, p2} \X {s1}

\* One port that dies.
DeathSends == {Send(t1, m1, p1, {"NOTIFY"}, Nil), Send(t1, m2, p1, {}, Nil),
               Send(t1, m3, p1, {"NOTIFY"}, Nil), Send(t2, m2, p1, {}, p1), Send(t2, m3, p1, {}, Nil)}
DeathReceives == {Receive(t3, p1, TRUE, "none")}
DeathReplies == {<<t2, m3, p1>>}
Larger == {<<p1, 2>>}

\* A sender with a timeout at a port that dies; it receives from another.
TimedSends == {Send(t1, m1, p1, {}, Nil), Send(t2, m2, p1, {"TIMEOUT"}, Nil)}
OtherReceives == {Receive(t2, p2, TRUE, "none")}
===========================================================================
