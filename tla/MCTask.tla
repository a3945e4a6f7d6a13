------------------------------- MODULE MCTask -------------------------------
(* An instance of Task for TLC: who is in which task and asks for what.     *)
EXTENDS Task

CONSTANTS ma, mb, mc, md, mx, reaper, tka, tkb

\* Two threads in each task, and a thread that is yet to be made.
MCThreads == {ma, mb, mc, md, mx, reaper}
MCTasks == {tka, tkb}
MCHome == [t \in MCThreads |->
            CASE t \in {ma, mb} -> tka
              [] t \in {mc, md} -> tkb
              [] OTHER -> NoTask]

\* The first task is suspended and terminated from inside and from outside.
TerminateAll == {<<ma, tka>>, <<ma, tkb>>}
SuspendA == {<<ma, tka>>, <<mc, tka>>}
TerminateA == {<<ma, tka>>, <<mc, tka>>, <<md, tka>>}
CreateInA == {<<ma, tka>>, <<mc, tka>>}

\* mc and md kill each other, or mc exits; no other task terminates theirs.
Kills == {<<ma, mb>>, <<mb, mb>>, <<mc, md>>, <<md, mc>>}
KillsOfFirst == {<<mb, ma>>}
JustC == {mc}
AorB == {ma, mb}
Nobody == {}
=============================================================================
