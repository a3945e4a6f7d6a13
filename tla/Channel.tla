------------------------------ MODULE Channel ------------------------------
(***************************************************************************)
(* What a port promises its users, without queues, sets, blocking and      *)
(* locks: the messages accepted for a port are received once each, in the  *)
(* order in which they were accepted, and none is lost while the port is   *)
(* in use.  MsgQueue implements it.                                        *)
(***************************************************************************)
EXTENDS Sequences, SequencesExt

CONSTANTS Ports, Msgs

VARIABLES
    chan,       \* per port, the messages accepted and not yet received
    alive,      \* the ports in use
    received,   \* the messages received
    dropped     \* the messages that ports took with them when they died

vars == <<chan, alive, received, dropped>>

Init ==
    /\ chan = [p \in Ports |-> <<>>]
    /\ alive = Ports
    /\ received = {}
    /\ dropped = {}

Fresh(m) ==
    /\ m \notin received \cup dropped
    /\ \A p \in Ports : m \notin ToSet(chan[p])

Accept(m, p) ==
    /\ Fresh(m)
    /\ p \in alive
    /\ chan' = [chan EXCEPT ![p] = Append(@, m)]
    /\ UNCHANGED <<alive, received, dropped>>

\* Several receivers may be served at once, when a port joins a set.
Receive(n, p) ==
    /\ received' = received \cup ToSet(SubSeq(chan[p], 1, n))
    /\ chan' = [chan EXCEPT ![p] = SubSeq(@, n + 1, Len(@))]
    /\ UNCHANGED <<alive, dropped>>

\* A reply that goes to the waiting caller at once: nothing may be before it.
Pass(m, p) ==
    /\ Fresh(m)
    /\ p \in alive
    /\ chan[p] = <<>>
    /\ received' = received \cup {m}
    /\ UNCHANGED <<chan, alive, dropped>>

Die(p) ==
    /\ alive' = alive \ {p}
    /\ UNCHANGED <<chan, received, dropped>>

Drop(p) ==
    /\ p \notin alive
    /\ chan[p] # <<>>
    /\ dropped' = dropped \cup {Head(chan[p])}
    /\ chan' = [chan EXCEPT ![p] = Tail(@)]
    /\ UNCHANGED <<alive, received>>

Next ==
    \E p \in Ports :
        \/ \E m \in Msgs : Accept(m, p) \/ Pass(m, p)
        \/ \E n \in 1 .. Len(chan[p]) : Receive(n, p)
        \/ Die(p)
        \/ Drop(p)

Spec == Init /\ [][Next]_vars

=============================================================================
