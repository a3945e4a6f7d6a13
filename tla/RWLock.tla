------------------------------- MODULE RWLock -------------------------------
(***************************************************************************)
(* What kern/lock.c promises its callers: a reader/writer lock that can be *)
(* upgraded and downgraded in place, in which a writer that has claimed    *)
(* the lock keeps new readers out and an upgrade under way keeps everybody *)
(* out.  Nested holds of a recursive owner do not show.                    *)
(***************************************************************************)
CONSTANT Threads

VARIABLES
  mode,      \* what each thread holds
  claimed,   \* the thread that waits for readers to write
  upgrading  \* the thread that waits for readers to upgrade

vars == <<mode, claimed, upgrading>>

Init ==
  /\ mode = [t \in Threads |-> "none"]
  /\ claimed = {}
  /\ upgrading = {}

Holds(t, m) == mode' = [mode EXCEPT ![t] = m]

OthersGone(t) == \A u \in Threads \ {t} : mode[u] = "none"

NoWriter == \A u \in Threads : mode[u] \notin {"write", "upgrade"}

Read(t) ==
  /\ mode[t] = "none" /\ NoWriter
  /\ claimed = {} /\ upgrading = {}
  /\ Holds(t, "read")
  /\ UNCHANGED <<claimed, upgrading>>

\* An upgraded hold does not stop a writer from claiming the lock.
Claim(t) ==
  /\ mode[t] = "none" /\ claimed = {}
  /\ \A u \in Threads : mode[u] # "write"
  /\ claimed' = {t}
  /\ UNCHANGED <<mode, upgrading>>

\* Write and Upgrade are also taken by a thread that finds the lock free.
Write(t) ==
  /\ mode[t] = "none" /\ OthersGone(t)
  /\ claimed \subseteq {t} /\ upgrading = {}
  /\ claimed' = {}
  /\ Holds(t, "write")
  /\ UNCHANGED upgrading

\* The read hold is given up for the promise that nobody writes before.
StartUpgrade(t) ==
  /\ mode[t] = "read" /\ upgrading = {}
  /\ upgrading' = {t}
  /\ Holds(t, "none")
  /\ UNCHANGED claimed

Upgrade(t) ==
  /\ (mode[t] = "read" /\ upgrading = {}) \/ upgrading = {t}
  /\ OthersGone(t)
  /\ upgrading' = {}
  /\ Holds(t, "upgrade")
  /\ UNCHANGED claimed

LoseUpgrade(t) ==
  /\ mode[t] = "read" /\ upgrading # {}
  /\ Holds(t, "none")
  /\ UNCHANGED <<claimed, upgrading>>

Downgrade(t) ==
  /\ mode[t] \in {"write", "upgrade"}
  /\ Holds(t, "read")
  /\ UNCHANGED <<claimed, upgrading>>

Release(t) ==
  /\ mode[t] # "none"
  /\ Holds(t, "none")
  /\ UNCHANGED <<claimed, upgrading>>

Next ==
  \E t \in Threads :
    \/ Read(t) \/ Claim(t) \/ Write(t)
    \/ StartUpgrade(t) \/ Upgrade(t) \/ LoseUpgrade(t)
    \/ Downgrade(t) \/ Release(t)

Spec == Init /\ [][Next]_vars
=============================================================================
