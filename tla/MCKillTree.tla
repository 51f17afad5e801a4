----------------------------- MODULE MCKillTree -----------------------------
(* Small machines for KillTree.                                            *)
EXTENDS KillTree

CONSTANTS supervisor, worker, watchdog, client

Process(parent, name, shield, canStop) ==
    [parent |-> parent, name |-> name, shield |-> shield, canStop |-> canStop]

PoolPids == {supervisor, worker, watchdog, client}

\* A supervisor that may be overridden and offers a stop channel respawns two
\* workers; the watchdog was started below one of them.
Pool == [p \in PoolPids |->
    CASE p = supervisor -> Process(NoPid, "killable", "role", TRUE)
      [] p = worker     -> Process(supervisor, "killable", "none", FALSE)
      [] p = watchdog   -> Process(worker, "killable", "none", FALSE)
      [] p = client     -> Process(supervisor, "killable", "none", FALSE)]

\* The same pool, and the second worker is a client that refuses every kill.
PoolWithRefusal ==
    [Pool EXCEPT ![client] = Process(supervisor, "killable", "never_kill", FALSE)]

Service == {Process(NoPid, "never", "none", FALSE)}
=============================================================================
