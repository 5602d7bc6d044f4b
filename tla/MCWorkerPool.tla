----------------------------- MODULE MCWorkerPool -----------------------------
(* Instances of WorkerPool for TLC.                                            *)
EXTENDS WorkerPool, TLC, FiniteSets

MCInitial == [size |-> 2, mode |-> "auto", timeout |-> "finite",
              idleTimeout |-> "finite"]

\* A pool of one worker.
MCSingle == [MCInitial EXCEPT !.size = 1]

Unchanged == [size |-> Undefined, mode |-> Undefined, timeout |-> Undefined,
              idleTimeout |-> Undefined]

\* Every mode, a size that is not valid, and a pool of one worker, with its timers
\* and without.
MCOptions == {[Unchanged EXCEPT !.mode = m] : m \in Modes}
             \cup {[Unchanged EXCEPT !.size = 0, !.mode = "inline"],
                   [Unchanged EXCEPT !.size = 1],
                   [Unchanged EXCEPT !.size = 1, !.timeout = "infinite",
                                     !.idleTimeout = "infinite"]}

MCNoOptions == {}

\* The time out is taken away at some moment.
MCTimeouts == {[Unchanged EXCEPT !.timeout = "infinite"]}

MCSymmetry == Permutations(Calls) \cup Permutations(Handles)
===============================================================================
