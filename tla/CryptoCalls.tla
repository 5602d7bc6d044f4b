------------------------------ MODULE CryptoCalls ------------------------------
(***************************************************************************)
(* What callCrypto and workers (the exports of worker/workers.ts) promise  *)
(* to a program, whatever the workers do: the life of the promise of each  *)
(* call.  WorkerPool implements it (WorkerPool!Promises).                  *)
(***************************************************************************)
CONSTANT Calls

VARIABLE outcome

Waiting == {c \in Calls : outcome[c] = "waiting"}

Init == outcome = [c \in Calls |-> "unsent"]

\* A call is taken, or refused at once when nothing can run it.
Submit(c) ==
    /\ outcome[c] = "unsent"
    /\ outcome' \in {[outcome EXCEPT ![c] = "waiting"],
                     [outcome EXCEPT ![c] = "failed"]}

\* One waiting call is answered, or is the only one rejected for what it did: a
\* wasm trap or a time out costs no other call its answer.
Answer(c) ==
    /\ outcome[c] = "waiting"
    /\ \E o \in {"ok", "error", "crashed", "timeout"} :
            outcome' = [outcome EXCEPT ![c] = o]

\* A worker failed: some waiting calls are rejected together.
FailSome(S) == outcome' = [c \in Calls |-> IF c \in S THEN "failed" ELSE outcome[c]]

\* terminate and configure reject every waiting call, not only some of them.
Terminate ==
    outcome' = [c \in Calls |->
                    IF c \in Waiting THEN "terminated" ELSE outcome[c]]

Next ==
    \/ \E c \in Calls : Submit(c) \/ Answer(c)
    \/ \E S \in SUBSET Waiting : FailSome(S)
    \/ Terminate

Spec == Init /\ [][Next]_outcome

\* Every promise given to the program is kept in the end.
Kept == \A c \in Calls : (outcome[c] = "waiting") ~> (outcome[c] # "waiting")
===============================================================================
