---------------------------- MODULE MCRunObserver ----------------------------
(***************************************************************************)
(* Instances of RunObserver for TLC.                                       *)
(***************************************************************************)
EXTENDS RunObserverClaims, TLC

Plain(kind) == [kind |-> kind, worker |-> NoWorker, depth |-> 0]
Start(w, d) == [kind |-> "start", worker |-> w, depth |-> d]
Finish(w) == [kind |-> "finish", worker |-> w, depth |-> 0]

\* A provider that delegates nothing.
SoloRepertoire == {Plain("message"), Plain("completed"), Plain("failed")}

\* A provider that says nothing but that it is done.
TerseRepertoire == {Plain("completed")}

\* A provider whose workers start, start too deep, finish, and finish twice.
TeamRepertoire ==
    {Plain("completed")} \cup {Finish(w) : w \in Workers}
    \cup {Start(w, d) : w \in Workers, d \in {1, 2}}

\* A provider that reports its failure and starts a worker too deep after it.
UnrulyRepertoire == {Plain("failed")} \cup {Start(w, 2) : w \in Workers}

WorkerSymmetry == Permutations(Workers)
=============================================================================
