-------------------------- MODULE MCControlChannel --------------------------
(* Instances of ControlChannel for TLC.                                    *)
EXTENDS ControlChannel

workload(client, server, closers) ==
    [chunks |-> [e \in Ends |-> IF e = "client" THEN client ELSE server], closers |-> closers]

\* A client that writes more than its window, and a server that answers.
ClientWrites == workload(3, 0, {"client"})
BothWrite == workload(2, 1, {})
ServerCloses == workload(1, 1, {"server"})
Traffic == {ClientWrites, BothWrite, ServerCloses}

\* The first, and nobody closes.
Unclosed == {workload(3, 0, {})}
=============================================================================
