-------------------------- MODULE ControlContracts --------------------------
(***************************************************************************)
(* A claim the repository makes of the control channel and the code does   *)
(* not keep.                                                               *)
(***************************************************************************)
EXTENDS MCControlChannel

\* A network that delivers what it does not lose, to both ends.
DeliveringSpec ==
    /\ FairSpec
    /\ \A e \in Ends : WF_vars(\E d \in net : d.from = e /\ Keeping(Receive(d)))

\* A lost datagram is recovered by the reliability layer's retransmission
\* (ovpn.go:380-383, 1158-1161): whatever the network loses, every chunk is
\* delivered in the end.
LossRecovered ==
    \A e \in Ends : <>(Len(readBuf[Peer(e)]) = load.chunks[e])
=============================================================================
