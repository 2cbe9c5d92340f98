------------------------------- MODULE IPPool -------------------------------
(***************************************************************************)
(* The tunnel-address and peer-id allocator of src/ippool.go.              *)
(*                                                                         *)
(* An address is written as its offset from the pool's base, the form the  *)
(* allocator itself works in: offset 0 is the network address, 1 the       *)
(* server's own address, size-1 the broadcast address.  An offset below 0  *)
(* or at least size is an address outside Config.Network.  The two maps of *)
(* ipPool are sets, since an entry is only ever true or absent.  Every     *)
(* method runs under ipPool.mu and is one step.                            *)
(***************************************************************************)
EXTENDS Integers

CONSTANTS
    size,       \* number of addresses in the network, 2^(32-prefixlen)
    maxPeerID   \* the peer-id ceiling

\* newIPPool refuses a network with fewer than four addresses.
ASSUME PoolAssumption == size \in Nat /\ size >= 4 /\ maxPeerID \in Nat

VARIABLES
    usedIPs,     \* offsets in use
    usedPeerIDs  \* peer-ids in use

poolVars == <<usedIPs, usedPeerIDs>>

\* The offsets nextFreeOffset scans: for o := 2; o < size-1; o++.
HostOffsets == 2 .. size - 2

PeerIDs == 0 .. maxPeerID

\* What a successful allocate or reserve hands out.
Lease == [ip : HostOffsets, peer : PeerIDs]

newIPPool == usedIPs = {} /\ usedPeerIDs = {}

FreeOffsets == HostOffsets \ usedIPs

FreePeerIDs == PeerIDs \ usedPeerIDs

\* Mutant: an address is handed out whether or not it is in use.
nextFreeOffsetBlind(o) == o \in HostOffsets /\ \A q \in HostOffsets : o <= q

\* o is the first free host offset.
nextFreeOffset(o) == o \in FreeOffsets /\ \A q \in FreeOffsets : o <= q

\* p is the first free peer-id.
nextFreePeerID(p) == p \in FreePeerIDs /\ \A q \in FreePeerIDs : p <= q

\* Mark the pair l in use.
take(l) ==
    /\ usedIPs' = usedIPs \union {l.ip}
    /\ usedPeerIDs' = usedPeerIDs \union {l.peer}

\* allocate returns ErrPoolExhausted when either kind has run out.
exhausted == FreeOffsets = {} \/ FreePeerIDs = {}

\* allocate succeeds with the pair l.
allocate(l) ==
    /\ l \in Lease
    /\ nextFreeOffset(l.ip)
    /\ nextFreePeerID(l.peer)
    /\ take(l)

\* The checks reserve makes before it takes the lock, as one predicate: the
\* address is inside the network and is neither network, server nor broadcast.
reservable(ip) == 0 <= ip /\ ip < size /\ ip # 0 /\ ip # 1 /\ ip # size - 1

\* reserve(ip) returns errAssignIPInUse.
reserveInUse(ip) == reservable(ip) /\ ip \in usedIPs

\* reserve(ip) returns any other error: a validation error or exhaustion of
\* the peer-ids, which is only looked at once the address is known free.
reserveRefused(ip) ==
    \/ ~ reservable(ip)
    \/ ip \notin usedIPs /\ FreePeerIDs = {}

\* reserve(l.ip) succeeds and hands out the peer-id l.peer.
reserve(l) ==
    /\ l \in Lease
    /\ reservable(l.ip)
    /\ l.ip \notin usedIPs
    /\ nextFreePeerID(l.peer)
    /\ take(l)

\* release frees both halves; freeing what is free already is a no-op.
release(l) ==
    /\ usedIPs' = usedIPs \ {l.ip}
    /\ usedPeerIDs' = usedPeerIDs \ {l.peer}
=============================================================================
