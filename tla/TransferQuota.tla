----------------------------- MODULE TransferQuota -----------------------------
(***************************************************************************)
(* The receiver's transfer quota (internal/drop/quota.go): a process-wide  *)
(* and a per-peer budget of concurrent receive attempts and reserved       *)
(* bytes.  Every receive attempt holds at most one lease, acquired after   *)
(* its metadata is validated and released by a deferred call on every      *)
(* return path.  Each operation runs under the quota's mutex, so it is one *)
(* action; the attempts themselves interleave freely.                      *)
(***************************************************************************)
EXTENDS Integers, FiniteSetsExt

CONSTANTS
    Peers,                  \* normalised peer keys (certificate fingerprints)
    Attempts,               \* receive attempts, each with at most one lease
    DeclaredSizes,          \* sizes a sender may declare; 0 means unknown
    ChunkLengths,           \* lengths of the chunks an attempt may receive
    DefaultChunkSize,
    MaxTransfers, MaxBytes, MaxPerPeerTransfers, MaxPerPeerBytes,
    MaxTransferQuotaBytes   \* the int64 ceiling of the byte counters

ASSUME QuotaConstants ==
    /\ IsFiniteSet(Attempts)
    /\ DeclaredSizes \subseteq Nat
    /\ ChunkLengths \subseteq Nat
    /\ DefaultChunkSize \in Nat
    /\ MaxTransfers \in Nat /\ MaxBytes \in Nat
    /\ MaxPerPeerTransfers \in Nat /\ MaxPerPeerBytes \in Nat
    /\ MaxTransferQuotaBytes \in Nat

VARIABLES
    activeTransfers,    \* q.activeTransfers
    activeBytes,        \* q.activeBytes
    entries,            \* keys present in the q.peers map
    usage,              \* q.peers[p], the zero usage when p is not a key
    lease               \* the lease each attempt holds, or NoLease

vars == <<activeTransfers, activeBytes, entries, usage, lease>>

ByteCount == 0 .. MaxTransferQuotaBytes     \* a non-negative int64
Usage == [transfers : Nat, bytes : ByteCount]
NoUsage == [transfers |-> 0, bytes |-> 0]

Lease == [peer : Peers, bytes : Nat, unknown : BOOLEAN]
NoLease == [released |-> TRUE]

Held == {a \in Attempts : lease[a] # NoLease}
HeldBy(p) == {a \in Held : lease[a].peer = p}

TypeOK ==
    /\ activeTransfers \in Nat
    /\ activeBytes \in ByteCount
    /\ entries \subseteq Peers
    /\ usage \in [Peers -> Usage]
    /\ lease \in [Attempts -> Lease \cup {NoLease}]

Init ==
    /\ activeTransfers = 0
    /\ activeBytes = 0
    /\ entries = {}
    /\ usage = [p \in Peers |-> NoUsage]
    /\ lease = [a \in Attempts |-> NoLease]

-----------------------------------------------------------------------------
(***************************************************************************)
(* A limit of zero is a disabled limit.                                    *)
(***************************************************************************)
Under_OffByOne(count, limit) == limit > 0 => count <= limit     \* mutant
Under(count, limit) == limit > 0 => count < limit
Fits(used, extra, limit) == limit > 0 => used <= limit /\ extra <= limit - used
NoOverflow(used, extra) == extra > 0 => used <= MaxTransferQuotaBytes - extra

CapAt(n, limit) == IF limit > 0 /\ n > limit THEN limit ELSE n

\* An unknown size reserves one chunk, never more than either byte limit.
Reservation(size) ==
    IF size = 0 THEN CapAt(CapAt(DefaultChunkSize, MaxBytes), MaxPerPeerBytes)
                ELSE size

Admits(p, n) ==
    /\ NoOverflow(activeBytes, n) /\ NoOverflow(usage[p].bytes, n)
    /\ Under(activeTransfers, MaxTransfers)
    /\ Under(usage[p].transfers, MaxPerPeerTransfers)
    /\ Fits(activeBytes, n, MaxBytes)
    /\ Fits(usage[p].bytes, n, MaxPerPeerBytes)

\* A refused Acquire changes nothing and the attempt ends without a lease.
Acquire(a, p, size) ==
    LET n == Reservation(size) IN
    /\ lease[a] = NoLease
    /\ Admits(p, n)
    /\ activeTransfers' = activeTransfers + 1
    /\ activeBytes' = activeBytes + n
    /\ usage' = [usage EXCEPT ![p] = [transfers |-> @.transfers + 1,
                                      bytes     |-> @.bytes + n]]
    /\ entries' = entries \cup {p}
    /\ lease' = [lease EXCEPT ![a] = [peer |-> p, bytes |-> n, unknown |-> size = 0]]

\* Only an unknown-size lease grows; a refused AddBytes ends the attempt.
AddBytes(a, n) ==
    LET p == lease[a].peer IN
    /\ lease[a] # NoLease
    /\ n > 0 /\ lease[a].unknown
    /\ NoOverflow(activeBytes, n) /\ NoOverflow(usage[p].bytes, n)
    /\ Fits(activeBytes, n, MaxBytes)
    /\ Fits(usage[p].bytes, n, MaxPerPeerBytes)
    /\ activeBytes' = activeBytes + n
    /\ usage' = [usage EXCEPT ![p].bytes = @ + n]
    /\ entries' = entries \cup {p}
    /\ lease' = [lease EXCEPT ![a].bytes = @ + n]
    /\ UNCHANGED activeTransfers

\* Mutant: the session counters of a Release that runs twice (no sync.Once).
Decrement_Twice(n) == IF n > 1 THEN n - 2 ELSE 0
Decrement(n) == IF n > 0 THEN n - 1 ELSE n
Subtract(m, n) == IF m >= n THEN m - n ELSE 0

\* Mutant: the lease gives back only what it reserved at Acquire, not what
\* AddBytes added since.
Release_InitialOnly(a) ==
    LET p    == lease[a].peer
        n    == IF lease[a].unknown THEN Reservation(0) ELSE lease[a].bytes
        left == [transfers |-> Decrement(usage[p].transfers),
                 bytes     |-> Subtract(usage[p].bytes, n)]
    IN
    /\ lease[a] # NoLease
    /\ activeTransfers' = Decrement(activeTransfers)
    /\ activeBytes' = Subtract(activeBytes, n)
    /\ usage' = [usage EXCEPT ![p] = left]
    /\ entries' = IF left = NoUsage THEN entries \ {p} ELSE entries \cup {p}
    /\ lease' = [lease EXCEPT ![a] = NoLease]

Release(a) ==
    LET p    == lease[a].peer
        n    == lease[a].bytes
        left == [transfers |-> Decrement(usage[p].transfers),
                 bytes     |-> Subtract(usage[p].bytes, n)]
    IN
    /\ lease[a] # NoLease
    /\ activeTransfers' = Decrement(activeTransfers)
    /\ activeBytes' = Subtract(activeBytes, n)
    /\ usage' = [usage EXCEPT ![p] = left]
    /\ entries' = IF left = NoUsage THEN entries \ {p} ELSE entries \cup {p}
    /\ lease' = [lease EXCEPT ![a] = NoLease]

Next ==
    \E a \in Attempts :
        \/ \E p \in Peers, size \in DeclaredSizes : Acquire(a, p, size)
        \/ \E n \in ChunkLengths : AddBytes(a, n)
        \/ Release(a)

Spec == Init /\ [][Next]_vars

-----------------------------------------------------------------------------
(***************************************************************************)
(* Properties.                                                             *)
(***************************************************************************)

\* However acquisitions, growth and releases interleave, no enabled limit is
\* ever exceeded: neither the process-wide nor any per-peer budget (Acquire
\* and AddBytes check under the lock before they add).
WithinLimits ==
    /\ MaxTransfers > 0 => activeTransfers <= MaxTransfers
    /\ MaxBytes > 0 => activeBytes <= MaxBytes
    /\ \A p \in Peers :
        /\ MaxPerPeerTransfers > 0 => usage[p].transfers <= MaxPerPeerTransfers
        /\ MaxPerPeerBytes > 0 => usage[p].bytes <= MaxPerPeerBytes

\* The session counters are exactly the leases still held, process-wide and
\* per peer, so Release's clamp at zero never hides a lost or double release.
SessionsAccounted ==
    /\ activeTransfers = Cardinality(Held)
    /\ \A p \in Peers : usage[p].transfers = Cardinality(HeldBy(p))

\* The byte counters are exactly the bytes of the leases still held, and the
\* peers map keeps a key only while that peer holds a lease: an unknown-size
\* stream that grew and then ended gives back all it took.  (With the types:
\* no counter leaves its 64 bits.)
BytesAccounted ==
    LET Bytes(a) == lease[a].bytes IN
    /\ TypeOK
    /\ activeBytes = MapThenSumSet(Bytes, Held)
    /\ \A p \in Peers :
        /\ usage[p].bytes = MapThenSumSet(Bytes, HeldBy(p))
        /\ p \in entries <=> HeldBy(p) # {}
=============================================================================
