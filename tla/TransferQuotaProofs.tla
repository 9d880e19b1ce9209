-------------------------- MODULE TransferQuotaProofs --------------------------
(***************************************************************************)
(* TransferQuota for every number of peers and attempts and every policy:  *)
(* the counters keep their width, no limit is exceeded, the session        *)
(* counters count exactly the leases held and the byte counters add up     *)
(* exactly what those leases reserved.                                     *)
(*                                                                         *)
(* The byte counters are sums over a set, which the community modules      *)
(* define by recursion on its subsets.  That the recursive function exists *)
(* and adds every member once is proved here by well-founded induction, on *)
(* a set of numbers for each of the inductions.                            *)
(***************************************************************************)
EXTENDS TransferQuota, FiniteSetTheorems, WellFoundedInduction, TLAPS

\* An unknown-size reservation is a natural number whatever the limits.
LEMMA ReservationNat == \A size \in DeclaredSizes : Reservation(size) \in Nat
  BY QuotaConstants DEF Reservation, CapAt

\* A lease is a record with a peer, the released marker has none.
LEMMA LeaseNotReleased == \A l \in Lease : l # NoLease
  BY DEF Lease, NoLease

\* A quota without leases has well-formed counters.
LEMMA TypeInitially == Init => TypeOK
  BY QuotaConstants DEF Init, TypeOK, Usage, NoUsage, ByteCount

\* Every operation of the quota keeps its counters and leases well formed: a sum
\* above the int64 range is refused (quota.go:119, 156).
LEMMA TypeKept == TypeOK /\ [Next]_vars => TypeOK'
<1> SUFFICES ASSUME TypeOK, [Next]_vars PROVE TypeOK'
  OBVIOUS
<1> USE DEF TypeOK
<1>1. ASSUME NEW a \in Attempts, NEW p \in Peers, NEW size \in DeclaredSizes,
             Acquire(a, p, size)
      PROVE TypeOK'
  <2> DEFINE n == Reservation(size)
  <2>1. n \in Nat
    BY ReservationNat
  <2>2. activeBytes + n \in ByteCount /\ usage[p].bytes + n \in ByteCount
    BY <1>1, <2>1, QuotaConstants DEF Acquire, Admits, NoOverflow, ByteCount, Usage
  <2> HIDE DEF n
  <2>4. usage' \in [Peers -> Usage]
    BY <1>1, <2>2 DEF Acquire, Usage, n
  <2>5. lease' \in [Attempts -> Lease \cup {NoLease}]
    BY <1>1, <2>1 DEF Acquire, Lease, n
  <2> QED
    BY <1>1, <2>2, <2>4, <2>5 DEF Acquire, n
<1>2. ASSUME NEW a \in Attempts, NEW k \in ChunkLengths, AddBytes(a, k)
      PROVE TypeOK'
  <2> DEFINE p == lease[a].peer
  <2>1. lease[a] \in Lease /\ p \in Peers /\ k \in Nat
    BY <1>2, QuotaConstants DEF AddBytes, Lease
  <2>2. /\ k > 0 /\ NoOverflow(activeBytes, k) /\ NoOverflow(usage[p].bytes, k)
        /\ activeBytes' = activeBytes + k
        /\ usage' = [usage EXCEPT ![p].bytes = @ + k]
        /\ entries' = entries \cup {p}
        /\ lease' = [lease EXCEPT ![a].bytes = @ + k]
        /\ activeTransfers' = activeTransfers
    BY <1>2 DEF AddBytes
  <2>3. usage[p] \in Usage /\ usage[p].bytes \in ByteCount
    BY <2>1 DEF Usage
  <2> HIDE DEF p
  <2>4. activeBytes + k \in ByteCount /\ usage[p].bytes + k \in ByteCount
    BY <2>1, <2>2, <2>3, QuotaConstants DEF NoOverflow, ByteCount
  <2>5. usage' \in [Peers -> Usage]
    BY <2>1, <2>2, <2>3, <2>4 DEF Usage
  <2>6. lease' \in [Attempts -> Lease \cup {NoLease}]
    BY <2>1, <2>2 DEF Lease
  <2> QED
    BY <2>1, <2>2, <2>4, <2>5, <2>6
<1>3. ASSUME NEW a \in Attempts, Release(a)
      PROVE TypeOK'
  <2>1. lease[a] \in Lease /\ lease[a].peer \in Peers
    BY <1>3 DEF Release, Lease
  <2> DEFINE p == lease[a].peer
             left == [transfers |-> Decrement(usage[p].transfers),
                      bytes     |-> Subtract(usage[p].bytes, lease[a].bytes)]
  <2>2. left \in Usage
    BY <2>1, QuotaConstants DEF Usage, Lease, Decrement, Subtract, ByteCount
  <2>3. Subtract(activeBytes, lease[a].bytes) \in ByteCount
    BY <2>1, QuotaConstants DEF Lease, Subtract, ByteCount
  <2>4. usage' = [usage EXCEPT ![p] = left]
    BY <1>3 DEF Release
  <2>5. entries' \subseteq Peers
    BY <1>3, <2>1 DEF Release
  <2>6. Decrement(activeTransfers) \in Nat
    BY DEF Decrement
  <2>7. lease' \in [Attempts -> Lease \cup {NoLease}]
    BY <1>3 DEF Release
  <2>8. activeTransfers' \in Nat /\ activeBytes' \in ByteCount
    BY <1>3, <2>3, <2>6 DEF Release
  <2> HIDE DEF left, p
  <2>9. usage' \in [Peers -> Usage]
    BY <2>2, <2>4
  <2> QED
    BY <2>5, <2>7, <2>8, <2>9
<1>4. CASE UNCHANGED vars
  BY <1>4 DEF vars
<1> QED
  BY <1>1, <1>2, <1>3, <1>4 DEF Next

\* The counters keep their types: a byte counter never leaves the int64 range,
\* because Acquire and AddBytes refuse a sum above it (quota.go:119, 156).
THEOREM TypeCorrect == Spec => []TypeOK
  BY TypeInitially, TypeKept, PTL DEF Spec
-----------------------------------------------------------------------------
\* An empty quota is within every limit.
LEMMA LimitsInitially == Init => WithinLimits
  BY QuotaConstants DEF Init, WithinLimits, NoUsage

\* Acquire and AddBytes check what they add, under the lock; Release only lowers.
LEMMA LimitsKept == TypeOK /\ WithinLimits /\ [Next]_vars => WithinLimits'
<1> SUFFICES ASSUME TypeOK, WithinLimits, [Next]_vars PROVE WithinLimits'
  OBVIOUS
<1>1. ASSUME NEW a \in Attempts, NEW p \in Peers, NEW size \in DeclaredSizes,
             Acquire(a, p, size)
      PROVE WithinLimits'
  <2> DEFINE n == Reservation(size)
  <2>1. n \in Nat /\ activeBytes \in Nat /\ activeTransfers \in Nat
    BY ReservationNat DEF TypeOK, ByteCount
  <2>2. \A q \in Peers : usage[q] \in Usage /\ usage[q].bytes \in Nat /\ usage[q].transfers \in Nat
    BY DEF TypeOK, Usage, ByteCount
  <2>3. /\ Under(activeTransfers, MaxTransfers) /\ Under(usage[p].transfers, MaxPerPeerTransfers)
        /\ Fits(activeBytes, n, MaxBytes) /\ Fits(usage[p].bytes, n, MaxPerPeerBytes)
        /\ activeTransfers' = activeTransfers + 1
        /\ activeBytes' = activeBytes + n
        /\ usage' = [usage EXCEPT ![p] = [transfers |-> @.transfers + 1, bytes |-> @.bytes + n]]
    BY <1>1 DEF Acquire, Admits
  <2> HIDE DEF n
  <2>4. usage'[p] = [transfers |-> usage[p].transfers + 1, bytes |-> usage[p].bytes + n]
    BY <2>3 DEF TypeOK
  <2>5. \A q \in Peers : q # p => usage'[q] = usage[q]
    BY <2>3 DEF TypeOK
  <2>6. /\ MaxPerPeerTransfers > 0 => usage'[p].transfers <= MaxPerPeerTransfers
        /\ MaxPerPeerBytes > 0 => usage'[p].bytes <= MaxPerPeerBytes
    BY <2>1, <2>2, <2>3, <2>4, QuotaConstants DEF Under, Fits
  <2>7. /\ MaxTransfers > 0 => activeTransfers' <= MaxTransfers
        /\ MaxBytes > 0 => activeBytes' <= MaxBytes
    BY <2>1, <2>3, QuotaConstants DEF Under, Fits
  <2> QED
    BY <2>5, <2>6, <2>7 DEF WithinLimits
<1>2. ASSUME NEW a \in Attempts, NEW k \in ChunkLengths, AddBytes(a, k)
      PROVE WithinLimits'
  <2> DEFINE p == lease[a].peer
  <2>1. p \in Peers /\ k \in Nat /\ activeBytes \in Nat
    BY <1>2, QuotaConstants DEF TypeOK, AddBytes, Lease, ByteCount
  <2>2. \A q \in Peers : usage[q] \in Usage /\ usage[q].bytes \in Nat /\ usage[q].transfers \in Nat
    BY DEF TypeOK, Usage, ByteCount
  <2>3. /\ Fits(activeBytes, k, MaxBytes) /\ Fits(usage[p].bytes, k, MaxPerPeerBytes)
        /\ activeTransfers' = activeTransfers
        /\ activeBytes' = activeBytes + k
        /\ usage' = [usage EXCEPT ![p].bytes = @ + k]
    BY <1>2 DEF AddBytes
  <2> HIDE DEF p
  <2>4. usage'[p].bytes = usage[p].bytes + k /\ usage'[p].transfers = usage[p].transfers
    BY <2>1, <2>2, <2>3 DEF TypeOK, Usage
  <2>5. \A q \in Peers : q # p => usage'[q] = usage[q]
    BY <2>3 DEF TypeOK
  <2>6. MaxPerPeerBytes > 0 => usage'[p].bytes <= MaxPerPeerBytes
    BY <2>1, <2>2, <2>3, <2>4, QuotaConstants DEF Fits
  <2>7. MaxBytes > 0 => activeBytes' <= MaxBytes
    BY <2>1, <2>3, QuotaConstants DEF Fits
  <2> QED
    BY <2>1, <2>3, <2>4, <2>5, <2>6, <2>7 DEF WithinLimits
<1>3. ASSUME NEW a \in Attempts, Release(a)
      PROVE WithinLimits'
  <2> DEFINE p == lease[a].peer
             left == [transfers |-> Decrement(usage[p].transfers),
                      bytes     |-> Subtract(usage[p].bytes, lease[a].bytes)]
  <2>1. p \in Peers /\ lease[a].bytes \in Nat /\ activeBytes \in Nat /\ activeTransfers \in Nat
    BY <1>3 DEF TypeOK, Release, Lease, ByteCount
  <2>2. usage[p].bytes \in Nat /\ usage[p].transfers \in Nat
    BY <2>1 DEF TypeOK, Usage, ByteCount
  <2>3. /\ activeTransfers' = Decrement(activeTransfers)
        /\ activeBytes' = Subtract(activeBytes, lease[a].bytes)
        /\ usage' = [usage EXCEPT ![p] = left]
    BY <1>3 DEF Release
  <2>4. left.transfers <= usage[p].transfers /\ left.bytes <= usage[p].bytes
        /\ left.transfers \in Nat /\ left.bytes \in Nat
    BY <2>1, <2>2 DEF Decrement, Subtract
  <2>5. activeTransfers' <= activeTransfers /\ activeBytes' <= activeBytes
        /\ activeTransfers' \in Nat /\ activeBytes' \in Nat
    BY <2>1, <2>3 DEF Decrement, Subtract
  <2> HIDE DEF left, p
  <2>6. usage'[p] = left /\ \A q \in Peers : q # p => usage'[q] = usage[q]
    BY <2>1, <2>3 DEF TypeOK
  <2>7. /\ MaxPerPeerTransfers > 0 => left.transfers <= MaxPerPeerTransfers
        /\ MaxPerPeerBytes > 0 => left.bytes <= MaxPerPeerBytes
    BY <2>1, <2>2, <2>4, QuotaConstants DEF WithinLimits
  <2>8. /\ MaxTransfers > 0 => activeTransfers' <= MaxTransfers
        /\ MaxBytes > 0 => activeBytes' <= MaxBytes
    BY <2>1, <2>5, QuotaConstants DEF WithinLimits
  <2> QED
    BY <2>6, <2>7, <2>8 DEF WithinLimits
<1>4. CASE UNCHANGED vars
  BY <1>4 DEF vars, WithinLimits
<1> QED
  BY <1>1, <1>2, <1>3, <1>4 DEF Next

\* No enabled limit is ever exceeded, process-wide or for any peer, for every
\* policy and every number of concurrent attempts (quota.go:119-133, 156-164).
THEOREM LimitsHold == Spec => []WithinLimits
  BY LimitsInitially, LimitsKept, TypeCorrect, PTL DEF Spec
-----------------------------------------------------------------------------
\* The sets of held leases are finite.
LEMMA HeldFinite == IsFiniteSet(Held) /\ \A p \in Peers : IsFiniteSet(HeldBy(p))
<1>1. Held \subseteq Attempts /\ \A p \in Peers : HeldBy(p) \subseteq Attempts
  BY DEF Held, HeldBy
<1> QED
  BY <1>1, QuotaConstants, FS_Subset

\* A set with an element has a positive cardinality, and removing the element
\* lowers it by one.
LEMMA RemoveOne ==
  ASSUME NEW S, IsFiniteSet(S), NEW x \in S
  PROVE  Cardinality(S) \in Nat /\ Cardinality(S) > 0 /\ Cardinality(S \ {x}) = Cardinality(S) - 1
  BY FS_CardinalityType, FS_RemoveElement, FS_EmptySet

\* Without leases the session counters are zero.
LEMMA SessionsInitially == Init => SessionsAccounted
<1> SUFFICES ASSUME Init PROVE SessionsAccounted
  OBVIOUS
<1>1. Held = {} /\ \A p \in Peers : HeldBy(p) = {}
  BY DEF Init, Held, HeldBy
<1> QED
  BY <1>1, FS_EmptySet DEF Init, SessionsAccounted, NoUsage

\* Every operation changes the session counters with the leases held: each lease
\* is counted once and given back once (quota.go:112, 172).
LEMMA SessionsKept == TypeOK /\ SessionsAccounted /\ [Next]_vars => SessionsAccounted'
<1> SUFFICES ASSUME TypeOK, SessionsAccounted, [Next]_vars PROVE SessionsAccounted'
  OBVIOUS
<1>1. ASSUME NEW a \in Attempts, NEW p \in Peers, NEW size \in DeclaredSizes,
             Acquire(a, p, size)
      PROVE SessionsAccounted'
  <2> DEFINE new == [peer |-> p, bytes |-> Reservation(size), unknown |-> size = 0]
  <2>1. new # NoLease /\ new.peer = p
    BY DEF NoLease
  <2>2. lease' = [lease EXCEPT ![a] = new] /\ lease[a] = NoLease
    BY <1>1 DEF Acquire
  <2> HIDE DEF new
  <2>3. a \notin Held /\ Held' = Held \cup {a}
    BY <2>1, <2>2 DEF Held, TypeOK
  <2>4. a \notin HeldBy(p) /\ HeldBy(p)' = HeldBy(p) \cup {a}
    BY <2>1, <2>2, <2>3 DEF HeldBy, TypeOK, Held
  <2>5. \A q \in Peers : q # p => HeldBy(q)' = HeldBy(q)
    BY <2>1, <2>2, <2>3 DEF HeldBy, TypeOK, Held
  <2>6. Cardinality(Held') = Cardinality(Held) + 1
    BY <2>3, HeldFinite, FS_AddElement
  <2>7. Cardinality(HeldBy(p)') = Cardinality(HeldBy(p)) + 1
    BY <2>4, HeldFinite, FS_AddElement
  <2>8. /\ activeTransfers' = activeTransfers + 1
        /\ usage'[p].transfers = usage[p].transfers + 1
        /\ \A q \in Peers : q # p => usage'[q] = usage[q]
    BY <1>1 DEF Acquire, TypeOK
  <2> QED
    BY <2>5, <2>6, <2>7, <2>8 DEF SessionsAccounted
<1>2. ASSUME NEW a \in Attempts, NEW k \in ChunkLengths, AddBytes(a, k)
      PROVE SessionsAccounted'
  <2>1. lease[a] \in Lease /\ lease' = [lease EXCEPT ![a].bytes = @ + k]
    BY <1>2 DEF AddBytes, TypeOK
  <2>2. lease'[a] # NoLease /\ lease'[a].peer = lease[a].peer /\ lease[a] # NoLease
    BY <2>1 DEF Lease, NoLease, TypeOK
  <2>3. \A b \in Attempts : b # a => lease'[b] = lease[b]
    BY <2>1 DEF TypeOK
  <2>4. Held' = Held /\ \A q \in Peers : HeldBy(q)' = HeldBy(q)
    BY <2>2, <2>3 DEF Held, HeldBy
  <2>5. \A q \in Peers : usage'[q].transfers = usage[q].transfers
    BY <1>2 DEF AddBytes, TypeOK, Usage
  <2> QED
    BY <1>2, <2>4, <2>5 DEF SessionsAccounted, AddBytes
<1>3. ASSUME NEW a \in Attempts, Release(a)
      PROVE SessionsAccounted'
  <2>1. lease[a] \in Lease /\ lease[a] # NoLease /\ lease' = [lease EXCEPT ![a] = NoLease]
    BY <1>3 DEF Release, TypeOK
  <2> PICK p \in Peers : p = lease[a].peer
    BY <2>1 DEF Lease
  <2>2. lease'[a] = NoLease /\ \A b \in Attempts : b # a => lease'[b] = lease[b]
    BY <2>1 DEF TypeOK
  <2>3. a \in Held /\ Held' = Held \ {a}
    BY <2>1, <2>2 DEF Held
  <2>4. a \in HeldBy(p) /\ HeldBy(p)' = HeldBy(p) \ {a}
    BY <2>2, <2>3 DEF HeldBy, Held
  <2>5. \A q \in Peers : q # p => HeldBy(q)' = HeldBy(q)
    BY <2>2, <2>3 DEF HeldBy, Held
  <2>6. /\ activeTransfers' = Decrement(activeTransfers)
        /\ usage'[p].transfers = Decrement(usage[p].transfers)
        /\ \A q \in Peers : q # p => usage'[q] = usage[q]
    BY <1>3 DEF Release, TypeOK
  <2>7. Cardinality(Held') = Cardinality(Held) - 1 /\ Cardinality(Held) \in Nat /\ Cardinality(Held) > 0
    BY <2>3, HeldFinite, RemoveOne
  <2>8. Cardinality(HeldBy(p)') = Cardinality(HeldBy(p)) - 1 /\ Cardinality(HeldBy(p)) \in Nat
        /\ Cardinality(HeldBy(p)) > 0
    BY <2>4, HeldFinite, RemoveOne
  <2>9. activeTransfers' = Cardinality(Held')
    BY <2>6, <2>7 DEF SessionsAccounted, Decrement
  <2>10. usage'[p].transfers = Cardinality(HeldBy(p)')
    BY <2>6, <2>8 DEF SessionsAccounted, Decrement
  <2>11. \A q \in Peers : q # p => usage'[q].transfers = Cardinality(HeldBy(q)')
    BY <2>5, <2>6 DEF SessionsAccounted
  <2> QED
    BY <2>9, <2>10, <2>11 DEF SessionsAccounted
<1>4. CASE UNCHANGED vars
  BY <1>4 DEF vars, SessionsAccounted, Held, HeldBy
<1> QED
  BY <1>1, <1>2, <1>3, <1>4 DEF Next

\* The session counters, process-wide and per peer, are the number of leases
\* held, so a release never runs into its clamp at zero (quota.go:172-204).
THEOREM SessionsExact == Spec => []SessionsAccounted
  BY SessionsInitially, SessionsKept, TypeCorrect, PTL DEF Spec

\* When no lease is held no session is counted.
LEMMA NothingHeld == SessionsAccounted /\ Held = {} => activeTransfers = 0
  BY FS_EmptySet DEF SessionsAccounted

-----------------------------------------------------------------------------
(***************************************************************************)
(* Sums over leases.  The theorems of the library on induction take an     *)
(* operator; the well-foundedness of < on the naturals, which they rest    *)
(* on, is stated of a relation and is enough to prove facts by induction   *)
(* on the size of a set.                                                   *)
(***************************************************************************)

\* A nonempty set of natural numbers has a least member.
LEMMA LeastNumber ==
    ASSUME NEW T, T \subseteq Nat, T # {}
    PROVE  \E x \in T : \A y \in T : x <= y
<1> DEFINE R == {ss \in Nat \X Nat : ss[1] < ss[2]}
<1>1. IsWellFoundedOn(R, Nat)
  BY NatLessThanWellFounded DEF OpToRel
<1>2. \A x, y \in Nat : <<y, x>> \in R <=> y < x
  OBVIOUS
<1> HIDE DEF R
<1>3. PICK x \in T : \A y \in T : ~(<<y, x>> \in R)
  BY <1>1, WFMin
<1>4. ASSUME NEW y \in T PROVE x <= y
  <2>1. x \in Nat /\ y \in Nat /\ ~ (y < x)
    BY <1>2, <1>3
  <2> QED BY <2>1
<1> QED BY <1>4

\* Induction over the natural numbers, for a set.
LEMMA AllNumbers ==
    ASSUME NEW T, 0 \in T, \A n \in Nat : n \in T => n + 1 \in T
    PROVE  Nat \subseteq T
<1> DEFINE Rest == Nat \ T
<1> SUFFICES ASSUME Rest # {} PROVE FALSE
  OBVIOUS
<1>1. PICK n \in Rest : \A k \in Rest : n <= k
  BY LeastNumber
<1>2. n \in Nat /\ n # 0 /\ n - 1 \in Nat /\ (n - 1) + 1 = n
  BY <1>1
<1>3. n - 1 \in T
  BY <1>1, <1>2
<1> QED BY <1>2, <1>3

\* The bytes of the leases in S: the sum the byte counters are compared with.
Total(l, S) == LET Bytes(a) == l[a].bytes IN MapThenSumSet(Bytes, S)
\* The member a sum over S takes first.
Pick(S) == CHOOSE x \in S : TRUE

\* The function of which Total takes the value at S, on the sets in D.
SumOn(l, D, it) == [s \in D |-> IF s = {} THEN 0 ELSE l[Pick(s)].bytes + it[s \ {Pick(s)}]]
\* That function on all subsets of S.
Sums(l, S) == CHOOSE it : it = SumOn(l, SUBSET S, it)

\* Total is the sum the community module's fold stands for.
LEMMA TotalIsSum == \A l, S : Total(l, S) = Sums(l, S)[S]
 BY DEF Total, MapThenSumSet, MapThenFoldSet, SumOn, Pick, Sums

\* That function exists, for a finite set.
LEMMA SumsExist ==
    ASSUME NEW l, NEW S, IsFiniteSet(S)
    PROVE  Sums(l, S) = SumOn(l, SUBSET S, Sums(l, S))
<1> DEFINE Small(n) == {s \in SUBSET S : Cardinality(s) <= n}
           T == {n \in Nat : \E it : it = SumOn(l, Small(n), it)}
<1>0. \A s \in SUBSET S : IsFiniteSet(s) /\ Cardinality(s) \in Nat /\ Cardinality(s) <= Cardinality(S)
  BY FS_Subset, FS_CardinalityType
<1>a. \A s \in SUBSET S : s # {} =>
        /\ Pick(s) \in s /\ s \ {Pick(s)} \in SUBSET S
        /\ Cardinality(s \ {Pick(s)}) = Cardinality(s) - 1
  BY <1>0, FS_RemoveElement DEF Pick
<1>1. 0 \in T
  <2> DEFINE it == [s \in Small(0) |-> 0]
  <2>1. \A s \in Small(0) : s = {}
    BY <1>0, FS_EmptySet
  <2>2. it = SumOn(l, Small(0), it)
    BY <2>1 DEF SumOn
  <2> QED BY <2>2
<1>2. \A n \in Nat : n \in T => n + 1 \in T
  <2> SUFFICES ASSUME NEW n \in Nat, n \in T PROVE n + 1 \in T
    OBVIOUS
  <2>1. PICK it : it = SumOn(l, Small(n), it)
    OBVIOUS
  <2> DEFINE nx == SumOn(l, Small(n + 1), it)
  <2>2. \A s \in Small(n) : s \in Small(n + 1) /\ nx[s] = it[s]
    <3>1. \A s \in Small(n) : s \in Small(n + 1)
      BY <1>0
    <3> QED BY <2>1, <3>1 DEF SumOn
  <2>3. \A s \in Small(n + 1) : s # {} => s \ {Pick(s)} \in Small(n)
    BY <1>0, <1>a
  <2>4. nx = SumOn(l, Small(n + 1), nx)
    <3>1. \A s \in Small(n + 1) : s # {} => nx[s \ {Pick(s)}] = it[s \ {Pick(s)}]
      BY <2>2, <2>3
    <3> HIDE DEF Small
    <3> QED BY <3>1 DEF SumOn
  <2>5. n + 1 \in Nat /\ \E jt : jt = SumOn(l, Small(n + 1), jt)
    <3> HIDE DEF nx, Small
    <3> QED BY <2>4
  <2> QED BY <2>5
<1>3. Cardinality(S) \in T
  <2> HIDE DEF T
  <2>1. Nat \subseteq T
    BY <1>1, <1>2, AllNumbers
  <2> QED BY <2>1, <1>0
<1>4. Small(Cardinality(S)) = SUBSET S
  BY <1>0
<1>5. \E it : it = SumOn(l, SUBSET S, it)
  BY <1>3, <1>4
<1> QED BY <1>5 DEF Sums

\* A number of facts about the subsets of a finite set, by induction on their size.
LEMMA AllSubsets ==
    ASSUME NEW S, IsFiniteSet(S), NEW G, {} \in G,
           \A s \in SUBSET S : (\A r \in SUBSET S : Cardinality(r) < Cardinality(s) => r \in G) => s \in G
    PROVE  SUBSET S \subseteq G
<1> DEFINE T == {n \in Nat : \A s \in SUBSET S : Cardinality(s) <= n => s \in G}
<1>0. \A s \in SUBSET S : IsFiniteSet(s) /\ Cardinality(s) \in Nat
  BY FS_Subset, FS_CardinalityType
<1>1. 0 \in T
  BY <1>0, FS_EmptySet
<1>2. \A n \in Nat : n \in T => n + 1 \in T
  <2> SUFFICES ASSUME NEW n \in Nat, n \in T, NEW s \in SUBSET S, Cardinality(s) <= n + 1 PROVE s \in G
    OBVIOUS
  <2>1. \A r \in SUBSET S : Cardinality(r) < Cardinality(s) => r \in G
    BY <1>0
  <2> QED BY <2>1
<1>3. Nat \subseteq T
  <2> HIDE DEF T
  <2> QED BY <1>1, <1>2, AllNumbers
<1> QED BY <1>0, <1>3

\* Without one of its members a set is smaller.
LEMMA OneLess ==
    ASSUME NEW S, IsFiniteSet(S), NEW a \in S
    PROVE  IsFiniteSet(S \ {a}) /\ Cardinality(S \ {a}) < Cardinality(S)
<1>1. IsFiniteSet(S \ {a}) /\ Cardinality(S \ {a}) = Cardinality(S) - 1
  BY FS_RemoveElement
<1>2. Cardinality(S) \in Nat
  BY FS_CardinalityType
<1> QED BY <1>1, <1>2

\* The sums over the subsets of a part are the ones over them in the whole.
LEMMA SumsAgree ==
    ASSUME NEW l, NEW S, IsFiniteSet(S), NEW P \in SUBSET S
    PROVE  \A s \in SUBSET P : Sums(l, P)[s] = Sums(l, S)[s]
<1> DEFINE G == {s \in SUBSET P : Sums(l, P)[s] = Sums(l, S)[s]}
<1>1. IsFiniteSet(P) /\ Sums(l, P) = SumOn(l, SUBSET P, Sums(l, P)) /\ Sums(l, S) = SumOn(l, SUBSET S, Sums(l, S))
  BY FS_Subset, SumsExist
<1>2. \A s \in SUBSET P :
        /\ Sums(l, P)[s] = IF s = {} THEN 0 ELSE l[Pick(s)].bytes + Sums(l, P)[s \ {Pick(s)}]
        /\ Sums(l, S)[s] = IF s = {} THEN 0 ELSE l[Pick(s)].bytes + Sums(l, S)[s \ {Pick(s)}]
  BY <1>1 DEF SumOn
<1>3. {} \in G
  BY <1>2
<1>4. ASSUME NEW s \in SUBSET P, \A r \in SUBSET P : Cardinality(r) < Cardinality(s) => r \in G
      PROVE  s \in G
  <2>1. CASE s = {}
    BY <1>3, <2>1
  <2>2. CASE s # {}
    <3>1. Pick(s) \in s /\ IsFiniteSet(s)
      BY <1>1, <2>2, FS_Subset DEF Pick
    <3>2. s \ {Pick(s)} \in SUBSET P /\ Cardinality(s \ {Pick(s)}) < Cardinality(s)
      BY <3>1, OneLess
    <3>3. Sums(l, P)[s \ {Pick(s)}] = Sums(l, S)[s \ {Pick(s)}]
      BY <1>4, <3>2
    <3> QED BY <1>2, <2>2, <3>3
  <2> QED BY <2>1, <2>2
<1>5. SUBSET P \subseteq G
  <2> HIDE DEF G
  <2> QED BY <1>1, <1>3, <1>4, AllSubsets
<1> QED BY <1>5

\* Total takes one member's bytes and the total of the others.
LEMMA TotalUnfolds ==
    ASSUME NEW l, NEW S, IsFiniteSet(S)
    PROVE  Total(l, S) = IF S = {} THEN 0 ELSE l[Pick(S)].bytes + Total(l, S \ {Pick(S)})
<1>1. Sums(l, S)[S] = IF S = {} THEN 0 ELSE l[Pick(S)].bytes + Sums(l, S)[S \ {Pick(S)}]
  <2>1. S \in SUBSET S /\ Sums(l, S) = SumOn(l, SUBSET S, Sums(l, S))
    BY SumsExist
  <2>2. SumOn(l, SUBSET S, Sums(l, S))[S] = IF S = {} THEN 0 ELSE l[Pick(S)].bytes + Sums(l, S)[S \ {Pick(S)}]
    BY DEF SumOn
  <2> QED BY <2>1, <2>2
<1>2. Sums(l, S \ {Pick(S)})[S \ {Pick(S)}] = Sums(l, S)[S \ {Pick(S)}]
  BY SumsAgree
<1> QED BY <1>1, <1>2, TotalIsSum

\* No leases, no bytes.
LEMMA TotalOfNone == \A l : Total(l, {}) = 0
  BY TotalUnfolds, FS_EmptySet

\* Which one it takes first makes no difference.
LEMMA TotalOf ==
    ASSUME NEW l, NEW S, IsFiniteSet(S), \A a \in S : l[a].bytes \in Nat
    PROVE  /\ Total(l, S) \in Nat
           /\ \A a \in S : Total(l, S) = l[a].bytes + Total(l, S \ {a})
<1> DEFINE G == {s \in SUBSET S : /\ Total(l, s) \in Nat
                               /\ \A a \in s : Total(l, s) = l[a].bytes + Total(l, s \ {a})}
<1>1. {} \in G
  BY TotalOfNone
<1>2. ASSUME NEW s \in SUBSET S, \A r \in SUBSET S : Cardinality(r) < Cardinality(s) => r \in G
      PROVE  s \in G
  <2> SUFFICES ASSUME s # {} PROVE s \in G
    BY <1>1
  <2> DEFINE p == Pick(s)
  <2>1. p \in s /\ IsFiniteSet(s)
    BY FS_Subset DEF Pick
  <2>2. \A a \in s : Cardinality(s \ {a}) < Cardinality(s)
    BY <2>1, OneLess
  <2>3. \A a \in s : s \ {a} \in G
    BY <1>2, <2>2
  <2>4. Total(l, s) = l[p].bytes + Total(l, s \ {p})
    BY <2>1, TotalUnfolds
  <2>5. ASSUME NEW a \in s, a # p PROVE Total(l, s) = l[a].bytes + Total(l, s \ {a})
    <3>1. a \in s \ {p} /\ p \in s \ {a} /\ (s \ {p}) \ {a} = (s \ {a}) \ {p}
      BY <2>1, <2>5
    <3>2. Total(l, s \ {p}) = l[a].bytes + Total(l, (s \ {p}) \ {a})
      BY <2>1, <2>3, <3>1
    <3>3. Total(l, s \ {a}) = l[p].bytes + Total(l, (s \ {a}) \ {p})
      BY <2>3, <3>1
    <3>4. (s \ {a}) \ {p} \in G
      <4>1. Cardinality((s \ {a}) \ {p}) < Cardinality(s)
        <5>1. IsFiniteSet(s \ {a}) /\ Cardinality(s \ {a}) < Cardinality(s)
          BY <2>1, OneLess
        <5>2. Cardinality((s \ {a}) \ {p}) < Cardinality(s \ {a})
          BY <3>1, <5>1, OneLess
        <5>3. IsFiniteSet((s \ {a}) \ {p})
          BY <3>1, <5>1, OneLess
        <5>4. Cardinality(s) \in Nat /\ Cardinality(s \ {a}) \in Nat /\ Cardinality((s \ {a}) \ {p}) \in Nat
          BY <2>1, <5>1, <5>3, FS_CardinalityType
        <5> QED BY <5>1, <5>2, <5>4
      <4> QED BY <1>2, <4>1
    <3>5. l[a].bytes \in Nat /\ l[p].bytes \in Nat /\ Total(l, (s \ {a}) \ {p}) \in Nat
      BY <2>1, <3>4
    <3> HIDE DEF p, G
    <3> QED BY <2>4, <3>1, <3>2, <3>3, <3>5
  <2>6. Total(l, s) \in Nat
    <3>1. l[p].bytes \in Nat /\ Total(l, s \ {p}) \in Nat
      BY <2>1, <2>3
    <3> QED BY <2>4, <3>1
  <2> QED BY <2>4, <2>5, <2>6
<1>3. SUBSET S \subseteq G
  <2> HIDE DEF G
  <2> QED BY <1>1, <1>2, AllSubsets
<1> QED BY <1>3

\* Only the members' bytes count.
LEMMA TotalSame ==
    ASSUME NEW l, NEW k, NEW S, IsFiniteSet(S), \A a \in S : l[a].bytes = k[a].bytes
    PROVE  Total(l, S) = Total(k, S)
<1> DEFINE G == {s \in SUBSET S : Total(l, s) = Total(k, s)}
<1>1. {} \in G
  BY TotalOfNone
<1>2. ASSUME NEW s \in SUBSET S, \A r \in SUBSET S : Cardinality(r) < Cardinality(s) => r \in G
      PROVE  s \in G
  <2> SUFFICES ASSUME s # {} PROVE s \in G
    BY <1>1
  <2> DEFINE p == Pick(s)
  <2>1. p \in s /\ IsFiniteSet(s)
    BY FS_Subset DEF Pick
  <2>2. Cardinality(s \ {p}) < Cardinality(s)
    BY <2>1, OneLess
  <2>3. Total(l, s \ {p}) = Total(k, s \ {p})
    BY <1>2, <2>2
  <2> QED BY <2>1, <2>3, TotalUnfolds
<1>3. SUBSET S \subseteq G
  <2> HIDE DEF G
  <2> QED BY <1>1, <1>2, AllSubsets
<1> QED BY <1>3

-----------------------------------------------------------------------------
\* BytesAccounted, with its sums written as Total.
ByteTotals ==
    /\ TypeOK
    /\ activeBytes = Total(lease, Held)
    /\ \A p \in Peers :
        /\ usage[p].bytes = Total(lease, HeldBy(p))
        /\ p \in entries <=> HeldBy(p) # {}

\* The sums of the property are Total's.
LEMMA ByteTotalsExact == ByteTotals => BytesAccounted
<1> SUFFICES ASSUME ByteTotals PROVE BytesAccounted
  OBVIOUS
<1>1. activeBytes = LET Bytes(a) == lease[a].bytes IN MapThenSumSet(Bytes, Held)
  BY DEF ByteTotals, Total, MapThenSumSet, MapThenFoldSet
<1>2. ASSUME NEW p \in Peers
      PROVE  /\ usage[p].bytes = LET Bytes(a) == lease[a].bytes IN MapThenSumSet(Bytes, HeldBy(p))
             /\ p \in entries <=> HeldBy(p) # {}
  <2>1. /\ usage[p].bytes = Total(lease, HeldBy(p))
        /\ p \in entries <=> HeldBy(p) # {}
    BY DEF ByteTotals
  <2> QED
    BY <2>1 DEF Total, MapThenSumSet, MapThenFoldSet
<1>3. TypeOK
  BY DEF ByteTotals
<1> QED
  BY <1>1, <1>2, <1>3 DEF BytesAccounted, MapThenSumSet, MapThenFoldSet

\* Leases that are held have a number of bytes.
LEMMA HeldBytes == TypeOK => \A a \in Held : lease[a].bytes \in Nat
  BY DEF TypeOK, Held, Lease, NoLease

\* Without leases the byte counters are zero and no peer has an entry.
LEMMA BytesInitially == Init => ByteTotals
<1> SUFFICES ASSUME Init PROVE ByteTotals
  OBVIOUS
<1>1. Held = {} /\ \A p \in Peers : HeldBy(p) = {}
  BY DEF Init, Held, HeldBy
<1>2. activeBytes = 0 /\ entries = {} /\ \A p \in Peers : usage[p].bytes = 0
  BY DEF Init, NoUsage
<1> QED
  BY <1>1, <1>2, TypeInitially, TotalOfNone DEF ByteTotals

\* Every operation moves the byte counters by the bytes of the lease it moves,
\* and drops a peer's entry with that peer's last lease (quota.go:112-204).
LEMMA BytesKept == ByteTotals /\ SessionsAccounted /\ [Next]_vars => ByteTotals'
<1> SUFFICES ASSUME ByteTotals, SessionsAccounted, [Next]_vars PROVE ByteTotals'
  OBVIOUS
<1>0. /\ TypeOK /\ TypeOK' /\ SessionsAccounted'
      /\ activeBytes = Total(lease, Held)
      /\ \A p \in Peers : usage[p].bytes = Total(lease, HeldBy(p)) /\ (p \in entries <=> HeldBy(p) # {})
  <2>1. TypeOK
    BY DEF ByteTotals
  <2>2. TypeOK' /\ SessionsAccounted'
    BY <2>1, TypeKept, SessionsKept
  <2> QED
    BY <2>1, <2>2 DEF ByteTotals
<1>1. ASSUME NEW a \in Attempts, NEW p \in Peers, NEW size \in DeclaredSizes,
             Acquire(a, p, size)
      PROVE ByteTotals'
  <2> DEFINE n == Reservation(size)
             new == [peer |-> p, bytes |-> n, unknown |-> size = 0]
  <2>1. new # NoLease /\ new.peer = p /\ new.bytes = n /\ n \in Nat
    BY ReservationNat DEF NoLease
  <2>2. /\ lease' = [lease EXCEPT ![a] = new] /\ lease[a] = NoLease
        /\ activeBytes' = activeBytes + n /\ entries' = entries \cup {p}
        /\ usage'[p].bytes = usage[p].bytes + n /\ \A q \in Peers : q # p => usage'[q] = usage[q]
    BY <1>0, <1>1 DEF Acquire, TypeOK
  <2> HIDE DEF new, n
  <2>3. a \notin Held /\ Held' = Held \cup {a} /\ lease'[a] = new /\ \A b \in Held : lease'[b] = lease[b]
    BY <1>0, <2>1, <2>2 DEF Held, TypeOK
  <2>4. a \notin HeldBy(p) /\ HeldBy(p)' = HeldBy(p) \cup {a} /\ HeldBy(p) \subseteq Held
    BY <1>0, <2>1, <2>2, <2>3 DEF HeldBy, TypeOK, Held
  <2>5. \A q \in Peers : q # p => HeldBy(q)' = HeldBy(q) /\ HeldBy(q) \subseteq Held
    BY <1>0, <2>1, <2>2, <2>3 DEF HeldBy, TypeOK, Held
  <2>6. ASSUME NEW S \in SUBSET Held
        PROVE  Total(lease', S \cup {a}) = Total(lease, S) + n /\ Total(lease', S) = Total(lease, S)
    <3>1. IsFiniteSet(S) /\ IsFiniteSet(S \cup {a}) /\ a \notin S /\ (S \cup {a}) \ {a} = S
      BY <2>3, HeldFinite, FS_Subset, FS_AddElement
    <3>2. Total(lease', S) = Total(lease, S)
      BY <2>3, <3>1, TotalSame
    <3>3. \A b \in S \cup {a} : lease'[b].bytes \in Nat
      BY <1>0, <2>1, <2>3, HeldBytes
    <3>4. Total(lease', S \cup {a}) = lease'[a].bytes + Total(lease', S)
      BY <3>1, <3>3, TotalOf
    <3>5. Total(lease, S) \in Nat
      BY <1>0, <3>1, HeldBytes, TotalOf
    <3> QED
      BY <2>1, <2>3, <3>2, <3>4, <3>5
  <2>7. activeBytes' = Total(lease', Held')
    BY <1>0, <2>2, <2>3, <2>6
  <2>8. ASSUME NEW q \in Peers PROVE usage'[q].bytes = Total(lease', HeldBy(q)')
    <3>1. HeldBy(q) \in SUBSET Held /\ usage[q].bytes = Total(lease, HeldBy(q))
      BY <1>0, <2>4, <2>5
    <3>2. CASE q = p
      BY <2>2, <2>4, <2>6, <3>1, <3>2
    <3>3. CASE q # p
      BY <2>2, <2>5, <2>6, <3>1, <3>3
    <3> QED
      BY <3>2, <3>3
  <2>9. \A q \in Peers : q \in entries' <=> HeldBy(q)' # {}
    BY <1>0, <2>2, <2>4, <2>5
  <2> QED
    BY <1>0, <2>7, <2>8, <2>9 DEF ByteTotals
<1>2. ASSUME NEW a \in Attempts, NEW k \in ChunkLengths, AddBytes(a, k)
      PROVE ByteTotals'
  <2>1. lease[a] \in Lease /\ lease' = [lease EXCEPT ![a].bytes = @ + k] /\ k \in Nat
    BY <1>0, <1>2, QuotaConstants DEF AddBytes, TypeOK
  <2>2. /\ lease'[a] # NoLease /\ lease'[a].peer = lease[a].peer /\ lease[a] # NoLease
        /\ lease'[a].bytes = lease[a].bytes + k /\ lease[a].bytes \in Nat
    <3>1. lease'[a] = [lease[a] EXCEPT !.bytes = @ + k]
      BY <1>0, <2>1 DEF TypeOK
    <3>2. lease[a] # NoLease /\ lease[a].bytes \in Nat
      BY <1>2, <2>1 DEF AddBytes, Lease
    <3>3. lease'[a].bytes = lease[a].bytes + k /\ lease'[a].peer = lease[a].peer /\ lease'[a] \in Lease
      BY <2>1, <3>1, <3>2 DEF Lease
    <3> QED
      BY <3>2, <3>3, LeaseNotReleased
  <2>3. \A b \in Attempts : b # a => lease'[b] = lease[b]
    BY <1>0, <2>1 DEF TypeOK
  <2> PICK p \in Peers : p = lease[a].peer
    BY <2>1 DEF Lease
  <2>4. /\ Held' = Held /\ Held \subseteq Attempts /\ a \in Held
        /\ \A q \in Peers : HeldBy(q)' = HeldBy(q) /\ HeldBy(q) \subseteq Held /\ (a \in HeldBy(q) <=> q = p)
    BY <2>2, <2>3 DEF Held, HeldBy
  <2>5. /\ activeBytes' = activeBytes + k /\ entries' = entries \cup {p}
        /\ usage'[p].bytes = usage[p].bytes + k
        /\ \A q \in Peers : q # p => usage'[q] = usage[q]
    BY <1>0, <1>2 DEF AddBytes, TypeOK, Usage
  <2>6. ASSUME NEW S \in SUBSET Held
        PROVE  Total(lease', S) = IF a \in S THEN Total(lease, S) + k ELSE Total(lease, S)
    <3>1. IsFiniteSet(S) /\ IsFiniteSet(S \ {a})
      BY HeldFinite, FS_Subset
    <3>2. Total(lease', S \ {a}) = Total(lease, S \ {a})
      BY <2>3, <2>4, <3>1, TotalSame
    <3>3. \A b \in S : lease[b].bytes \in Nat /\ lease'[b].bytes \in Nat
      BY <1>0, <2>1, <2>2, <2>3, <2>4, HeldBytes
    <3>4. Total(lease, S \ {a}) \in Nat
      BY <3>1, <3>3, TotalOf
    <3>5. CASE a \in S
      <4>1. Total(lease', S) = lease'[a].bytes + Total(lease', S \ {a})
        BY <3>1, <3>3, <3>5, TotalOf
      <4>2. Total(lease, S) = lease[a].bytes + Total(lease, S \ {a})
        BY <3>1, <3>3, <3>5, TotalOf
      <4> QED
        BY <2>1, <2>2, <3>2, <3>4, <3>5, <4>1, <4>2
    <3>6. CASE a \notin S
      BY <3>2, <3>6
    <3> QED
      BY <3>5, <3>6
  <2>7. activeBytes' = Total(lease', Held')
    BY <1>0, <2>4, <2>5, <2>6
  <2>8. \A q \in Peers : usage'[q].bytes = Total(lease', HeldBy(q)')
    BY <1>0, <2>4, <2>5, <2>6
  <2>9. \A q \in Peers : q \in entries' <=> HeldBy(q)' # {}
    BY <1>0, <2>4, <2>5
  <2> QED
    BY <1>0, <2>7, <2>8, <2>9 DEF ByteTotals
<1>3. ASSUME NEW a \in Attempts, Release(a)
      PROVE ByteTotals'
  <2>1. lease[a] \in Lease /\ lease[a] # NoLease /\ lease' = [lease EXCEPT ![a] = NoLease]
    BY <1>0, <1>3 DEF Release, TypeOK
  <2> PICK p \in Peers : p = lease[a].peer
    BY <2>1 DEF Lease
  <2> DEFINE n == lease[a].bytes
  <2>2. lease'[a] = NoLease /\ n \in Nat /\ \A b \in Attempts : b # a => lease'[b] = lease[b]
    BY <1>0, <2>1 DEF TypeOK, Lease
  <2>3. a \in Held /\ Held' = Held \ {a} /\ Held \subseteq Attempts
    BY <2>1, <2>2 DEF Held
  <2>4. a \in HeldBy(p) /\ HeldBy(p)' = HeldBy(p) \ {a} /\ HeldBy(p) \subseteq Held
    BY <2>2, <2>3 DEF HeldBy, Held
  <2>5. \A q \in Peers : q # p => HeldBy(q)' = HeldBy(q) /\ HeldBy(q) \subseteq Held /\ a \notin HeldBy(q)
    BY <2>2, <2>3 DEF HeldBy, Held
  <2>6. /\ activeBytes' = Subtract(activeBytes, n)
        /\ usage'[p].bytes = Subtract(usage[p].bytes, n)
        /\ \A q \in Peers : q # p => usage'[q] = usage[q]
        /\ entries' = IF usage'[p] = NoUsage THEN entries \ {p} ELSE entries \cup {p}
    BY <1>0, <1>3 DEF Release, TypeOK
  <2> HIDE DEF n
  <2>7. ASSUME NEW S \in SUBSET Held, a \in S
        PROVE  Subtract(Total(lease, S), n) = Total(lease', S \ {a})
    <3>1. IsFiniteSet(S) /\ IsFiniteSet(S \ {a})
      BY HeldFinite, FS_Subset
    <3>2. Total(lease', S \ {a}) = Total(lease, S \ {a})
      BY <2>2, <2>3, <3>1, TotalSame
    <3>3. \A b \in S : lease[b].bytes \in Nat
      BY <1>0, HeldBytes
    <3>4. Total(lease, S) = n + Total(lease, S \ {a}) /\ Total(lease, S \ {a}) \in Nat
      BY <2>7, <3>1, <3>3, TotalOf DEF n
    <3> QED
      BY <2>2, <3>2, <3>4 DEF Subtract
  <2>8. activeBytes' = Total(lease', Held')
    BY <1>0, <2>3, <2>6, <2>7
  <2>9. usage'[p].bytes = Total(lease', HeldBy(p)')
    BY <1>0, <2>4, <2>6, <2>7
  <2>10. ASSUME NEW q \in Peers, q # p PROVE usage'[q].bytes = Total(lease', HeldBy(q)')
    <3>1. IsFiniteSet(HeldBy(q)) /\ \A b \in HeldBy(q) : lease'[b].bytes = lease[b].bytes
      BY <2>2, <2>3, <2>5, <2>10, HeldFinite
    <3>2. Total(lease', HeldBy(q)) = Total(lease, HeldBy(q))
      BY <3>1, TotalSame
    <3> QED
      BY <1>0, <2>5, <2>6, <2>10, <3>2
  <2>11. usage'[p] = NoUsage <=> HeldBy(p)' = {}
    <3>1. IsFiniteSet(HeldBy(p)') /\ usage'[p].transfers = Cardinality(HeldBy(p)')
      <4>1. IsFiniteSet(HeldBy(p) \ {a})
        BY HeldFinite, FS_Subset
      <4> QED
        BY <1>0, <2>4, <4>1 DEF SessionsAccounted
    <3>2. usage'[p] \in Usage
      BY <1>0 DEF TypeOK
    <3>3. CASE HeldBy(p)' = {}
      <4>1. usage'[p].transfers = 0 /\ usage'[p].bytes = 0
        BY <2>9, <3>1, <3>3, FS_EmptySet, TotalOfNone
      <4> QED
        BY <3>2, <3>3, <4>1 DEF Usage, NoUsage
    <3>4. CASE HeldBy(p)' # {}
      <4>1. usage'[p].transfers # 0
        BY <3>1, <3>4, FS_EmptySet
      <4> QED
        BY <3>4, <4>1 DEF NoUsage
    <3> QED
      BY <3>3, <3>4
  <2>12. \A q \in Peers : q \in entries' <=> HeldBy(q)' # {}
    BY <1>0, <2>4, <2>5, <2>6, <2>11
  <2> QED
    BY <1>0, <2>8, <2>9, <2>10, <2>12 DEF ByteTotals
<1>4. CASE UNCHANGED vars
  <2>1. UNCHANGED <<activeBytes, usage, entries, lease, Held>> /\ \A q \in Peers : HeldBy(q)' = HeldBy(q)
    BY <1>4 DEF vars, Held, HeldBy
  <2> QED
    BY <1>0, <2>1 DEF ByteTotals
<1> QED
  BY <1>1, <1>2, <1>3, <1>4 DEF Next

\* However sizes are declared, grow and end, the byte counters are the bytes of
\* the leases held, process-wide and per peer, and a peer's entry lives as long
\* as its leases: no release takes too much or too little (quota.go:112-204).
THEOREM BytesExact == Spec => []BytesAccounted
  BY BytesInitially, BytesKept, ByteTotalsExact, SessionsExact, PTL DEF Spec

\* When no lease is held no byte is reserved.
LEMMA NothingReserved == ByteTotals /\ Held = {} => activeBytes = 0
  BY TotalOfNone DEF ByteTotals
=============================================================================
