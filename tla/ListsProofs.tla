------------------------------ MODULE ListsProofs -----------------------------
(***************************************************************************)
(* What is proved of the three components that keep lists: the histories   *)
(* (HistoryLedger), the event stream (EventStream) and the sending of a    *)
(* directory (DirectorySend).                                              *)
(*                                                                         *)
(* First, what Keep returns: the elements that pass and no others, in      *)
(* their order, each as often as it was there.  The recursive function     *)
(* exists and has these properties by induction on the length of the       *)
(* prefix that was looked at.  The theorems of the library on induction    *)
(* take an operator; the well-foundedness of < on the naturals, which they *)
(* rest on, is stated of a relation and gives induction for a set of       *)
(* numbers (AllNumbers).                                                   *)
(***************************************************************************)
EXTENDS HistoryLedger, EventStream, DirectorySend, FiniteSetTheorems, WellFoundedInduction, TLAPS

\* A nonempty set of natural numbers has a least member.
LEMMA LeastNumber ==
    ASSUME NEW T, T \subseteq Nat, T # {}
    PROVE  \E x \in T : \A y \in T : x <= y
<1> DEFINE R == {ss \in Nat \X Nat : ss[1] < ss[2]}
<1>1. IsWellFoundedOn(R, Nat)
  BY NatLessThanWellFounded DEF OpToRel
<1>2. \A x, y \in Nat : <<y, x>> \in R <=> y < x
  OBVIOUS
<1> HIDE DEF R
<1>3. PICK x \in T : \A y \in T : ~(<<y, x>> \in R)
  BY <1>1, WFMin
<1>4. ASSUME NEW y \in T PROVE x <= y
  <2>1. x \in Nat /\ y \in Nat /\ ~ (y < x)
    BY <1>2, <1>3
  <2> QED BY <2>1
<1> QED BY <1>4

\* Induction over the natural numbers, for a set.
LEMMA AllNumbers ==
    ASSUME NEW T, 0 \in T, \A n \in Nat : n \in T => n + 1 \in T
    PROVE  Nat \subseteq T
<1> DEFINE Rest == Nat \ T
<1> SUFFICES ASSUME Rest # {} PROVE FALSE
  OBVIOUS
<1>1. PICK n \in Rest : \A k \in Rest : n <= k
  BY LeastNumber
<1>2. n \in Nat /\ n # 0 /\ n - 1 \in Nat /\ (n - 1) + 1 = n
  BY <1>1
<1>3. n - 1 \in T
  BY <1>1, <1>2
<1> QED BY <1>2, <1>3

-----------------------------------------------------------------------------
\* One round of the recursion, for the prefixes whose lengths are in D.
KeepOn(s, S, D, f) ==
    [n \in D |-> IF n = 0 THEN <<>>
                 ELSE IF s[n] \in S THEN Append(f[n - 1], s[n]) ELSE f[n - 1]]
\* What is kept of every prefix of s.
Keeping(s, S) == CHOOSE f : f = KeepOn(s, S, 0..Len(s), f)

\* Keep is the last of those.
LEMMA KeepIsLast == \A s, S : Keep(s, S) = Keeping(s, S)[Len(s)]
  BY DEF Keep, Keeping, KeepOn

\* That function exists.
LEMMA KeepingExists ==
    ASSUME NEW s, NEW S, Len(s) \in Nat
    PROVE  Keeping(s, S) = KeepOn(s, S, 0..Len(s), Keeping(s, S))
<1> DEFINE T == {n \in Nat : \E f : f = KeepOn(s, S, 0..n, f)}
<1>1. 0 \in T
  <2> DEFINE f == [n \in 0..0 |-> <<>>]
  <2>1. f = KeepOn(s, S, 0..0, f)
    BY DEF KeepOn
  <2> QED BY <2>1
<1>2. ASSUME NEW n \in Nat, n \in T PROVE n + 1 \in T
  <2>1. PICK f : f = KeepOn(s, S, 0..n, f)
    BY <1>2
  <2> DEFINE g == KeepOn(s, S, 0..(n + 1), f)
  <2>2. ASSUME NEW m \in 0..n PROVE m \in 0..(n + 1) /\ g[m] = f[m]
    <3>1. m \in 0..(n + 1)
      OBVIOUS
    <3>2. f[m] = KeepOn(s, S, 0..n, f)[m]
      BY <2>1
    <3> QED BY <3>1, <3>2 DEF KeepOn
  <2>3. \A m \in 0..(n + 1) : m # 0 => m - 1 \in 0..n
    OBVIOUS
  <2>4. g = KeepOn(s, S, 0..(n + 1), g)
    <3>1. \A m \in 0..(n + 1) : m # 0 => g[m - 1] = f[m - 1]
      BY <2>2, <2>3
    <3> QED BY <3>1 DEF KeepOn
  <2> HIDE DEF g
  <2> QED BY <2>4
<1>3. Len(s) \in T
  <2> HIDE DEF T
  <2> QED BY <1>1, <1>2, AllNumbers
<1> QED BY <1>3 DEF Keeping

\* Where the elements of t stand in s: each at a place of its own, in their order.
StandAt(pos, t, n, s) ==
    /\ pos \in [1..Len(t) -> 1..n]
    /\ \A i \in 1..Len(t) : t[i] = s[pos[i]]
    /\ \A i, j \in 1..Len(t) : i < j => pos[i] < pos[j]

\* t is what is kept of the first n elements of s.
KeptOf(t, n, s, S, U) ==
    /\ t \in Seq(U)
    /\ \E pos : /\ StandAt(pos, t, n, s)
                /\ \A j \in 1..n : s[j] \in S => \E i \in 1..Len(t) : pos[i] = j
    /\ \A i \in 1..Len(t) : t[i] \in S

\* One more element, kept.
LEMMA KeptOneMore ==
    ASSUME NEW U, NEW s \in Seq(U), NEW S, NEW t, NEW n \in Nat, n + 1 <= Len(s), s[n + 1] \in S,
           KeptOf(t, n, s, S, U)
    PROVE  KeptOf(Append(t, s[n + 1]), n + 1, s, S, U)
<1> DEFINE x == s[n + 1]
           u == Append(t, x)
<1>1. PICK pos : /\ StandAt(pos, t, n, s)
                 /\ \A j \in 1..n : s[j] \in S => \E i \in 1..Len(t) : pos[i] = j
  BY DEF KeptOf
<1> DEFINE more == [i \in 1..Len(u) |-> IF i <= Len(t) THEN pos[i] ELSE n + 1]
<1>2. t \in Seq(U) /\ x \in U /\ Len(t) \in Nat /\ \A i \in 1..Len(t) : t[i] \in S
  BY DEF KeptOf
<1>3. u \in Seq(U) /\ Len(u) = Len(t) + 1 /\ u[Len(t) + 1] = x /\ \A i \in 1..Len(t) : u[i] = t[i]
  BY <1>2
<1> HIDE DEF x, u
<1>4. \A i \in 1..Len(u) : i \in 1..Len(t) \/ i = Len(t) + 1
  BY <1>2, <1>3
<1>5. StandAt(more, u, n + 1, s)
  <2>0. \A i \in 1..Len(t) : i \in 1..Len(u) /\ pos[i] \in 1..n /\ u[i] = s[pos[i]]
    BY <1>1, <1>2, <1>3 DEF StandAt
  <2>1. \A i \in 1..Len(t) : more[i] = pos[i] /\ pos[i] \in 1..n /\ u[i] = s[pos[i]] /\ i \in 1..Len(u)
    BY <2>0, <1>2
  <2>2. more[Len(t) + 1] = n + 1 /\ Len(t) + 1 \in 1..Len(u)
    BY <1>2, <1>3
  <2>3. more \in [1..Len(u) -> 1..(n + 1)]
    <3>1. \A i \in 1..Len(u) : more[i] \in 1..(n + 1)
      <4> HIDE DEF more
      <4> QED BY <2>1, <2>2, <1>4
    <3> QED BY <3>1
  <2>4. \A i \in 1..Len(u) : u[i] = s[more[i]]
    BY <2>1, <2>2, <1>3, <1>4 DEF x
  <2>5. ASSUME NEW i \in 1..Len(u), NEW j \in 1..Len(u), i < j PROVE more[i] < more[j]
    <3>1. i \in 1..Len(t)
      BY <2>5, <1>2, <1>3
    <3> HIDE DEF more
    <3>2. CASE j \in 1..Len(t)
      BY <3>1, <3>2, <2>1, <2>5, <1>1 DEF StandAt
    <3>3. CASE j = Len(t) + 1
      <4>1. more[i] \in 1..n /\ more[j] = n + 1
        BY <3>1, <3>3, <2>1, <2>2
      <4> QED BY <4>1
    <3> QED BY <3>2, <3>3, <1>4
  <2> HIDE DEF more
  <2> QED BY <2>3, <2>4, <2>5 DEF StandAt
<1>6. \A j \in 1..(n + 1) : s[j] \in S => \E i \in 1..Len(u) : more[i] = j
  <2> SUFFICES ASSUME NEW j \in 1..(n + 1), s[j] \in S PROVE \E i \in 1..Len(u) : more[i] = j
    OBVIOUS
  <2>1. CASE j = n + 1
    BY <2>1, <1>2, <1>3
  <2>2. CASE j # n + 1
    <3>1. PICK i \in 1..Len(t) : pos[i] = j
      BY <2>2, <1>1
    <3> QED BY <3>1, <1>2, <1>3
  <2> QED BY <2>1, <2>2
<1>7. \A i \in 1..Len(u) : u[i] \in S
  BY <1>2, <1>3, <1>4 DEF x
<1> HIDE DEF more
<1> QED BY <1>3, <1>5, <1>6, <1>7 DEF KeptOf, u, x

\* What Keep returns is what is kept of the whole.
LEMMA KeepKeeps ==
    ASSUME NEW U, NEW s \in Seq(U), NEW S
    PROVE  KeptOf(Keep(s, S), Len(s), s, S, U)
<1> DEFINE f == Keeping(s, S)
           T == {n \in Nat : n <= Len(s) => KeptOf(f[n], n, s, S, U)}
<1>1. Len(s) \in Nat /\ f = KeepOn(s, S, 0..Len(s), f)
  BY KeepingExists
<1>2. f[0] = <<>> /\ \A n \in 1..Len(s) : f[n] = IF s[n] \in S THEN Append(f[n - 1], s[n]) ELSE f[n - 1]
  <2> HIDE DEF f
  <2>1. ASSUME NEW n \in 0..Len(s)
        PROVE  f[n] = IF n = 0 THEN <<>> ELSE IF s[n] \in S THEN Append(f[n - 1], s[n]) ELSE f[n - 1]
    <3>1. f[n] = KeepOn(s, S, 0..Len(s), f)[n]
      BY <1>1
    <3> QED BY <3>1 DEF KeepOn
  <2>2. 0 \in 0..Len(s) /\ \A n \in 1..Len(s) : n \in 0..Len(s) /\ n # 0
    BY <1>1
  <2> QED BY <2>1, <2>2
<1> HIDE DEF f
<1>3. 0 \in T
  <2> DEFINE none == [i \in 1..0 |-> 0]
  <2>1. <<>> \in Seq(U) /\ Len(<<>>) = 0 /\ 1..0 = {}
    OBVIOUS
  <2>2. none \in [1..0 -> 1..0]
    BY <2>1
  <2> HIDE DEF none
  <2>3. StandAt(none, <<>>, 0, s)
    BY <2>1, <2>2 DEF StandAt
  <2> QED BY <2>1, <2>3, <1>2 DEF KeptOf
<1>4. ASSUME NEW n \in Nat, n \in T PROVE n + 1 \in T
  <2> SUFFICES ASSUME n + 1 <= Len(s) PROVE KeptOf(f[n + 1], n + 1, s, S, U)
    OBVIOUS
  <2>1. KeptOf(f[n], n, s, S, U) /\ (n + 1) - 1 = n /\ n + 1 \in 1..Len(s)
    BY <1>1, <1>4
  <2>2. CASE s[n + 1] \in S
    BY <2>1, <2>2, <1>2, KeptOneMore
  <2>3. CASE s[n + 1] \notin S
    <3>1. f[n + 1] = f[n]
      BY <2>1, <2>3, <1>2
    <3>2. PICK pos : /\ StandAt(pos, f[n], n, s)
                     /\ \A j \in 1..n : s[j] \in S => \E i \in 1..Len(f[n]) : pos[i] = j
      BY <2>1 DEF KeptOf
    <3>3. StandAt(pos, f[n], n + 1, s)
      BY <3>2 DEF StandAt
    <3>4. \A j \in 1..(n + 1) : s[j] \in S => j \in 1..n
      BY <2>3
    <3> QED BY <2>1, <3>1, <3>2, <3>3, <3>4 DEF KeptOf
  <2> QED BY <2>2, <2>3
<1>5. Len(s) \in T
  <2> HIDE DEF T
  <2> QED BY <1>1, <1>3, <1>4, AllNumbers
<1> QED BY <1>1, <1>5, KeepIsLast DEF f

\* The elements stand in order, so the k-th stands at k or later.
LEMMA StandsNoEarlier ==
    ASSUME NEW pos, NEW t, NEW n \in Nat, NEW s, Len(t) \in Nat, StandAt(pos, t, n, s)
    PROVE  Len(t) <= n
<1> DEFINE T == {k \in Nat : k \in 1..Len(t) => k <= pos[k]}
<1>1. pos \in [1..Len(t) -> 1..n] /\ \A i, j \in 1..Len(t) : i < j => pos[i] < pos[j]
  BY DEF StandAt
<1>2. ASSUME NEW k \in Nat, k \in T PROVE k + 1 \in T
  <2>1. CASE k \in 1..Len(t) /\ k + 1 \in 1..Len(t)
    <3>1. k <= pos[k] /\ pos[k] < pos[k + 1] /\ pos[k] \in Nat /\ pos[k + 1] \in Nat
      BY <1>1, <1>2, <2>1
    <3> QED BY <3>1
  <2>2. CASE k = 0 /\ k + 1 \in 1..Len(t)
    BY <1>1, <2>2
  <2> QED BY <2>1, <2>2
<1>3. CASE Len(t) = 0
  BY <1>3
<1>4. CASE Len(t) # 0
  <2>1. Nat \subseteq T
    <3> HIDE DEF T
    <3>1. 0 \in T
      BY DEF T
    <3> QED BY <3>1, <1>2, AllNumbers
  <2>2. Len(t) \in 1..Len(t) /\ Len(t) <= pos[Len(t)]
    BY <1>4, <2>1
  <2> QED BY <1>1, <2>2
<1> QED BY <1>3, <1>4

\* t has some of the elements of s, each no more often than s has it.
Part(t, s, U) ==
    /\ t \in Seq(U)
    /\ \E pos \in [1..Len(t) -> 1..Len(s)] :
          /\ \A i \in 1..Len(t) : t[i] = s[pos[i]]
          /\ \A i, j \in 1..Len(t) : pos[i] = pos[j] => i = j

\* Keep returns a part, and no more elements than there were.
LEMMA KeepIsPart ==
    ASSUME NEW U, NEW s \in Seq(U), NEW S
    PROVE  /\ Part(Keep(s, S), s, U) /\ Len(Keep(s, S)) <= Len(s)
           /\ \A i \in 1..Len(Keep(s, S)) : Keep(s, S)[i] \in S
<1> DEFINE t == Keep(s, S)
<1>1. KeptOf(t, Len(s), s, S, U) /\ Len(s) \in Nat
  BY KeepKeeps
<1> HIDE DEF t
<1>2. PICK pos : StandAt(pos, t, Len(s), s)
  BY <1>1 DEF KeptOf
<1>3. t \in Seq(U) /\ Len(t) \in Nat
  BY <1>1 DEF KeptOf
<1>4. Len(t) <= Len(s)
  BY <1>1, <1>2, <1>3, StandsNoEarlier
<1>5. \A i, j \in 1..Len(t) : pos[i] = pos[j] => i = j
  <2> SUFFICES ASSUME NEW i \in 1..Len(t), NEW j \in 1..Len(t), pos[i] = pos[j], i # j PROVE FALSE
    OBVIOUS
  <2>1. pos[i] \in Nat /\ (i < j \/ j < i)
    BY <1>2, <1>3 DEF StandAt
  <2> QED BY <2>1, <1>2 DEF StandAt
<1>6. Part(t, s, U)
  BY <1>2, <1>3, <1>5 DEF Part, StandAt
<1> QED BY <1>1, <1>4, <1>6 DEF KeptOf, t

\* The end of a sequence is a part of it.
LEMMA EndIsPart ==
    ASSUME NEW U, NEW s \in Seq(U), NEW n \in Nat, n < Len(s)
    PROVE  Part(SubSeq(s, n + 1, Len(s)), s, U) /\ Len(SubSeq(s, n + 1, Len(s))) = Len(s) - n
<1> DEFINE t == SubSeq(s, n + 1, Len(s))
           pos == [i \in 1..Len(t) |-> i + n]
<1>1. /\ t \in Seq(U) /\ Len(t) = Len(s) - n /\ Len(s) \in Nat
      /\ \A i \in 1..Len(t) : t[i] = s[i + n]
  OBVIOUS
<1> HIDE DEF t
<1>2. pos \in [1..Len(t) -> 1..Len(s)] /\ \A i \in 1..Len(t) : t[i] = s[pos[i]]
  BY <1>1
<1>3. \A i, j \in 1..Len(t) : pos[i] = pos[j] => i = j
  BY <1>1
<1> HIDE DEF pos
<1>4. Part(t, s, U)
  BY <1>1, <1>2, <1>3 DEF Part
<1> QED BY <1>1, <1>4 DEF t

-----------------------------------------------------------------------------
(* The two histories.                                                      *)

\* Where the goroutine of a transfer or an authorization stands, and a row of
\* the second history.
Stages == {"new", "copy_begin", "write_begin", "sending", "waiting", "copy_end", "write_end", "done"}
AttRecord == [id : RelayAttempts, state : AttState]

\* A list has one row per transfer, and a row that names an outcome names the
\* one that was recorded (out).
Truthful(items, out) ==
    /\ items \in Seq(OpRecord)
    /\ \A i, j \in DOMAIN items : items[i].id = items[j].id => i = j
    /\ \A i \in DOMAIN items : items[i].state # InFlight => {items[i]} = out[items[i].id]

\* The row of a transfer in flight goes when its outcome comes.
OpenRows(items, out) == \A i \in DOMAIN items : items[i].state = InFlight => out[items[i].id] = {}

\* The same, but for one transfer whose row is about to follow.
OpenRowsBut(items, out, id) ==
    \A i \in DOMAIN items : items[i].id # id /\ items[i].state = InFlight => out[items[i].id] = {}

\* The lists, the files and the copies on their way to the files hold rows of
\* their own kind, the first history's truthful ones, and no list is too long.
RowsTrue ==
    /\ Truthful(ops, outcomes) /\ OpenRows(ops, outcomes)
    /\ \A f \in opsFile : Truthful(f, outcomes)
    /\ \A s \in Sends : Truthful(copy[s], outcomes)
    /\ attempts \in Seq(AttRecord) /\ \A f \in attFile : f \in Seq(AttRecord)
    /\ \A a \in RelayAttempts : copy[a] \in Seq(AttRecord)
    /\ Len(ops) <= Capacity /\ Len(attempts) <= Capacity

\* An outcome is recorded when the transfer has ended.
OutcomesLate ==
    /\ outcomes \in [Sends -> SUBSET OpRecord]
    /\ \A s \in Sends : outcomes[s] # {} => at[s] \in {"copy_end", "write_end", "done"}

\* Who may still write a copy.
Writes(s) == at[s] \in {"write_begin", "write_end"}

\* What was cleared is in no list, in no copy that will be written, and, once
\* the clear is over, in no file, unless a writer or a crash came in between.
ClearedGone ==
    /\ forgotten \subseteq {s \in Sends \cup RelayAttempts : at[s] = "done"}
    /\ clearing \in {{}, {"ops"}, {"attempts"}} /\ raced \in BOOLEAN
    /\ ~raced =>
          /\ forgotten \cap (Ids(ops) \cup Ids(attempts)) = {}
          /\ \A s \in Sends \cup RelayAttempts : Writes(s) => forgotten \cap Ids(copy[s]) = {}
          /\ clearing # {"ops"} => \A f \in opsFile : forgotten \cap Ids(f) = {}
          /\ clearing # {"attempts"} => \A f \in attFile : forgotten \cap Ids(f) = {}

\* The inductive invariant of the histories.
HistoryInv ==
    /\ at \in [Sends \cup RelayAttempts -> Stages] /\ DOMAIN copy = Sends \cup RelayAttempts
    /\ RowsTrue /\ OutcomesLate /\ ClearedGone
-----------------------------------------------------------------------------
\* The indices of a sequence, and what joins its rows to their ids.
LEMMA IdsOf == ASSUME NEW U, NEW s \in Seq(U) PROVE DOMAIN s = 1..Len(s) /\ Ids(s) = {s[i].id : i \in 1..Len(s)}
  BY DEF Ids

\* The rows of a truthful list.
LEMMA RowsOf ==
    ASSUME NEW items, NEW out, Truthful(items, out)
    PROVE  \A i \in DOMAIN items : items[i] \in OpRecord /\ items[i].id \in Sends
<1>1. \A i \in DOMAIN items : items[i] \in OpRecord
  BY DEF Truthful
<1>2. \A r \in OpRecord : r.id \in Sends
  BY DEF OpRecord
<1> QED BY <1>1, <1>2

\* Fewer rows than a truthful list had are a truthful list.
LEMMA PartTruthful ==
    ASSUME NEW out, NEW s, NEW t, Truthful(s, out), Part(t, s, OpRecord)
    PROVE  Truthful(t, out) /\ (OpenRows(s, out) => OpenRows(t, out))
<1>1. PICK pos \in [1..Len(t) -> 1..Len(s)] :
        /\ \A i \in 1..Len(t) : t[i] = s[pos[i]]
        /\ \A i, j \in 1..Len(t) : pos[i] = pos[j] => i = j
  BY DEF Part
<1>2. t \in Seq(OpRecord) /\ DOMAIN t = 1..Len(t) /\ DOMAIN s = 1..Len(s)
  BY DEF Part, Truthful
<1>3. \A i \in 1..Len(t) : pos[i] \in 1..Len(s)
  BY <1>1
<1>4. \A i, j \in 1..Len(t) : t[i].id = t[j].id => i = j
  BY <1>1, <1>2, <1>3 DEF Truthful
<1>5. ASSUME NEW i \in 1..Len(t), t[i].state # InFlight PROVE {t[i]} = out[t[i].id]
  <2>1. pos[i] \in DOMAIN s /\ t[i] = s[pos[i]]
    BY <1>1, <1>2, <1>3
  <2> QED BY <2>1, <1>5 DEF Truthful
<1>6. ASSUME OpenRows(s, out), NEW i \in 1..Len(t), t[i].state = InFlight PROVE out[t[i].id] = {}
  <2>1. pos[i] \in DOMAIN s /\ t[i] = s[pos[i]]
    BY <1>1, <1>2, <1>3
  <2> QED BY <2>1, <1>6 DEF OpenRows
<1>7. Truthful(t, out)
  BY <1>2, <1>4, <1>5 DEF Truthful
<1> QED BY <1>2, <1>6, <1>7 DEF OpenRows

\* The ids in a part are among those of the whole.
LEMMA PartIds ==
    ASSUME NEW U, NEW s \in Seq(U), NEW t, Part(t, s, U) PROVE Ids(t) \subseteq Ids(s)
<1>1. PICK pos \in [1..Len(t) -> 1..Len(s)] : \A i \in 1..Len(t) : t[i] = s[pos[i]]
  BY DEF Part
<1>2. t \in Seq(U) /\ DOMAIN t = 1..Len(t) /\ DOMAIN s = 1..Len(s)
  BY DEF Part
<1> QED BY <1>1, <1>2 DEF Ids

\* A sequence is a part of itself.
LEMMA WholeIsPart == ASSUME NEW U, NEW s \in Seq(U) PROVE Part(s, s, U)
<1> DEFINE pos == [i \in 1..Len(s) |-> i]
<1>1. pos \in [1..Len(s) -> 1..Len(s)] /\ \A i \in 1..Len(s) : pos[i] = i
  OBVIOUS
<1> HIDE DEF pos
<1> QED BY <1>1 DEF Part

\* The newest rows, as many as fit, and the rows that stay when one is to come.
LEMMA NewestPart ==
    ASSUME NEW U, NEW s \in Seq(U)
    PROVE  /\ Part(Newest(s), s, U) /\ Len(Newest(s)) <= Capacity
           /\ Part(Evict(s), s, U) /\ Len(Evict(s)) < Capacity
<1>1. Capacity \in Nat \ {0} /\ Len(s) \in Nat
  BY HistoryConstants
<1>2. Part(Newest(s), s, U) /\ Len(Newest(s)) <= Capacity
  <2>1. CASE Len(s) <= Capacity
    BY <2>1, WholeIsPart DEF Newest
  <2>2. CASE ~(Len(s) <= Capacity)
    <3> DEFINE n == Len(s) - Capacity
    <3>1. n \in Nat /\ n < Len(s) /\ Len(s) - n = Capacity /\ Newest(s) = SubSeq(s, n + 1, Len(s))
      BY <1>1, <2>2 DEF Newest
    <3> HIDE DEF n
    <3> QED BY <1>1, <3>1, EndIsPart
  <2> QED BY <2>1, <2>2
<1>3. Part(Evict(s), s, U) /\ Len(Evict(s)) < Capacity
  <2>1. CASE Len(s) < Capacity
    BY <2>1, WholeIsPart DEF Evict
  <2>2. CASE ~(Len(s) < Capacity)
    <3> DEFINE n == Len(s) - Capacity + 1
    <3>1. n \in Nat /\ n <= Len(s) /\ Len(s) - n = Capacity - 1 /\ Evict(s) = SubSeq(s, n + 1, Len(s))
      BY <1>1, <2>2 DEF Evict
    <3> HIDE DEF n
    <3>2. CASE n < Len(s)
      BY <1>1, <3>1, <3>2, EndIsPart
    <3>3. CASE n = Len(s)
      <4>1. Evict(s) = <<>> /\ Len(<<>>) = 0 /\ <<>> \in Seq(U)
        BY <1>1, <3>1, <3>3
      <4> DEFINE pos == [i \in 1..0 |-> 1]
      <4>2. pos \in [1..Len(<<>>) -> 1..Len(s)] /\ 1..Len(<<>>) = {}
        BY <4>1
      <4> HIDE DEF pos
      <4>3. Part(<<>>, s, U)
        BY <4>1, <4>2 DEF Part
      <4> QED BY <4>1, <4>3, <1>1
    <3> QED BY <3>1, <3>2, <3>3, <1>1
  <2> QED BY <2>1, <2>2
<1> QED BY <1>2, <1>3

\* What the age limit leaves.
LEMMA PrunePart ==
    ASSUME NEW U, NEW s \in Seq(U)
    PROVE  /\ Part(Prune(s), s, U) /\ Len(Prune(s)) <= Len(s)
           /\ Part(PruneRelay(s), s, U) /\ Len(PruneRelay(s)) <= Len(s)
  BY KeepIsPart DEF Prune, PruneRelay

\* One more row for a truthful list: its own is replaced, or it comes last.
LEMMA AddTruthful ==
    ASSUME NEW items, NEW out, Truthful(items, out), Len(items) <= Capacity, NEW r \in OpRecord,
           r.state # InFlight => {r} = out[r.id]
    PROVE  /\ Truthful(AddOp(items, r), out) /\ Len(AddOp(items, r)) <= Capacity
           /\ Ids(AddOp(items, r)) \subseteq Ids(items) \cup {r.id}
           /\ OpenRowsBut(items, out, r.id) /\ (r.state = InFlight => out[r.id] = {})
              => OpenRows(AddOp(items, r), out)
<1>1. items \in Seq(OpRecord) /\ DOMAIN items = 1..Len(items) /\ Len(items) \in Nat
  BY DEF Truthful
<1>2. CASE r.id \in Ids(items)
  <2> DEFINE t == [i \in DOMAIN items |-> IF items[i].id = r.id THEN r ELSE items[i]]
  <2>1. AddOp(items, r) = t
    BY <1>2 DEF AddOp
  <2>2. /\ t \in Seq(OpRecord) /\ Len(t) = Len(items) /\ DOMAIN t = 1..Len(items)
        /\ \A i \in 1..Len(items) : t[i] = IF items[i].id = r.id THEN r ELSE items[i]
    BY <1>1
  <2> HIDE DEF t
  <2>3. \A i \in 1..Len(items) : t[i].id = items[i].id
    BY <2>2
  <2>4. Truthful(t, out)
    BY <1>1, <2>2, <2>3 DEF Truthful
  <2>5. Ids(t) \subseteq Ids(items)
    BY <1>1, <2>2, <2>3 DEF Ids
  <2>6. OpenRowsBut(items, out, r.id) /\ (r.state = InFlight => out[r.id] = {}) => OpenRows(t, out)
    BY <1>1, <2>2, <2>3 DEF OpenRows, OpenRowsBut
  <2> QED BY <2>1, <2>2, <2>4, <2>5, <2>6
<1>3. CASE r.id \notin Ids(items)
  <2> DEFINE e == Evict(items)
             a == Append(e, r)
  <2>1. Part(e, items, OpRecord) /\ Len(e) < Capacity
    BY <1>1, NewestPart
  <2>2. Truthful(e, out) /\ Ids(e) \subseteq Ids(items)
    BY <1>1, <2>1, PartTruthful, PartIds
  <2>3. e \in Seq(OpRecord) /\ DOMAIN e = 1..Len(e) /\ Len(e) \in Nat
    BY <2>2 DEF Truthful
  <2> HIDE DEF e
  <2>4. /\ a \in Seq(OpRecord) /\ Len(a) = Len(e) + 1 /\ DOMAIN a = 1..(Len(e) + 1)
        /\ a[Len(e) + 1] = r /\ \A i \in 1..Len(e) : a[i] = e[i]
    BY <2>3
  <2> HIDE DEF a
  <2>5. \A i \in 1..(Len(e) + 1) : i \in 1..Len(e) \/ i = Len(e) + 1
    BY <2>3
  <2>6. \A i \in 1..Len(e) : e[i].id \in Ids(items) /\ e[i].id # r.id
    BY <1>3, <2>2, <2>3 DEF Ids
  <2>7. Truthful(a, out)
    <3>1. ASSUME NEW i \in 1..(Len(e) + 1), NEW j \in 1..(Len(e) + 1), a[i].id = a[j].id PROVE i = j
      BY <3>1, <2>2, <2>3, <2>4, <2>5, <2>6 DEF Truthful
    <3>2. \A i \in 1..(Len(e) + 1) : a[i].state # InFlight => {a[i]} = out[a[i].id]
      BY <2>2, <2>3, <2>4, <2>5 DEF Truthful
    <3> QED BY <2>4, <3>1, <3>2 DEF Truthful
  <2>8. Ids(a) \subseteq Ids(items) \cup {r.id}
    BY <2>4, <2>5, <2>6 DEF Ids
  <2>9. /\ AddOp(items, r) = Prune(a) /\ Part(Prune(a), a, OpRecord)
        /\ Len(Prune(a)) <= Capacity /\ Len(Prune(a)) <= Len(a)
    <3>1. AddOp(items, r) = Prune(a)
      BY <1>3 DEF AddOp, a, e
    <3>2. Part(Prune(a), a, OpRecord) /\ Len(Prune(a)) <= Len(a)
      BY <2>4, PrunePart
    <3>3. Len(Prune(a)) \in Nat
      BY <3>2 DEF Part
    <3> QED BY <3>1, <3>2, <3>3, <2>1, <2>3, <2>4, HistoryConstants
  <2>10. OpenRowsBut(items, out, r.id) /\ (r.state = InFlight => out[r.id] = {}) => OpenRows(a, out)
    <3> SUFFICES ASSUME OpenRowsBut(items, out, r.id), r.state = InFlight => out[r.id] = {},
                        NEW i \in 1..(Len(e) + 1), a[i].state = InFlight
                 PROVE  out[a[i].id] = {}
      BY <2>4 DEF OpenRows
    <3>1. CASE i = Len(e) + 1
      BY <3>1, <2>4
    <3>2. CASE i \in 1..Len(e)
      <4>1. PICK pos \in [1..Len(e) -> 1..Len(items)] : \A k \in 1..Len(e) : e[k] = items[pos[k]]
        BY <2>1 DEF Part
      <4>2. a[i] = items[pos[i]] /\ pos[i] \in DOMAIN items /\ items[pos[i]].id # r.id
        BY <3>2, <4>1, <2>4, <2>6, <1>1
      <4> QED BY <4>2 DEF OpenRowsBut
    <3> QED BY <3>1, <3>2, <2>5
  <2>11. Ids(Prune(a)) \subseteq Ids(a) /\ Truthful(Prune(a), out) /\ (OpenRows(a, out) => OpenRows(Prune(a), out))
    BY <2>4, <2>7, <2>9, PartTruthful, PartIds
  <2> QED BY <2>8, <2>9, <2>10, <2>11
<1> QED BY <1>2, <1>3

\* One more row for the authorizations.
LEMMA AddAttemptKeeps ==
    ASSUME NEW items \in Seq(AttRecord), NEW r \in AttRecord
    PROVE  /\ AddAttempt(items, r) \in Seq(AttRecord) /\ Len(AddAttempt(items, r)) <= Capacity
           /\ Ids(AddAttempt(items, r)) \subseteq Ids(items) \cup {r.id}
<1> DEFINE e == Evict(items)
           a == Append(e, r)
<1>1. Part(e, items, AttRecord) /\ Len(e) < Capacity /\ Ids(e) \subseteq Ids(items)
  BY NewestPart, PartIds
<1>2. e \in Seq(AttRecord) /\ DOMAIN e = 1..Len(e) /\ Len(e) \in Nat
  BY <1>1 DEF Part
<1> HIDE DEF e
<1>3. /\ a \in Seq(AttRecord) /\ Len(a) = Len(e) + 1 /\ DOMAIN a = 1..(Len(e) + 1)
      /\ a[Len(e) + 1] = r /\ \A i \in 1..Len(e) : a[i] = e[i]
  BY <1>2
<1> HIDE DEF a
<1>4. Ids(a) \subseteq Ids(e) \cup {r.id}
  <2>1. \A i \in 1..(Len(e) + 1) : i \in 1..Len(e) \/ i = Len(e) + 1
    BY <1>2
  <2> QED BY <2>1, <1>2, <1>3 DEF Ids
<1>5. Part(PruneRelay(a), a, AttRecord) /\ Len(PruneRelay(a)) <= Len(a) /\ Ids(PruneRelay(a)) \subseteq Ids(a)
  BY <1>3, PrunePart, PartIds
<1>6. PruneRelay(a) \in Seq(AttRecord) /\ Len(PruneRelay(a)) \in Nat
  BY <1>5 DEF Part
<1>7. AddAttempt(items, r) = PruneRelay(a)
  BY DEF AddAttempt, a, e
<1> QED BY <1>1, <1>2, <1>3, <1>4, <1>5, <1>6, <1>7, HistoryConstants

\* An update changes no id.
LEMMA UpdateKeeps ==
    ASSUME NEW items \in Seq(AttRecord), NEW a, NEW state \in AttState
    PROVE  /\ UpdateAttempt(items, a, state) \in Seq(AttRecord)
           /\ Len(UpdateAttempt(items, a, state)) = Len(items)
           /\ Ids(UpdateAttempt(items, a, state)) = Ids(items)
<1> DEFINE t == UpdateAttempt(items, a, state)
<1>1. DOMAIN items = 1..Len(items) /\ Len(items) \in Nat
  OBVIOUS
<1>2. ASSUME NEW r \in AttRecord
      PROVE  [r EXCEPT !.state = state] \in AttRecord /\ [r EXCEPT !.state = state].id = r.id
  BY DEF AttRecord
<1>3. DOMAIN t = 1..Len(items)
  BY <1>1 DEF UpdateAttempt
<1>4. ASSUME NEW i \in 1..Len(items) PROVE t[i] \in AttRecord /\ t[i].id = items[i].id
  <2>1. items[i] \in AttRecord
    BY <1>1
  <2>2. t[i] = IF items[i].id = a THEN [items[i] EXCEPT !.state = state] ELSE items[i]
    BY <1>1 DEF UpdateAttempt
  <2> HIDE DEF t
  <2> QED BY <2>1, <2>2, <1>2
<1>5. t = [i \in 1..Len(items) |-> t[i]]
  BY <1>3 DEF UpdateAttempt
<1> HIDE DEF t
<1>6. t \in Seq(AttRecord) /\ Len(t) = Len(items)
  BY <1>1, <1>4, <1>5
<1>7. Ids(t) = Ids(items)
  BY <1>1, <1>3, <1>4 DEF Ids
<1> QED BY <1>6, <1>7 DEF t

\* What is written, and what is loaded, is a part of what there was.
LEMMA PersistKeeps ==
    ASSUME NEW out, NEW s, Truthful(s, out)
    PROVE  Truthful(PersistOps(s), out) /\ Ids(PersistOps(s)) \subseteq Ids(s)
<1>1. s \in Seq(OpRecord)
  BY DEF Truthful
<1>2. Truthful(Prune(s), out) /\ Ids(Prune(s)) \subseteq Ids(s) /\ Prune(s) \in Seq(OpRecord)
  BY <1>1, PrunePart, PartTruthful, PartIds DEF Part
<1> QED BY <1>2, NewestPart, PartTruthful, PartIds DEF PersistOps

\* What a Hub loads at its start has no row in flight.
LEMMA LoadKeeps ==
    ASSUME NEW out, \A f \in opsFile : Truthful(f, out)
    PROVE  /\ Truthful(LoadOps, out) /\ OpenRows(LoadOps, out) /\ Len(LoadOps) <= Capacity
           /\ \A i \in Ids(LoadOps) : \E f \in opsFile : i \in Ids(f)
<1>1. CASE opsFile = {}
  <2>1. LoadOps = <<>> /\ <<>> \in Seq(OpRecord) /\ Len(<<>>) = 0 /\ DOMAIN <<>> = {} /\ Capacity \in Nat
    BY <1>1, HistoryConstants DEF LoadOps
  <2> QED BY <2>1 DEF Truthful, OpenRows, Ids
<1>2. CASE opsFile # {}
  <2> DEFINE f == CHOOSE g \in opsFile : TRUE
             k == Keep(f, {r \in Range(f) : ValidOp(r)})
  <2>1. f \in opsFile /\ Truthful(f, out) /\ f \in Seq(OpRecord)
    BY <1>2 DEF Truthful
  <2>2. LoadOps = Newest(Prune(k))
    BY <1>2 DEF LoadOps
  <2> HIDE DEF f
  <2>3. Part(k, f, OpRecord) /\ \A i \in 1..Len(k) : ValidOp(k[i])
    BY <2>1, KeepIsPart
  <2> HIDE DEF k
  <2>4. k \in Seq(OpRecord) /\ Truthful(k, out) /\ Ids(k) \subseteq Ids(f)
    BY <2>1, <2>3, PartTruthful, PartIds DEF Part
  <2>5. OpenRows(k, out)
    <3>1. InFlight \notin Failures \cup {"completed"} /\ DOMAIN k = 1..Len(k)
      BY <2>4 DEF Failures, InFlight
    <3>2. \A i \in DOMAIN k : k[i].state # InFlight
      BY <3>1, <2>3 DEF ValidOp
    <3> QED BY <3>2 DEF OpenRows
  <2>6. /\ Prune(k) \in Seq(OpRecord) /\ Truthful(Prune(k), out) /\ Ids(Prune(k)) \subseteq Ids(k)
        /\ OpenRows(Prune(k), out)
    BY <2>4, <2>5, PrunePart, PartTruthful, PartIds DEF Part
  <2>7. /\ Truthful(LoadOps, out) /\ OpenRows(LoadOps, out) /\ Len(LoadOps) <= Capacity
        /\ Ids(LoadOps) \subseteq Ids(Prune(k))
    BY <2>2, <2>6, NewestPart, PartTruthful, PartIds
  <2> QED BY <2>1, <2>4, <2>6, <2>7
<1> QED BY <1>1, <1>2

\* What is written of the second history.
LEMMA PersistRelayKeeps ==
    ASSUME NEW s \in Seq(AttRecord)
    PROVE  PersistAttempts(s) \in Seq(AttRecord) /\ Ids(PersistAttempts(s)) \subseteq Ids(s)
<1>1. PruneRelay(s) \in Seq(AttRecord) /\ Ids(PruneRelay(s)) \subseteq Ids(s)
  BY PrunePart, PartIds DEF Part
<1>2. Part(Newest(PruneRelay(s)), PruneRelay(s), AttRecord)
  BY <1>1, NewestPart
<1> QED BY <1>1, <1>2, PartIds DEF PersistAttempts, Part

\* What is loaded of it.
LEMMA LoadRelayKeeps ==
    ASSUME \A f \in attFile : f \in Seq(AttRecord)
    PROVE  /\ LoadAttempts \in Seq(AttRecord) /\ Len(LoadAttempts) <= Capacity
           /\ \A i \in Ids(LoadAttempts) : \E f \in attFile : i \in Ids(f)
<1>1. CASE attFile = {}
  <2>1. LoadAttempts = <<>> /\ <<>> \in Seq(AttRecord) /\ Len(<<>>) = 0 /\ DOMAIN <<>> = {} /\ Capacity \in Nat
    BY <1>1, HistoryConstants DEF LoadAttempts
  <2> QED BY <2>1 DEF Ids
<1>2. CASE attFile # {}
  <2> DEFINE f == CHOOSE g \in attFile : TRUE
             k == Keep(f, {r \in Range(f) : r.state \in AttState})
  <2>1. f \in attFile /\ f \in Seq(AttRecord)
    BY <1>2
  <2>2. LoadAttempts = Newest(PruneRelay(k))
    BY <1>2 DEF LoadAttempts
  <2> HIDE DEF f
  <2>3. Part(k, f, AttRecord)
    BY <2>1, KeepIsPart
  <2> HIDE DEF k
  <2>4. k \in Seq(AttRecord) /\ Ids(k) \subseteq Ids(f)
    BY <2>1, <2>3, PartIds DEF Part
  <2>5. PruneRelay(k) \in Seq(AttRecord) /\ Ids(PruneRelay(k)) \subseteq Ids(k)
    BY <2>4, PrunePart, PartIds DEF Part
  <2>6. /\ LoadAttempts \in Seq(AttRecord) /\ Len(LoadAttempts) <= Capacity
        /\ Ids(LoadAttempts) \subseteq Ids(PruneRelay(k))
    BY <2>2, <2>5, NewestPart, PartIds DEF Part
  <2> QED BY <2>1, <2>4, <2>5, <2>6
<1> QED BY <1>1, <1>2

\* The outcome of a transfer contradicts no row: what rows it has are open.
LEMMA OutcomeComes ==
    ASSUME NEW out \in [Sends -> SUBSET OpRecord], NEW s \in Sends, out[s] = {}, NEW r, NEW items,
           Truthful(items, out)
    PROVE  Truthful(items, [out EXCEPT ![s] = {r}])
<1>1. \A i \in DOMAIN items : items[i].id \in Sends
  BY RowsOf
<1>2. \A i \in DOMAIN items : items[i].state # InFlight => items[i].id # s
  BY DEF Truthful
<1> QED BY <1>1, <1>2 DEF Truthful

-----------------------------------------------------------------------------
\* Nothing is recorded at first.
LEMMA HistoryStarts == HistoryInit => HistoryInv
<1> SUFFICES ASSUME HistoryInit PROVE HistoryInv
  OBVIOUS
<1>1. /\ <<>> \in Seq(OpRecord) /\ <<>> \in Seq(AttRecord) /\ Len(<<>>) = 0 /\ DOMAIN <<>> = {}
      /\ Capacity \in Nat /\ Ids(<<>>) = {}
  BY HistoryConstants DEF Ids
<1>2. RowsTrue
  BY <1>1 DEF HistoryInit, RowsTrue, Truthful, OpenRows
<1>3. OutcomesLate /\ ClearedGone
  BY <1>1 DEF HistoryInit, OutcomesLate, ClearedGone
<1> QED BY <1>2, <1>3 DEF HistoryInit, HistoryInv, Stages

\* A record of a transfer goes into the list.
LEMMA RecordKeeps ==
    ASSUME HistoryInv, NEW s \in Sends, NEW r \in OpRecord, r.id = s, RecordOp(r),
           NEW w \in {"copy_begin", "copy_end"}, at' = [at EXCEPT ![s] = w], at[s] \in {"new", "sending"},
           UNCHANGED <<opsFile, attempts, attFile, clearing, forgotten, raced>>,
           \/ r.state = InFlight /\ outcomes' = outcomes
           \/ r.state # InFlight /\ w = "copy_end" /\ outcomes' = [outcomes EXCEPT ![s] = {r}]
    PROVE  HistoryInv'
<1> DEFINE new == AddOp(ops, r)
<1>0. /\ at \in [Sends \cup RelayAttempts -> Stages] /\ DOMAIN copy = Sends \cup RelayAttempts
      /\ RowsTrue /\ OutcomesLate /\ ClearedGone /\ s \notin RelayAttempts
  BY HistoryConstants DEF HistoryInv
<1>1. outcomes \in [Sends -> SUBSET OpRecord] /\ outcomes[s] = {}
  BY <1>0 DEF OutcomesLate
<1>2. \A items : Truthful(items, outcomes) => Truthful(items, outcomes')
  BY <1>1, OutcomeComes
<1>3. r.state # InFlight => {r} = outcomes'[r.id]
  BY <1>1
<1>4. /\ OpenRowsBut(ops, outcomes', r.id)
      /\ r.state = InFlight => outcomes'[r.id] = {}
  <2>1. ASSUME NEW i \in DOMAIN ops, ops[i].id # r.id, ops[i].state = InFlight PROVE outcomes'[ops[i].id] = {}
    <3>1. outcomes[ops[i].id] = {} /\ ops[i].id \in Sends
      BY <2>1, <1>0, RowsOf DEF RowsTrue, OpenRows
    <3> QED BY <3>1, <2>1, <1>1
  <2> QED BY <2>1, <1>1 DEF OpenRowsBut
<1>5. Truthful(ops, outcomes') /\ Len(ops) <= Capacity
  BY <1>0, <1>2 DEF RowsTrue
<1>6. Truthful(new, outcomes') /\ Len(new) <= Capacity /\ Ids(new) \subseteq Ids(ops) \cup {s} /\ OpenRows(new, outcomes')
  BY <1>3, <1>4, <1>5, AddTruthful
<1> HIDE DEF new
<1>7. ops' = new /\ copy' = copy
  BY DEF RecordOp, new
<1>8. RowsTrue'
  <2>1. \A t \in Sends : Truthful(copy'[t], outcomes')
    BY <1>0, <1>2, <1>6, <1>7 DEF RowsTrue
  <2>3. \A f \in opsFile' : Truthful(f, outcomes')
    BY <1>0, <1>2 DEF RowsTrue
  <2> QED BY <2>1, <2>3, <1>0, <1>6, <1>7 DEF RowsTrue
<1>9. OutcomesLate'
  BY <1>0, <1>1 DEF OutcomesLate
<1>10. ClearedGone'
  <2>1. \A t \in Sends \cup RelayAttempts : t # s => at'[t] = at[t]
    BY <1>0
  <2>2. s \notin forgotten
    BY <1>0 DEF ClearedGone
  <2>3. at'[s] \notin {"write_begin", "write_end"}
    BY <1>0
  <2>4. forgotten \subseteq {t \in Sends \cup RelayAttempts : at'[t] = "done"}
    BY <2>1, <2>2, <1>0 DEF ClearedGone
  <2>5. ~raced => forgotten \cap Ids(new) = {}
    BY <2>2, <1>0, <1>6 DEF ClearedGone
  <2> QED BY <2>1, <2>3, <2>4, <2>5, <1>0, <1>7 DEF ClearedGone, Writes
<1> QED BY <1>0, <1>7, <1>8, <1>9, <1>10 DEF HistoryInv, Stages

\* The list is copied.
LEMMA CopyKeeps == ASSUME HistoryInv, NEW s \in Sends, CopyHistory(s) PROVE HistoryInv'
<1>0. /\ at \in [Sends \cup RelayAttempts -> Stages] /\ DOMAIN copy = Sends \cup RelayAttempts
      /\ RowsTrue /\ OutcomesLate /\ ClearedGone /\ s \notin RelayAttempts
  BY HistoryConstants DEF HistoryInv
<1>1. PICK w \in {"write_begin", "write_end"} :
        /\ at[s] \in {"copy_begin", "copy_end"} /\ at' = [at EXCEPT ![s] = w]
        /\ at[s] = "copy_end" => w = "write_end"
  BY DEF CopyHistory, Step
<1>2. /\ copy' = [copy EXCEPT ![s] = ops]
      /\ UNCHANGED <<ops, opsFile, outcomes, attempts, attFile, expired, clearing, forgotten, raced>>
  BY DEF CopyHistory, KeepRelay, KeepBounds
<1>3. /\ \A t \in Sends \cup RelayAttempts : t # s => at'[t] = at[t] /\ copy'[t] = copy[t]
      /\ at'[s] = w /\ copy'[s] = ops
  BY <1>0, <1>1, <1>2
<1>4. RowsTrue'
  BY <1>0, <1>2, <1>3 DEF RowsTrue
<1>5. OutcomesLate'
  BY <1>0, <1>1, <1>2, <1>3 DEF OutcomesLate
<1>6. ClearedGone'
  <2>1. s \notin forgotten
    BY <1>0, <1>1 DEF ClearedGone
  <2>2. forgotten \subseteq {t \in Sends \cup RelayAttempts : at'[t] = "done"}
    BY <2>1, <1>3, <1>0 DEF ClearedGone
  <2> QED BY <2>1, <2>2, <1>0, <1>2, <1>3 DEF ClearedGone, Writes
<1> QED BY <1>0, <1>1, <1>2, <1>4, <1>5, <1>6 DEF HistoryInv, Stages

\* A copy replaces the file of the transfers, or the write fails.
LEMMA WriteKeeps == ASSUME HistoryInv, NEW s \in Sends, WriteHistory(s) PROVE HistoryInv'
<1>0. /\ at \in [Sends \cup RelayAttempts -> Stages] /\ DOMAIN copy = Sends \cup RelayAttempts
      /\ RowsTrue /\ OutcomesLate /\ ClearedGone /\ s \notin RelayAttempts
  BY HistoryConstants DEF HistoryInv
<1> DEFINE file == PersistOps(copy[s])
<1>1. Truthful(file, outcomes) /\ Ids(file) \subseteq Ids(copy[s])
  BY <1>0, PersistKeeps DEF RowsTrue
<1> HIDE DEF file
<1>2. PICK w \in {"sending", "done"} :
        /\ at[s] \in {"write_begin", "write_end"} /\ at' = [at EXCEPT ![s] = w]
        /\ at[s] = "write_end" => w = "done"
  BY DEF WriteHistory, Step
<1>3. /\ opsFile' \subseteq opsFile \cup {file}
      /\ UNCHANGED <<ops, copy, outcomes, attempts, attFile, expired, clearing, forgotten, raced>>
  BY DEF WriteHistory, KeepRelay, KeepBounds, file
<1>4. RowsTrue'
  BY <1>0, <1>1, <1>3 DEF RowsTrue
<1>5. OutcomesLate'
  BY <1>0, <1>2, <1>3 DEF OutcomesLate
<1>6. ClearedGone'
  <2>1. \A t \in Sends \cup RelayAttempts : t # s => at'[t] = at[t]
    BY <1>0, <1>2
  <2>2. s \notin forgotten
    BY <1>0, <1>2 DEF ClearedGone
  <2>3. ~raced => forgotten \cap Ids(file) = {}
    BY <1>0, <1>1, <1>2 DEF ClearedGone, Writes
  <2>4. at'[s] = w /\ w \notin {"write_begin", "write_end"}
    BY <1>0, <1>2
  <2>5. forgotten \subseteq {t \in Sends \cup RelayAttempts : at'[t] = "done"}
    BY <2>1, <2>2, <1>0 DEF ClearedGone
  <2> QED BY <2>1, <2>3, <2>4, <2>5, <1>0, <1>3 DEF ClearedGone, Writes
<1> QED BY <1>0, <1>2, <1>3, <1>4, <1>5, <1>6 DEF HistoryInv, Stages

\* Progress is told of a transfer in flight.
LEMMA AdvanceKeeps == ASSUME HistoryInv, NEW s \in Sends, AdvanceOutboundProgress(s) PROVE HistoryInv'
<1>0. RowsTrue /\ OutcomesLate /\ ClearedGone
  BY DEF HistoryInv
<1>1. PICK n \in 1..MaxTicks : ops' = AdvanceOp(ops, s, n)
  BY DEF AdvanceOutboundProgress
<1>2. UNCHANGED <<at, copy, outcomes, opsFile, attempts, attFile, clearing, forgotten, raced>>
  BY DEF AdvanceOutboundProgress, KeepRelay, KeepBounds
<1>3. ops \in Seq(OpRecord) /\ DOMAIN ops = 1..Len(ops) /\ Len(ops) \in Nat
  BY <1>0 DEF RowsTrue, Truthful
<1> DEFINE t == AdvanceOp(ops, s, n)
<1>4. ASSUME NEW i \in 1..Len(ops)
      PROVE  /\ t[i] \in OpRecord /\ t[i].id = ops[i].id /\ t[i].state = ops[i].state
             /\ ops[i].state # InFlight => t[i] = ops[i]
  <2>1. t[i] = IF ops[i].id = s /\ ops[i].state = InFlight /\ n > ops[i].bytes
               THEN [ops[i] EXCEPT !.bytes = n] ELSE ops[i]
    BY <1>3 DEF AdvanceOp
  <2>2. ops[i] \in OpRecord
    BY <1>3
  <2>3. \A r \in OpRecord : /\ [r EXCEPT !.bytes = n] \in OpRecord /\ [r EXCEPT !.bytes = n].id = r.id
                             /\ [r EXCEPT !.bytes = n].state = r.state
    BY DEF OpRecord
  <2> HIDE DEF t
  <2> QED BY <2>1, <2>2, <2>3
<1>5. t = [i \in 1..Len(ops) |-> t[i]]
  BY <1>3 DEF AdvanceOp
<1> HIDE DEF t
<1>6. t \in Seq(OpRecord) /\ Len(t) = Len(ops) /\ DOMAIN t = 1..Len(ops)
  BY <1>3, <1>4, <1>5
<1>7. Truthful(t, outcomes)
  <2>1. \A i, j \in DOMAIN t : t[i].id = t[j].id => i = j
    BY <1>0, <1>3, <1>4, <1>6 DEF RowsTrue, Truthful
  <2>2. \A i \in DOMAIN t : t[i].state # InFlight => {t[i]} = outcomes[t[i].id]
    BY <1>0, <1>3, <1>4, <1>6 DEF RowsTrue, Truthful
  <2> QED BY <1>6, <2>1, <2>2 DEF Truthful
<1>8. OpenRows(t, outcomes)
  BY <1>0, <1>3, <1>4, <1>6 DEF RowsTrue, OpenRows
<1>9. Ids(t) = Ids(ops)
  BY <1>3, <1>4, <1>6 DEF Ids
<1>10. ops' = t
  BY <1>1 DEF t
<1>11. RowsTrue'
  BY <1>0, <1>2, <1>6, <1>7, <1>8, <1>10 DEF RowsTrue
<1>12. OutcomesLate'
  BY <1>0, <1>2 DEF OutcomesLate
<1>13. ClearedGone'
  BY <1>0, <1>2, <1>9, <1>10 DEF ClearedGone, Writes
<1> QED BY <1>2, <1>11, <1>12, <1>13 DEF HistoryInv

\* A row of the other history.
LEMMA RelayRowKeeps ==
    ASSUME HistoryInv, NEW a \in RelayAttempts, RecordRelayAttempt(a) \/ UpdateRelayAttempt(a)
    PROVE  HistoryInv'
<1>0. /\ at \in [Sends \cup RelayAttempts -> Stages] /\ DOMAIN copy = Sends \cup RelayAttempts
      /\ RowsTrue /\ OutcomesLate /\ ClearedGone /\ a \notin Sends
      /\ attempts \in Seq(AttRecord) /\ Len(attempts) <= Capacity
  BY HistoryConstants DEF HistoryInv, RowsTrue
<1>1. PICK new \in Seq(AttRecord), w \in {"copy_begin", "copy_end"} :
        /\ attempts' = new /\ copy' = copy
        /\ Len(new) <= Capacity /\ Ids(new) \subseteq Ids(attempts) \cup {a}
        /\ at' = [at EXCEPT ![a] = w] /\ at[a] \in {"new", "waiting"}
  <2>1. CASE RecordRelayAttempt(a)
    <3> DEFINE r == [id |-> a, state |-> "submitted"]
    <3>1. r \in AttRecord /\ r.id = a
      BY DEF AttRecord, AttState
    <3> HIDE DEF r
    <3>2. attempts' = AddAttempt(attempts, r) /\ copy' = copy
      BY <2>1 DEF RecordRelayAttempt, r
    <3>3. at' = [at EXCEPT ![a] = "copy_begin"] /\ at[a] = "new"
      BY <2>1 DEF RecordRelayAttempt, Step
    <3> QED BY <3>1, <3>2, <3>3, <1>0, AddAttemptKeeps
  <2>2. CASE UpdateRelayAttempt(a)
    <3>1. PICK state \in AttState \ {"submitted", "waiting_callback"} :
            attempts' = UpdateAttempt(attempts, a, state) /\ copy' = copy
      BY <2>2 DEF UpdateRelayAttempt
    <3>2. at' = [at EXCEPT ![a] = "copy_end"] /\ at[a] = "waiting"
      BY <2>2 DEF UpdateRelayAttempt, Step
    <3> QED BY <3>1, <3>2, <1>0, UpdateKeeps
  <2> QED BY <2>1, <2>2
<1>2. UNCHANGED <<attFile, ops, opsFile, outcomes, expired, clearing, forgotten, raced>>
  BY DEF RecordRelayAttempt, UpdateRelayAttempt, KeepOps, KeepBounds
<1>3. /\ \A t \in Sends \cup RelayAttempts : t # a => at'[t] = at[t]
      /\ at'[a] = w /\ w \notin {"write_begin", "write_end"}
  BY <1>0, <1>1
<1>4. RowsTrue'
  BY <1>0, <1>1, <1>2, <1>3 DEF RowsTrue
<1>5. OutcomesLate'
  BY <1>0, <1>2, <1>3 DEF OutcomesLate
<1>6. ClearedGone'
  <2>1. a \notin forgotten
    BY <1>0, <1>1 DEF ClearedGone
  <2>2. ~raced => forgotten \cap Ids(new) = {}
    BY <2>1, <1>0, <1>1 DEF ClearedGone
  <2>3. forgotten \subseteq {t \in Sends \cup RelayAttempts : at'[t] = "done"}
    BY <2>1, <1>3, <1>0 DEF ClearedGone
  <2> QED BY <2>1, <2>2, <2>3, <1>0, <1>1, <1>2, <1>3 DEF ClearedGone, Writes
<1> QED BY <1>0, <1>1, <1>4, <1>5, <1>6 DEF HistoryInv, Stages

\* The list of the other history is copied.
LEMMA CopyRelayKeeps == ASSUME HistoryInv, NEW a \in RelayAttempts, CopyRelayHistory(a) PROVE HistoryInv'
<1>0. /\ at \in [Sends \cup RelayAttempts -> Stages] /\ DOMAIN copy = Sends \cup RelayAttempts
      /\ RowsTrue /\ OutcomesLate /\ ClearedGone /\ a \notin Sends
  BY HistoryConstants DEF HistoryInv
<1>1. PICK w \in {"write_begin", "write_end"} :
        at[a] \in {"copy_begin", "copy_end"} /\ at' = [at EXCEPT ![a] = w]
  BY DEF CopyRelayHistory, Step
<1>2. /\ copy' = [copy EXCEPT ![a] = attempts]
      /\ UNCHANGED <<attempts, attFile, ops, opsFile, outcomes, expired, clearing, forgotten, raced>>
  BY DEF CopyRelayHistory, KeepOps, KeepBounds
<1>3. /\ \A t \in Sends \cup RelayAttempts : t # a => at'[t] = at[t] /\ copy'[t] = copy[t]
      /\ at'[a] = w /\ copy'[a] = attempts
  BY <1>0, <1>1, <1>2
<1>4. RowsTrue'
  BY <1>0, <1>2, <1>3 DEF RowsTrue
<1>5. OutcomesLate'
  BY <1>0, <1>2, <1>3 DEF OutcomesLate
<1>6. ClearedGone'
  <2>1. a \notin forgotten
    BY <1>0, <1>1 DEF ClearedGone
  <2>2. forgotten \subseteq {t \in Sends \cup RelayAttempts : at'[t] = "done"}
    BY <2>1, <1>3, <1>0 DEF ClearedGone
  <2> QED BY <2>1, <2>2, <1>0, <1>2, <1>3 DEF ClearedGone, Writes
<1> QED BY <1>0, <1>1, <1>2, <1>4, <1>5, <1>6 DEF HistoryInv, Stages

\* An authorization's row is written.
LEMMA WriteRelayKeeps == ASSUME HistoryInv, NEW a \in RelayAttempts, WriteRelayHistory(a) PROVE HistoryInv'
<1>0. /\ at \in [Sends \cup RelayAttempts -> Stages] /\ DOMAIN copy = Sends \cup RelayAttempts
      /\ RowsTrue /\ OutcomesLate /\ ClearedGone /\ a \notin Sends
  BY HistoryConstants DEF HistoryInv
<1> DEFINE file == PersistAttempts(copy[a])
<1>1. file \in Seq(AttRecord) /\ Ids(file) \subseteq Ids(copy[a])
  BY <1>0, PersistRelayKeeps DEF RowsTrue
<1> HIDE DEF file
<1>2. PICK w \in {"waiting", "done"} :
        at[a] \in {"write_begin", "write_end"} /\ at' = [at EXCEPT ![a] = w]
  BY DEF WriteRelayHistory, Step
<1>3. /\ attFile' \subseteq attFile \cup {file}
      /\ UNCHANGED <<attempts, copy, ops, opsFile, outcomes, expired, clearing, forgotten, raced>>
  BY DEF WriteRelayHistory, KeepOps, KeepBounds, file
<1>4. /\ \A t \in Sends \cup RelayAttempts : t # a => at'[t] = at[t]
      /\ at'[a] = w /\ w \notin {"write_begin", "write_end"}
  BY <1>0, <1>2
<1>5. RowsTrue'
  BY <1>0, <1>1, <1>3 DEF RowsTrue
<1>6. OutcomesLate'
  BY <1>0, <1>3, <1>4 DEF OutcomesLate
<1>7. ClearedGone'
  <2>1. a \notin forgotten
    BY <1>0, <1>2 DEF ClearedGone
  <2>2. ~raced => forgotten \cap Ids(file) = {}
    BY <1>0, <1>1, <1>2 DEF ClearedGone, Writes
  <2>3. forgotten \subseteq {t \in Sends \cup RelayAttempts : at'[t] = "done"}
    BY <2>1, <1>4, <1>0 DEF ClearedGone
  <2> QED BY <2>1, <2>2, <2>3, <1>0, <1>3, <1>4 DEF ClearedGone, Writes
<1> QED BY <1>0, <1>2, <1>3, <1>5, <1>6, <1>7 DEF HistoryInv, Stages

\* The clear button, in its two steps, for either history.
LEMMA ClearKeeps ==
    ASSUME HistoryInv, ClearOutboundOperations \/ RemoveOpsFile \/ ClearRelayHistory \/ RemoveRelayFile
    PROVE  HistoryInv'
<1>0. RowsTrue /\ OutcomesLate /\ ClearedGone /\ Sends \cap RelayAttempts = {}
  BY HistoryConstants DEF HistoryInv
<1>1. /\ <<>> \in Seq(OpRecord) /\ <<>> \in Seq(AttRecord) /\ Len(<<>>) = 0 /\ DOMAIN <<>> = {}
      /\ Capacity \in Nat /\ Ids(<<>>) = {}
  BY HistoryConstants DEF Ids
<1>2. UNCHANGED <<at, copy, outcomes>>
  BY DEF ClearOutboundOperations, RemoveOpsFile, ClearRelayHistory, RemoveRelayFile, KeepOps
<1>3. RowsTrue'
  <2>1. /\ ops' \in {ops, <<>>} /\ attempts' \in {attempts, <<>>} /\ opsFile' \subseteq opsFile /\ attFile' \subseteq attFile
    BY DEF ClearOutboundOperations, RemoveOpsFile, ClearRelayHistory, RemoveRelayFile, KeepOps, KeepRelay
  <2>2. Truthful(<<>>, outcomes) /\ OpenRows(<<>>, outcomes)
    BY <1>1 DEF Truthful, OpenRows
  <2>3. Truthful(ops', outcomes) /\ OpenRows(ops', outcomes) /\ Len(ops') <= Capacity
    BY <2>1, <2>2, <1>0, <1>1 DEF RowsTrue
  <2>4. attempts' \in Seq(AttRecord) /\ Len(attempts') <= Capacity
    <3>1. attempts \in Seq(AttRecord) /\ Len(attempts) <= Capacity
      BY <1>0 DEF RowsTrue
    <3>2. Len(<<>>) <= Capacity
      BY HistoryConstants
    <3>3. CASE attempts' = <<>>
      BY <1>1, <3>2, <3>3
    <3>4. CASE attempts' = attempts
      BY <3>1, <3>4
    <3> QED BY <2>1, <3>3, <3>4
  <2> QED BY <2>1, <2>3, <2>4, <1>0, <1>2 DEF RowsTrue
<1>4. OutcomesLate'
  BY <1>0, <1>2 DEF OutcomesLate
<1>5. /\ Ids(ops) \subseteq Sends /\ \A f \in opsFile : Ids(f) \subseteq Sends
      /\ \A s \in Sends : Ids(copy[s]) \subseteq Sends
  BY <1>0, RowsOf DEF RowsTrue, Ids
<1>6. /\ Ids(attempts) \subseteq RelayAttempts /\ \A f \in attFile : Ids(f) \subseteq RelayAttempts
      /\ \A a \in RelayAttempts : Ids(copy[a]) \subseteq RelayAttempts
  <2>1. ASSUME NEW x \in Seq(AttRecord) PROVE Ids(x) \subseteq RelayAttempts
    <3>1. \A i \in DOMAIN x : x[i] \in AttRecord
      OBVIOUS
    <3>2. \A r \in AttRecord : r.id \in RelayAttempts
      BY DEF AttRecord
    <3> QED BY <3>1, <3>2 DEF Ids
  <2> QED BY <2>1, <1>0 DEF RowsTrue
<1>7. ClearedGone'
  <2>1. CASE ClearOutboundOperations
    <3>1. /\ clearing = {} /\ clearing' = {"ops"} /\ ops' = <<>> /\ UNCHANGED <<opsFile, attempts, attFile>>
          /\ forgotten' = forgotten \cup {s \in AllIn(ops, opsFile) : at[s] = "done"}
          /\ raced' = (raced \/ Writing(Sends) # {})
      BY <2>1 DEF ClearOutboundOperations, KeepRelay
    <3>2. AllIn(ops, opsFile) \subseteq Sends
      BY <1>5 DEF AllIn
    <3>3. forgotten' \subseteq {s \in Sends \cup RelayAttempts : at[s] = "done"} /\ forgotten' \subseteq forgotten \cup Sends
      BY <3>1, <3>2, <1>0 DEF ClearedGone
    <3>4. ~raced' => \A s \in Sends : ~Writes(s)
      BY <3>1 DEF Writing, Writes
    <3>5. ~raced' => \A a \in RelayAttempts : Writes(a) => forgotten' \cap Ids(copy[a]) = {}
      BY <3>1, <3>3, <1>0, <1>6 DEF ClearedGone
    <3>6. ~raced' => forgotten' \cap Ids(attempts) = {} /\ \A f \in attFile : forgotten' \cap Ids(f) = {}
      BY <3>1, <3>3, <1>0, <1>6 DEF ClearedGone
    <3> QED BY <3>1, <3>3, <3>4, <3>5, <3>6, <1>0, <1>1, <1>2 DEF ClearedGone, Writes
  <2>2. CASE ClearRelayHistory
    <3>1. /\ clearing = {} /\ clearing' = {"attempts"} /\ attempts' = <<>> /\ UNCHANGED <<attFile, ops, opsFile>>
          /\ forgotten' = forgotten \cup {s \in AllIn(attempts, attFile) : at[s] = "done"}
          /\ raced' = (raced \/ Writing(RelayAttempts) # {})
      BY <2>2 DEF ClearRelayHistory, KeepOps
    <3>2. AllIn(attempts, attFile) \subseteq RelayAttempts
      BY <1>6 DEF AllIn
    <3>3. /\ forgotten' \subseteq {s \in Sends \cup RelayAttempts : at[s] = "done"}
          /\ forgotten' \subseteq forgotten \cup RelayAttempts
      BY <3>1, <3>2, <1>0 DEF ClearedGone
    <3>4. ~raced' => \A a \in RelayAttempts : ~Writes(a)
      BY <3>1 DEF Writing, Writes
    <3>5. ~raced' => \A s \in Sends : Writes(s) => forgotten' \cap Ids(copy[s]) = {}
      BY <3>1, <3>3, <1>0, <1>5 DEF ClearedGone
    <3>6. ~raced' => forgotten' \cap Ids(ops) = {} /\ \A f \in opsFile : forgotten' \cap Ids(f) = {}
      BY <3>1, <3>3, <1>0, <1>5 DEF ClearedGone
    <3> QED BY <3>1, <3>3, <3>4, <3>5, <3>6, <1>0, <1>1, <1>2 DEF ClearedGone, Writes
  <2>3. CASE RemoveOpsFile
    BY <2>3, <1>0, <1>2 DEF RemoveOpsFile, KeepRelay, ClearedGone, Writes
  <2>4. CASE RemoveRelayFile
    BY <2>4, <1>0, <1>2 DEF RemoveRelayFile, KeepOps, ClearedGone, Writes
  <2> QED BY <2>1, <2>2, <2>3, <2>4
<1> QED BY <1>2, <1>3, <1>4, <1>7 DEF HistoryInv

\* The Hub dies with its lists and loads them from the files.
LEMMA RestartKeeps == ASSUME HistoryInv, RestartHub PROVE HistoryInv'
<1>0. /\ at \in [Sends \cup RelayAttempts -> Stages] /\ DOMAIN copy = Sends \cup RelayAttempts
      /\ RowsTrue /\ OutcomesLate /\ ClearedGone
  BY DEF HistoryInv
<1>1. /\ ops' = LoadOps /\ attempts' = LoadAttempts /\ clearing' = {}
      /\ raced' = (raced \/ clearing # {}) /\ UNCHANGED <<opsFile, attFile, forgotten, outcomes>>
      /\ at' = [s \in Sends \cup RelayAttempts |-> IF at[s] = "new" THEN "new" ELSE "done"]
      /\ copy' = [s \in Sends \cup RelayAttempts |-> <<>>]
  BY <1>0 DEF RestartHub
<1>2. /\ Truthful(LoadOps, outcomes) /\ OpenRows(LoadOps, outcomes) /\ Len(LoadOps) <= Capacity
      /\ \A i \in Ids(LoadOps) : \E f \in opsFile : i \in Ids(f)
  BY <1>0, LoadKeeps DEF RowsTrue
<1>3. /\ LoadAttempts \in Seq(AttRecord) /\ Len(LoadAttempts) <= Capacity
      /\ \A i \in Ids(LoadAttempts) : \E f \in attFile : i \in Ids(f)
  BY <1>0, LoadRelayKeeps DEF RowsTrue
<1>4. Truthful(<<>>, outcomes) /\ <<>> \in Seq(AttRecord)
  <2>1. <<>> \in Seq(OpRecord) /\ <<>> \in Seq(AttRecord) /\ DOMAIN <<>> = {}
    OBVIOUS
  <2> QED BY <2>1 DEF Truthful
<1>5. RowsTrue'
  BY <1>0, <1>1, <1>2, <1>3, <1>4 DEF RowsTrue
<1>6. OutcomesLate'
  BY <1>0, <1>1 DEF OutcomesLate
<1>7. ClearedGone'
  <2>1. ~raced' => ~raced /\ clearing = {}
    BY <1>1
  <2>2. \A s \in Sends \cup RelayAttempts : at'[s] \notin {"write_begin", "write_end"} /\ (at[s] = "done" => at'[s] = "done")
    BY <1>1
  <2>3. ~raced' => forgotten \cap (Ids(LoadOps) \cup Ids(LoadAttempts)) = {}
    BY <2>1, <1>0, <1>2, <1>3 DEF ClearedGone
  <2> QED BY <2>1, <2>2, <2>3, <1>0, <1>1 DEF ClearedGone, Writes
<1> QED BY <1>1, <1>5, <1>6, <1>7 DEF HistoryInv, Stages

\* The outcomes a transfer may have are records of it.
LEMMA OutcomeRecords ==
    ASSUME NEW s \in Sends, NEW r \in FailedRecords(s) \cup DeliveredRecords(s)
    PROVE  r \in OpRecord /\ r.id = s /\ r.state # InFlight
<1>1. \A safe, dup, cancelled \in BOOLEAN : FailureState(safe, dup, cancelled) \in Failures
  BY DEF FailureState, Failures
<1>2. InFlight \notin Failures \cup Delivered /\ MaxTicks \in Nat
  BY HistoryConstants DEF InFlight, Failures, Delivered
<1>3. CASE r \in FailedRecords(s)
  <2>1. PICK safe \in BOOLEAN, dup \in BOOLEAN, cancelled \in BOOLEAN :
          r = [id |-> s, state |-> FailureState(safe, dup, cancelled), bytes |-> 0]
    BY <1>3 DEF FailedRecords
  <2> QED BY <2>1, <1>1, <1>2 DEF OpRecord
<1>4. CASE r \in DeliveredRecords(s)
  <2>1. PICK d \in Delivered : r = [id |-> s, state |-> d, bytes |-> MaxTicks]
    BY <1>4 DEF DeliveredRecords
  <2> QED BY <2>1, <1>2 DEF OpRecord
<1> QED BY <1>3, <1>4

\* The histories' invariant is inductive.
LEMMA HistoryStep == HistoryInv /\ [HistoryNext]_historyVars => HistoryInv'
<1> SUFFICES ASSUME HistoryInv, [HistoryNext]_historyVars PROVE HistoryInv'
  OBVIOUS
<1>1. CASE UNCHANGED historyVars
  BY <1>1 DEF historyVars, HistoryInv, RowsTrue, Truthful, OpenRows, OutcomesLate, ClearedGone, Writes
<1>2. ASSUME NEW s \in Sends, DialFails(s) \/ FinishOutboundOperation(s) PROVE HistoryInv'
  <2>1. PICK r \in FailedRecords(s) \cup DeliveredRecords(s) :
          RecordOp(r) /\ outcomes' = [outcomes EXCEPT ![s] = {r}]
    BY <1>2 DEF DialFails, FinishOutboundOperation
  <2>2. at' = [at EXCEPT ![s] = "copy_end"] /\ at[s] \in {"new", "sending"}
    BY <1>2 DEF DialFails, FinishOutboundOperation, Step
  <2>3. UNCHANGED <<opsFile, attempts, attFile, clearing, forgotten, raced>>
    BY <1>2 DEF DialFails, FinishOutboundOperation, KeepRelay, KeepBounds
  <2>4. r \in OpRecord /\ r.id = s /\ r.state # InFlight
    BY OutcomeRecords
  <2> QED BY <2>1, <2>2, <2>3, <2>4, RecordKeeps
<1>3. ASSUME NEW s \in Sends, BeginOutboundOperation(s) PROVE HistoryInv'
  <2> DEFINE r == [id |-> s, state |-> InFlight, bytes |-> 0]
  <2>1. r \in OpRecord /\ r.id = s /\ r.state = InFlight
    BY HistoryConstants DEF OpRecord
  <2> HIDE DEF r
  <2>2. RecordOp(r) /\ outcomes' = outcomes
    BY <1>3 DEF BeginOutboundOperation, r
  <2>3. at' = [at EXCEPT ![s] = "copy_begin"] /\ at[s] \in {"new", "sending"}
    BY <1>3 DEF BeginOutboundOperation, Step
  <2>4. UNCHANGED <<opsFile, attempts, attFile, clearing, forgotten, raced>>
    BY <1>3 DEF BeginOutboundOperation, KeepRelay, KeepBounds
  <2> QED BY <2>1, <2>2, <2>3, <2>4, RecordKeeps
<1>4. ASSUME Expire PROVE HistoryInv'
  BY <1>4 DEF Expire, HistoryInv, RowsTrue, Truthful, OpenRows, OutcomesLate, ClearedGone, Writes
<1> QED BY <1>1, <1>2, <1>3, <1>4, CopyKeeps, WriteKeeps, AdvanceKeeps, RelayRowKeeps, CopyRelayKeeps,
           WriteRelayKeeps, ClearKeeps, RestartKeeps DEF HistoryNext, TransferNext, RelayHistoryNext

\* The invariant says what the run checks.
LEMMA HistoryImplies == HistoryInv => HistoryTruthful
<1> SUFFICES ASSUME HistoryInv PROVE HistoryTruthful
  OBVIOUS
<1>0. RowsTrue /\ ClearedGone
  BY DEF HistoryInv
<1>1. HistoryTypeOK
  <2>1. \A i \in DOMAIN attempts : attempts[i] \in AttRecord
    BY <1>0 DEF RowsTrue
  <2>2. \A r \in AttRecord : r.id \in RelayAttempts /\ r.state \in AttState
    BY DEF AttRecord
  <2>3. \A i \in DOMAIN ops : ops[i] \in OpRecord
    BY <1>0, RowsOf DEF RowsTrue
  <2> QED BY <2>1, <2>2, <2>3, <1>0 DEF HistoryTypeOK, RowsTrue
<1>2. OneTruthfulRow
  <2>1. \A items \in {ops} \cup opsFile : Truthful(items, outcomes)
    BY <1>0 DEF RowsTrue
  <2> QED BY <2>1, <1>0 DEF OneTruthfulRow, RowsTrue, Truthful, OpenRows
<1>3. ClearedStaysCleared
  BY <1>0 DEF ClearedStaysCleared, ClearedGone, AllIn
<1> QED BY <1>1, <1>2, <1>3 DEF HistoryTruthful

\* For any transfers and authorizations, room, ticks, uses of the clear button
\* and crashes: a transfer has one row, which never says anything but what was
\* recorded as its outcome, and what was cleared stays cleared unless a writer
\* or a crash came between (OperationLedger.Add, UpdateProgress, load,
\* clearOutboundOperations, and their like in relay_history.go).
THEOREM HistoriesTruthful == HistorySpec => []HistoryTruthful
<1>1. HistoryInit => HistoryInv
  BY HistoryStarts
<1>2. HistoryInv /\ [HistoryNext]_historyVars => HistoryInv'
  BY HistoryStep
<1>3. HistoryInv => HistoryTruthful
  BY HistoryImplies
<1> QED BY <1>1, <1>2, <1>3, PTL DEF HistorySpec

-----------------------------------------------------------------------------
(* The event stream.                                                       *)

\* Each id is greater than the ones before it.
Rising(s) == s \in Seq(Nat) /\ \A i, j \in 1..Len(s) : i < j => s[i] < s[j]

\* The last id that every subscriber has been told of.
Told == IF \E l \in Loggers : logging[l] # Idle THEN nextID - 1 ELSE nextID
\* The last id that went into the ring.
Kept == IF \E l \in Loggers : logging[l].at = "ring" THEN nextID - 1 ELSE nextID

\* One goroutine logs at a time, and it logs the newest event.
LoggersInTurn ==
    /\ nextID \in 0..MaxEvents
    /\ logging \in [Loggers -> [id : Nat, at : {"idle", "ring", "subscribers"}]]
    /\ \A l \in Loggers : /\ logging[l].at = "idle" <=> logging[l] = Idle
                          /\ logging[l] # Idle => logging[l].id = nextID /\ nextID > 0
    /\ \A l, m \in Loggers : logging[l] # Idle /\ logging[m] # Idle => l = m

\* The ring has the newest events, all of them from the oldest it has.
RingRecent ==
    /\ Rising(ring) /\ Len(ring) <= RingSize
    /\ Range(ring) \subseteq 1..Kept
    /\ Kept > 0 => Kept \in Range(ring)
    /\ \A id \in Range(ring) : id..Kept \subseteq Range(ring)

\* What was written to a browser, on its way (tr) or arrived (rc), is in order,
\* ends with lastSentID (sn), and has no gap but for excused events (ex).
Shown(st, sn, tr, rc, ex, last) ==
    LET W == Range(rc) \cup Range(tr) IN
    /\ Rising(tr) /\ Rising(rc) /\ \A x \in Range(rc) : \A y \in Range(tr) : x < y
    /\ W \subseteq 1..last /\ sn \in 0..last
    /\ \A x, y \in W : \A id \in x..y : id \in W \cup ex
    /\ st = "closed" => tr = <<>> /\ sn = 0
    /\ st # "closed" => (W = {} => sn = 0) /\ (W # {} => sn \in W /\ \A x \in W : x <= sn)

\* The queue of a subscriber has what it was told since the first event in it.
Queued(st, q, ex, told) ==
    /\ Rising(q) /\ Len(q) <= QueueSize /\ Range(q) \subseteq 1..told
    /\ \A x \in Range(q) : \A id \in x..told : id \in Range(q) \cup ex
    /\ st = "closed" => q = <<>>

\* The snapshot (rp) is of events the browser has not had.
Replaying(st, rp, sn, kept) ==
    /\ Rising(rp) /\ \A y \in Range(rp) : sn < y /\ y <= kept
    /\ rp # <<>> => st = "replay" /\ sn > 0

\* What a browser with a place in the log has not had is in the snapshot or in
\* the queue, and where both have it the snapshot comes first.
Pending(st, q, rp, sn, ex, told) ==
    st \in {"replay", "live"} /\ sn > 0 =>
        /\ \A id \in (sn + 1)..told : id \in Range(q) \cup Range(rp) \cup ex
        /\ \A id \in Range(q) : \A y \in Range(rp) : sn < id /\ id <= y => id \in Range(rp) \cup ex

\* All that is known of one browser.
ReaderServed(r) ==
    /\ Shown(stream[r], sent[r], transit[r], received[r], excused[r], nextID)
    /\ Queued(stream[r], queue[r], excused[r], Told)
    /\ Replaying(stream[r], replay[r], sent[r], Kept)
    /\ Pending(stream[r], queue[r], replay[r], sent[r], excused[r], Told)

\* The kinds of the variables, and the budget of streams.
StreamTypes ==
    /\ stream \in [Readers -> {"closed", "subscribed", "replay", "live"}]
    /\ excused \in [Readers -> SUBSET Nat]
    /\ DOMAIN queue = Readers /\ DOMAIN replay = Readers /\ DOMAIN sent = Readers
    /\ DOMAIN transit = Readers /\ DOMAIN received = Readers
    /\ lingering \in Nat /\ Cardinality(Streams) + lingering <= MaxStreams

\* The inductive invariant of the event stream.
StreamInv == StreamTypes /\ LoggersInTurn /\ RingRecent /\ \A r \in Readers : ReaderServed(r)
-----------------------------------------------------------------------------
\* One more id, greater than all before.
LEMMA RisingAppend ==
    ASSUME NEW s, Rising(s), NEW x \in Nat, \A y \in Range(s) : y < x
    PROVE  Rising(Append(s, x)) /\ Range(Append(s, x)) = Range(s) \cup {x} /\ Len(Append(s, x)) = Len(s) + 1
<1> DEFINE a == Append(s, x)
<1>1. s \in Seq(Nat) /\ Len(s) \in Nat /\ DOMAIN s = 1..Len(s)
  BY DEF Rising
<1>2. /\ a \in Seq(Nat) /\ Len(a) = Len(s) + 1 /\ DOMAIN a = 1..(Len(s) + 1)
      /\ a[Len(s) + 1] = x /\ \A i \in 1..Len(s) : a[i] = s[i]
  BY <1>1
<1> HIDE DEF a
<1>3. \A i \in 1..(Len(s) + 1) : i \in 1..Len(s) \/ i = Len(s) + 1
  BY <1>1
<1>4. Range(a) = Range(s) \cup {x}
  BY <1>1, <1>2, <1>3 DEF Range
<1>5. \A i \in 1..Len(s) : s[i] < x
  BY <1>1 DEF Range
<1>6. ASSUME NEW i \in 1..(Len(s) + 1), NEW j \in 1..(Len(s) + 1), i < j PROVE a[i] < a[j]
  <2>1. i \in 1..Len(s)
    BY <1>1, <1>6
  <2>2. CASE j \in 1..Len(s)
    BY <2>1, <2>2, <1>2, <1>6 DEF Rising
  <2>3. CASE j = Len(s) + 1
    BY <2>1, <2>3, <1>2, <1>5
  <2> QED BY <2>2, <2>3, <1>3
<1> QED BY <1>2, <1>4, <1>6 DEF Rising, a

\* The first id is the least, and the rest rises.
LEMMA RisingTail ==
    ASSUME NEW s, Rising(s), s # <<>>
    PROVE  /\ Rising(Tail(s)) /\ Len(Tail(s)) = Len(s) - 1 /\ Len(s) \in Nat
           /\ Head(s) \in Nat /\ Head(s) = s[1] /\ Range(s) = {Head(s)} \cup Range(Tail(s))
           /\ \A y \in Range(Tail(s)) : y \in Nat /\ Head(s) < y
<1> DEFINE t == Tail(s)
<1>1. s \in Seq(Nat) /\ Len(s) \in Nat \ {0} /\ DOMAIN s = 1..Len(s) /\ Head(s) = s[1] /\ Head(s) \in Nat
  BY DEF Rising
<1>2. t \in Seq(Nat) /\ Len(t) = Len(s) - 1 /\ DOMAIN t = 1..(Len(s) - 1) /\ \A i \in 1..(Len(s) - 1) : t[i] = s[i + 1]
  BY <1>1
<1> HIDE DEF t
<1>3. \A i \in 1..(Len(s) - 1) : i + 1 \in 1..Len(s) /\ 1 < i + 1
  BY <1>1
<1>4. Rising(t)
  BY <1>1, <1>2, <1>3 DEF Rising
<1>5. \A y \in Range(t) : y \in Nat /\ s[1] < y
  <2> SUFFICES ASSUME NEW i \in 1..(Len(s) - 1) PROVE t[i] \in Nat /\ s[1] < t[i]
    BY <1>2 DEF Range
  <2>1. 1 \in 1..Len(s) /\ i + 1 \in 1..Len(s) /\ 1 < i + 1
    BY <1>1, <1>3
  <2> QED BY <2>1, <1>1, <1>2 DEF Rising
<1>6. Range(s) = {s[1]} \cup Range(t)
  <2>1. \A i \in 1..Len(s) : i = 1 \/ (i - 1 \in 1..(Len(s) - 1) /\ (i - 1) + 1 = i)
    BY <1>1
  <2>2. Range(s) \subseteq {s[1]} \cup Range(t)
    <3> SUFFICES ASSUME NEW i \in 1..Len(s), i # 1 PROVE s[i] \in Range(t)
      BY <1>1 DEF Range
    <3>1. t[i - 1] = s[i] /\ i - 1 \in DOMAIN t
      BY <2>1, <1>2
    <3> QED BY <3>1 DEF Range
  <2>3. s[1] \in Range(s) /\ Range(t) \subseteq Range(s)
    <3>1. 1 \in DOMAIN s
      BY <1>1
    <3>2. \A i \in DOMAIN t : i + 1 \in DOMAIN s /\ t[i] = s[i + 1]
      BY <1>1, <1>2, <1>3
    <3> QED BY <3>1, <3>2 DEF Range
  <2> QED BY <2>2, <2>3
<1> QED BY <1>1, <1>2, <1>4, <1>5, <1>6 DEF t

\* What Keep keeps of a rising sequence rises, and is what passes.
LEMMA KeepRising ==
    ASSUME NEW s, Rising(s), NEW S
    PROVE  Rising(Keep(s, S)) /\ Range(Keep(s, S)) = Range(s) \cap S
<1> DEFINE t == Keep(s, S)
<1>1. s \in Seq(Nat) /\ Len(s) \in Nat /\ DOMAIN s = 1..Len(s)
  BY DEF Rising
<1>2. KeptOf(t, Len(s), s, S, Nat)
  BY <1>1, KeepKeeps
<1> HIDE DEF t
<1>3. PICK pos : /\ StandAt(pos, t, Len(s), s)
                 /\ \A j \in 1..Len(s) : s[j] \in S => \E i \in 1..Len(t) : pos[i] = j
  BY <1>2 DEF KeptOf
<1>4. t \in Seq(Nat) /\ Len(t) \in Nat /\ DOMAIN t = 1..Len(t) /\ \A i \in 1..Len(t) : t[i] \in S
  BY <1>2 DEF KeptOf
<1>5. \A i \in 1..Len(t) : pos[i] \in 1..Len(s) /\ t[i] = s[pos[i]]
  BY <1>3 DEF StandAt
<1>6. Rising(t)
  BY <1>3, <1>4, <1>5 DEF Rising, StandAt
<1>7. Range(t) = Range(s) \cap S
  <2>1. \A i \in DOMAIN t : t[i] \in S /\ pos[i] \in DOMAIN s /\ t[i] = s[pos[i]]
    BY <1>1, <1>4, <1>5
  <2>2. ASSUME NEW j \in DOMAIN s, s[j] \in S PROVE \E i \in DOMAIN t : t[i] = s[j]
    <3>1. PICK i \in 1..Len(t) : pos[i] = j
      BY <1>1, <1>3, <2>2
    <3> QED BY <3>1, <1>4, <1>5
  <2> QED BY <2>1, <2>2 DEF Range
<1> QED BY <1>6, <1>7 DEF t

\* Nothing rises, and has no elements; where there are none there is nothing.
LEMMA NothingRises == /\ Rising(<<>>) /\ Range(<<>>) = {} /\ Len(<<>>) = 0
                      /\ \A s : Rising(s) /\ s # <<>> => Head(s) \in Range(s)
<1>1. <<>> \in Seq(Nat) /\ Len(<<>>) = 0 /\ DOMAIN <<>> = {}
  OBVIOUS
<1>2. Rising(<<>>) /\ Range(<<>>) = {}
  BY <1>1 DEF Rising, Range
<1> QED BY <1>1, <1>2, RisingTail

\* The last id of a rising sequence is its greatest.
LEMMA RisingLast ==
    ASSUME NEW s, Rising(s), s # <<>>
    PROVE  Last(s) \in Range(s) /\ s[1] \in Range(s) /\ \A x \in Range(s) : s[1] <= x /\ x <= Last(s)
<1>1. s \in Seq(Nat) /\ Len(s) \in Nat \ {0} /\ DOMAIN s = 1..Len(s) /\ Last(s) = s[Len(s)]
  BY DEF Rising, Last
<1>2. 1 \in 1..Len(s) /\ Len(s) \in 1..Len(s)
  BY <1>1
<1>3. ASSUME NEW i \in 1..Len(s) PROVE s[1] <= s[i] /\ s[i] <= s[Len(s)]
  <2>1. s[1] \in Nat /\ s[i] \in Nat /\ s[Len(s)] \in Nat
    BY <1>1, <1>2
  <2>2. (i = 1 \/ 1 < i) /\ (i = Len(s) \/ i < Len(s))
    <3>1. Len(s) \in Nat
      BY <1>1
    <3> QED BY <3>1
  <2> QED BY <2>1, <2>2, <1>2 DEF Rising
<1> QED BY <1>1, <1>2, <1>3 DEF Range

-----------------------------------------------------------------------------
\* At first nothing is logged and nobody listens.
LEMMA StreamStarts == StreamInit => StreamInv
<1> SUFFICES ASSUME StreamInit PROVE StreamInv
  OBVIOUS
<1>1. Told = 0 /\ Kept = 0
  BY DEF StreamInit, Told, Kept, Idle
<1>2. StreamTypes
  <2>1. Streams = {}
    BY DEF Streams, StreamInit
  <2>2. Cardinality(Streams) = 0
    BY <2>1, FS_EmptySet
  <2> QED BY <2>2, StreamAssumption DEF StreamInit, StreamTypes
<1>3. LoggersInTurn
  BY StreamAssumption DEF StreamInit, LoggersInTurn, Idle
<1>4. RingRecent
  BY <1>1, NothingRises, StreamAssumption DEF StreamInit, RingRecent
<1>5. ASSUME NEW r \in Readers PROVE ReaderServed(r)
  BY <1>1, NothingRises, StreamAssumption
     DEF StreamInit, ReaderServed, Shown, Queued, Replaying, Pending
<1> QED BY <1>2, <1>3, <1>4, <1>5 DEF StreamInv

\* The log and what it has reached, by the state of the goroutine that logs.
LEMMA LogStands ==
    ASSUME LoggersInTurn
    PROVE  /\ Told \in Nat /\ Kept \in Nat /\ nextID \in Nat /\ Told <= Kept /\ Kept <= Told + 1 /\ Kept <= nextID
           /\ \A l \in Loggers : /\ logging[l].at = "ring" => Told = nextID - 1 /\ Kept = nextID - 1 /\ nextID > 0
                                 /\ logging[l].at = "subscribers" => Told = nextID - 1 /\ Kept = nextID /\ nextID > 0
           /\ (\A l \in Loggers : logging[l] = Idle) => Told = nextID /\ Kept = nextID
<1>0. Idle.at = "idle" /\ nextID \in Nat
  BY StreamAssumption DEF Idle, LoggersInTurn
<1>1. \A l \in Loggers : logging[l].at \in {"ring", "subscribers"} => logging[l] # Idle
  BY <1>0
<1>2. CASE \A l \in Loggers : logging[l] = Idle
  BY <1>0, <1>2 DEF Told, Kept
<1>3. CASE \E l \in Loggers : logging[l] # Idle
  <2>1. PICK l \in Loggers : logging[l] # Idle
    BY <1>3
  <2>2. nextID > 0 /\ logging[l].at \in {"ring", "subscribers"} /\ \A m \in Loggers : logging[m] # Idle => m = l
    BY <2>1 DEF LoggersInTurn
  <2>3. Told = nextID - 1
    BY <2>1 DEF Told
  <2>4. CASE logging[l].at = "ring"
    <3>1. Kept = nextID - 1
      BY <2>4 DEF Kept
    <3> QED BY <1>0, <1>1, <2>1, <2>2, <2>3, <2>4, <3>1
  <2>5. CASE logging[l].at = "subscribers"
    <3>1. Kept = nextID
      BY <1>1, <2>2, <2>5 DEF Kept
    <3> QED BY <1>0, <1>1, <2>1, <2>2, <2>3, <2>5, <3>1
  <2> QED BY <2>2, <2>4, <2>5
<1> QED BY <1>2, <1>3

\* An event gets its number.
LEMMA BeginLogKeeps ==
    ASSUME StreamInv, NEW l \in Loggers, BeginLog(l)
    PROVE  LoggersInTurn' /\ Told' = Told /\ Kept' = Kept /\ nextID' = nextID + 1
<1>0. LoggersInTurn /\ nextID \in Nat /\ Told = nextID /\ Kept = nextID
  BY LogStands DEF StreamInv, BeginLog
<1>1. /\ nextID' = nextID + 1 /\ nextID < MaxEvents
      /\ logging' = [logging EXCEPT ![l] = [id |-> nextID + 1, at |-> "ring"]]
      /\ \A m \in Loggers : logging[m] = Idle
  BY DEF BeginLog
<1>2. [id |-> nextID + 1, at |-> "ring"] # Idle
  BY <1>0 DEF Idle
<1>3. /\ logging'[l] = [id |-> nextID + 1, at |-> "ring"]
      /\ \A m \in Loggers : m # l => logging'[m] = Idle
  BY <1>0, <1>1 DEF LoggersInTurn
<1>4. LoggersInTurn'
  BY <1>0, <1>1, <1>2, <1>3, StreamAssumption DEF LoggersInTurn, Idle
<1>5. Told' = nextID /\ Kept' = nextID
  <2>1. logging'[l] # Idle /\ logging'[l].at = "ring"
    BY <1>2, <1>3
  <2>2. Told' = nextID' - 1 /\ Kept' = nextID' - 1
    BY <2>1 DEF Told, Kept
  <2> QED BY <2>2, <1>0, <1>1
<1> QED BY <1>0, <1>1, <1>4, <1>5

\* It goes into the ring, where the oldest makes room.
LEMMA RingAppendKeeps ==
    ASSUME StreamInv, NEW l \in Loggers, RingAppend(l)
    PROVE  LoggersInTurn' /\ RingRecent' /\ Told' = Told /\ Kept' = Kept + 1 /\ nextID' = nextID
<1>0. /\ LoggersInTurn /\ RingRecent /\ logging[l].at = "ring" /\ logging[l] # Idle /\ logging[l].id = nextID
      /\ Told = nextID - 1 /\ Kept = nextID - 1 /\ nextID > 0 /\ nextID \in Nat
      /\ RingSize \in Nat \ {0} /\ nextID' = nextID
  <2>1. LoggersInTurn /\ RingRecent /\ logging[l].at = "ring" /\ nextID' = nextID
    BY DEF StreamInv, RingAppend
  <2>2. logging[l] # Idle
    BY <2>1 DEF Idle
  <2> QED BY <2>1, <2>2, LogStands, StreamAssumption DEF LoggersInTurn
<1>1. logging' = [logging EXCEPT ![l].at = "subscribers"] /\ logging \in [Loggers -> [id : Nat, at : {"idle", "ring", "subscribers"}]]
  BY <1>0 DEF RingAppend, LoggersInTurn
<1>2. /\ logging'[l] = [id |-> nextID, at |-> "subscribers"]
      /\ \A m \in Loggers : m # l => logging'[m] = logging[m] /\ logging[m] = Idle
  <2>1. logging[l] = [id |-> nextID, at |-> "ring"]
    BY <1>0, <1>1
  <2>2. logging'[l] = [logging[l] EXCEPT !.at = "subscribers"]
    BY <1>1
  <2>3. \A m \in Loggers : m # l => logging[m] = Idle
    BY <1>0 DEF LoggersInTurn
  <2> QED BY <2>1, <2>2, <2>3, <1>1
<1>3. [id |-> nextID, at |-> "subscribers"] # Idle
  BY DEF Idle
<1>4. LoggersInTurn'
  <2>1. logging' \in [Loggers -> [id : Nat, at : {"idle", "ring", "subscribers"}]]
    BY <1>0, <1>1
  <2> QED BY <2>1, <1>0, <1>2, <1>3 DEF LoggersInTurn, Idle
<1>5. Told' = nextID - 1 /\ Kept' = nextID
  <2>1. logging'[l] # Idle
    BY <1>2, <1>3
  <2>2. \A m \in Loggers : logging'[m].at # "ring"
    BY <1>2 DEF Idle
  <2> QED BY <2>1, <2>2, <1>0 DEF Told, Kept
<1> DEFINE old == IF Len(ring) < RingSize THEN ring ELSE Tail(ring)
<1>6. Rising(ring) /\ Len(ring) \in Nat /\ Len(ring) <= RingSize /\ \A x \in Range(ring) : x \in 1..Kept
  BY <1>0 DEF RingRecent, Rising
<1>7. /\ Rising(old) /\ Len(old) < RingSize /\ Range(old) \subseteq Range(ring) /\ Len(old) \in Nat
      /\ \A id \in Range(old) : id..Kept \subseteq Range(old)
  <2>1. CASE Len(ring) < RingSize
    BY <1>0, <1>6, <2>1 DEF RingRecent
  <2>2. CASE ~(Len(ring) < RingSize)
    <3>1. ring # <<>>
      BY <1>0, <2>2
    <3>2. /\ Rising(Tail(ring)) /\ Len(Tail(ring)) = Len(ring) - 1 /\ Head(ring) \in Nat
          /\ Range(ring) = {Head(ring)} \cup Range(Tail(ring))
          /\ \A y \in Range(Tail(ring)) : y \in Nat /\ Head(ring) < y
      BY <3>1, <1>6, RisingTail
    <3>3. ASSUME NEW id \in Range(Tail(ring)), NEW x \in id..Kept PROVE x \in Range(Tail(ring))
      <4>1. x \in Range(ring)
        BY <3>2, <1>0 DEF RingRecent
      <4>2. id \in Nat /\ Head(ring) < id /\ id <= x /\ x \in Int
        BY <3>2
      <4> QED BY <4>1, <4>2, <3>2
    <3> QED BY <3>2, <3>3, <1>0, <1>6, <2>2
  <2> QED BY <2>1, <2>2
<1>8. ring' = Append(old, nextID)
  BY <1>0 DEF RingAppend
<1> HIDE DEF old
<1>9. Rising(ring') /\ Range(ring') = Range(old) \cup {nextID} /\ Len(ring') = Len(old) + 1
  <2>1. \A y \in Range(old) : y < nextID
    BY <1>0, <1>6, <1>7
  <2> QED BY <2>1, <1>0, <1>7, <1>8, RisingAppend
<1>10. RingRecent'
  <2>1. Range(ring') \subseteq 1..Kept'
    BY <1>0, <1>5, <1>6, <1>7, <1>9
  <2>2. ASSUME NEW id \in Range(ring'), NEW x \in id..Kept' PROVE x \in Range(ring')
    <3>1. x \in Int /\ id \in Int /\ (x = nextID \/ x <= Kept)
      BY <1>0, <1>5, <2>1
    <3>2. CASE x = nextID
      BY <3>2, <1>9
    <3>3. CASE x # nextID
      <4>1. id # nextID /\ x \in id..Kept
        BY <3>1, <3>3, <1>0, <1>5
      <4> QED BY <4>1, <1>7, <1>9
    <3> QED BY <3>2, <3>3
  <2>3. Len(ring') <= RingSize /\ Kept' \in Range(ring')
    BY <1>0, <1>5, <1>7, <1>9
  <2> QED BY <2>1, <2>2, <2>3, <1>9 DEF RingRecent
<1> QED BY <1>0, <1>4, <1>5, <1>10

\* It is told to the subscribers, and the next may begin.
LEMMA BroadcastEnds ==
    ASSUME StreamInv, NEW l \in Loggers, Broadcast(l)
    PROVE  /\ LoggersInTurn' /\ Told' = Told + 1 /\ Kept' = Kept /\ nextID' = nextID
           /\ logging[l].id = nextID /\ Told = nextID - 1 /\ Kept = nextID /\ nextID > 0 /\ nextID \in Nat
<1>0. /\ LoggersInTurn /\ logging[l].at = "subscribers" /\ logging[l] # Idle /\ logging[l].id = nextID
      /\ Told = nextID - 1 /\ Kept = nextID /\ nextID > 0 /\ nextID \in Nat /\ nextID' = nextID
  <2>1. LoggersInTurn /\ logging[l].at = "subscribers" /\ nextID' = nextID
    BY DEF StreamInv, Broadcast
  <2>2. logging[l] # Idle
    BY <2>1 DEF Idle
  <2> QED BY <2>1, <2>2, LogStands DEF LoggersInTurn
<1>1. \A m \in Loggers : logging'[m] = Idle
  BY <1>0 DEF Broadcast, LoggersInTurn
<1>2. LoggersInTurn'
  <2>1. logging' = [logging EXCEPT ![l] = Idle] /\ Idle \in [id : Nat, at : {"idle", "ring", "subscribers"}] /\ Idle.at = "idle"
    BY DEF Broadcast, Idle
  <2> QED BY <2>1, <1>0, <1>1 DEF LoggersInTurn
<1>3. Told' = nextID /\ Kept' = nextID
  BY <1>0, <1>1 DEF Told, Kept, Idle
<1> QED BY <1>0, <1>2, <1>3

-----------------------------------------------------------------------------
\* What a browser has stays right while events are only numbered and kept.
LEMMA LaterServed ==
    ASSUME NEW r \in Readers, ReaderServed(r), LoggersInTurn, LoggersInTurn',
           nextID' >= nextID, Told' = Told, Kept' >= Kept,
           UNCHANGED <<stream[r], queue[r], replay[r], sent[r], transit[r], received[r], excused[r]>>
    PROVE  ReaderServed(r)'
<1>0. nextID \in Nat /\ Kept \in Nat /\ Told \in Nat /\ nextID' \in Nat /\ Kept' \in Nat
  <2>1. nextID' \in Nat /\ Kept' \in Nat
    <3>1. (nextID \in Nat /\ Kept \in Nat)'
      BY LogStands, PTL
    <3> QED BY <3>1
  <2> QED BY <2>1, LogStands
<1>1. Shown(stream[r], sent[r], transit[r], received[r], excused[r], nextID')
  BY <1>0 DEF ReaderServed, Shown
<1>2. Replaying(stream[r], replay[r], sent[r], Kept')
  <2>1. \A y \in Range(replay[r]) : y \in Nat
    BY DEF ReaderServed, Replaying, Rising, Range
  <2> QED BY <1>0, <2>1 DEF ReaderServed, Replaying
<1> QED BY <1>1, <1>2 DEF ReaderServed

\* An event is told to a subscriber, or its queue is full and it is excused.
Tells(q, ex, q2, ex2, id) ==
    \/ q2 = q /\ ex2 = ex \cup {id}
    \/ q2 = Append(q, id) /\ ex2 = ex /\ Len(q) < QueueSize

\* Either way the subscriber is served.
LEMMA ToldServed ==
    ASSUME NEW st, NEW q, NEW rp, NEW sn, NEW tr, NEW rc, NEW ex \in SUBSET Nat, NEW told \in Nat, NEW kept,
           kept = told + 1, QueueSize \in Nat,
           Shown(st, sn, tr, rc, ex, told + 1), Queued(st, q, ex, told), Replaying(st, rp, sn, kept),
           Pending(st, q, rp, sn, ex, told), st # "closed",
           NEW q2, NEW ex2 \in SUBSET Nat,
           Tells(q, ex, q2, ex2, told + 1)
    PROVE  /\ Shown(st, sn, tr, rc, ex2, told + 1) /\ Queued(st, q2, ex2, told + 1)
           /\ Pending(st, q2, rp, sn, ex2, told + 1)
<1>1. Rising(q) /\ Range(q) \subseteq 1..told /\ Len(q) \in Nat /\ \A x \in Range(q) : \A id \in x..told : id \in Range(q) \cup ex
  BY DEF Queued, Rising
<1>2. /\ Rising(q2) /\ Len(q2) <= QueueSize /\ Range(q2) \subseteq Range(q) \cup {told + 1}
      /\ Range(q) \subseteq Range(q2) /\ ex \subseteq ex2 /\ told + 1 \in Range(q2) \cup ex2
  <2>1. CASE q2 = q /\ ex2 = ex \cup {told + 1}
    BY <1>1, <2>1 DEF Queued
  <2>2. CASE q2 = Append(q, told + 1) /\ ex2 = ex /\ Len(q) < QueueSize
    <3>1. \A y \in Range(q) : y < told + 1
      BY <1>1
    <3>2. Rising(q2) /\ Range(q2) = Range(q) \cup {told + 1} /\ Len(q2) = Len(q) + 1
      BY <1>1, <2>2, <3>1, RisingAppend
    <3> QED BY <1>1, <2>2, <3>2
  <2> QED BY <2>1, <2>2 DEF Tells
<1>3. Shown(st, sn, tr, rc, ex2, told + 1)
  BY <1>2 DEF Shown
<1>4. Queued(st, q2, ex2, told + 1)
  <2>1. Range(q2) \subseteq 1..(told + 1)
    BY <1>1, <1>2
  <2>2. ASSUME NEW x \in Range(q2), NEW id \in x..(told + 1) PROVE id \in Range(q2) \cup ex2
    <3>1. x \in Nat /\ id \in Int
      BY <2>1
    <3>2. CASE id = told + 1
      BY <3>2, <1>2
    <3>3. CASE id # told + 1
      <4>1. x \in Range(q) /\ id \in x..told
        BY <3>1, <3>3, <1>2
      <4> QED BY <4>1, <1>1, <1>2
    <3> QED BY <3>2, <3>3
  <2> QED BY <2>1, <2>2, <1>2 DEF Queued
<1>5. Pending(st, q2, rp, sn, ex2, told + 1)
  <2> SUFFICES ASSUME st \in {"replay", "live"}, sn > 0
               PROVE  /\ \A id \in (sn + 1)..(told + 1) : id \in Range(q2) \cup Range(rp) \cup ex2
                      /\ \A id \in Range(q2) : \A y \in Range(rp) : sn < id /\ id <= y => id \in Range(rp) \cup ex2
    BY DEF Pending
  <2>0. sn \in Nat
    BY DEF Shown
  <2>1. ASSUME NEW id \in (sn + 1)..(told + 1) PROVE id \in Range(q2) \cup Range(rp) \cup ex2
    <3>1. CASE id = told + 1
      BY <3>1, <1>2
    <3>2. CASE id # told + 1
      <4>1. id \in (sn + 1)..told
        BY <3>2, <2>0
      <4> QED BY <4>1, <1>2 DEF Pending
    <3> QED BY <3>1, <3>2
  <2>2. ASSUME NEW id \in Range(q2), NEW y \in Range(rp), sn < id, id <= y PROVE id \in Range(rp) \cup ex2
    <3>1. CASE id \in Range(q)
      BY <3>1, <2>2, <1>2 DEF Pending
    <3>2. CASE id = told + 1
      <4>1. y <= told + 1 /\ y \in Nat
        BY DEF Replaying, Rising, Range
      <4>2. y = told + 1
        BY <4>1, <2>2, <3>2
      <4> QED BY <4>2, <3>2
    <3> QED BY <3>1, <3>2, <1>2
  <2> QED BY <2>1, <2>2
<1> QED BY <1>3, <1>4, <1>5

\* An event is written to the browser: greater than all it has, nothing between
\* them but what is excused.
LEMMA WriteShows ==
    ASSUME NEW st, st # "closed", NEW sn, NEW tr, NEW rc, NEW ex, NEW last \in Nat,
           Shown(st, sn, tr, rc, ex, last), NEW h \in 1..last, sn < h,
           sn > 0 => \A id \in (sn + 1)..(h - 1) : id \in ex
    PROVE  Shown(st, h, Append(tr, h), rc, ex, last)
<1> DEFINE W == Range(rc) \cup Range(tr)
           V == W \cup {h}
           t == Append(tr, h)
<1>1. /\ Rising(tr) /\ Rising(rc) /\ \A x \in Range(rc) : \A y \in Range(tr) : x < y
      /\ W \subseteq 1..last /\ sn \in 0..last
      /\ \A x, y \in W : \A id \in x..y : id \in W \cup ex
      /\ (W = {} => sn = 0) /\ (W # {} => sn \in W /\ \A x \in W : x <= sn)
  BY DEF Shown
<1>2. \A x \in W : x < h /\ x \in Nat
  BY <1>1
<1>3. Rising(t) /\ Range(t) = Range(tr) \cup {h}
  <2>1. \A y \in Range(tr) : y < h
    BY <1>2
  <2> QED BY <2>1, <1>1, RisingAppend
<1> HIDE DEF t
<1>4. Range(rc) \cup Range(t) = V
  BY <1>3
<1>5. ASSUME NEW x \in V, NEW y \in V, NEW id \in x..y PROVE id \in V \cup ex
  <2> HIDE DEF V, W
  <2>0. V = W \cup {h}
    BY DEF V
  <2>1. CASE x \in W /\ y \in W
    BY <2>0, <2>1, <1>1, <1>5
  <2>2. CASE x = h
    <3>1. id = h
      BY <2>0, <2>2, <1>2, <1>5
    <3> QED BY <2>0, <3>1
  <2>3. CASE x \in W /\ y = h
    <3>1. sn \in W /\ sn \in Nat /\ x \in Nat /\ sn > 0 /\ id \in x..h
      BY <2>3, <1>1, <1>5
    <3>2. id \in x..sn \/ id \in (sn + 1)..(h - 1) \/ id = h
      BY <3>1
    <3>3. CASE id \in x..sn
      BY <2>0, <2>3, <3>1, <3>3, <1>1
    <3> QED BY <2>0, <3>1, <3>2, <3>3
  <2> QED BY <2>0, <2>1, <2>2, <2>3
<1>6. \A x \in Range(rc) : \A y \in Range(t) : x < y
  BY <1>1, <1>2, <1>3
<1>7. V \subseteq 1..last /\ h \in 0..last /\ h \in V /\ (\A x \in V : x <= h)
  BY <1>1, <1>2
<1> QED BY <1>1, <1>3, <1>4, <1>5, <1>6, <1>7 DEF Shown, t

\* The snapshot, or the live queue, is written from its head.
LEMMA ReplayWrites ==
    ASSUME NEW q, NEW rp, NEW sn, NEW tr, NEW rc, NEW ex, NEW told \in Nat, NEW kept \in Nat, NEW last \in Nat,
           kept <= told + 1, kept <= last,
           Shown("replay", sn, tr, rc, ex, last), Queued("replay", q, ex, told), Replaying("replay", rp, sn, kept),
           Pending("replay", q, rp, sn, ex, told), rp # <<>>
    PROVE  LET h == Head(rp) IN
           /\ Shown("replay", h, Append(tr, h), rc, ex, last)
           /\ Replaying("replay", Tail(rp), h, kept) /\ Pending("replay", q, Tail(rp), h, ex, told)
<1> DEFINE h == Head(rp)
<1>0. /\ sn > 0 /\ sn \in Nat /\ Rising(rp) /\ \A y \in Range(rp) : sn < y /\ y <= kept
      /\ \A x \in Range(q) : x \in 1..told
      /\ \A id \in (sn + 1)..told : id \in Range(q) \cup Range(rp) \cup ex
      /\ \A id \in Range(q) : \A y \in Range(rp) : sn < id /\ id <= y => id \in Range(rp) \cup ex
  BY DEF Shown, Queued, Replaying, Pending
<1>1. /\ Rising(Tail(rp)) /\ h \in Nat /\ Range(rp) = {h} \cup Range(Tail(rp))
      /\ \A y \in Range(Tail(rp)) : y \in Nat /\ h < y
  BY <1>0, RisingTail
<1> HIDE DEF h
<1>2. h \in Range(rp) /\ sn < h /\ h <= kept /\ h \in 1..last
  <2>1. h \in Range(rp)
    BY <1>1
  <2>2. sn < h /\ h <= kept
    BY <1>0, <2>1
  <2> QED BY <1>0, <1>1, <2>1, <2>2
<1>3. ASSUME NEW id \in (sn + 1)..(h - 1) PROVE id \in ex
  <2>1. CASE id \in (sn + 1)..told
    <3>1. id \notin Range(rp)
      BY <1>1
    <3>2. id \in Range(q) => id \in ex
      BY <3>1, <1>0, <1>2
    <3> QED BY <2>1, <3>1, <3>2, <1>0
  <2>2. id <= told
    BY <1>0, <1>2, <1>1
  <2> QED BY <1>0, <2>1, <2>2
<1>4. Shown("replay", h, Append(tr, h), rc, ex, last)
  BY <1>2, <1>3, WriteShows
<1>5. Replaying("replay", Tail(rp), h, kept)
  BY <1>0, <1>1, <1>2 DEF Replaying
<1>6. Pending("replay", q, Tail(rp), h, ex, told)
  <2>1. ASSUME NEW id \in (h + 1)..told PROVE id \in Range(q) \cup Range(Tail(rp)) \cup ex
    <3>1. id \in (sn + 1)..told /\ id # h
      BY <1>0, <1>1, <1>2
    <3> QED BY <3>1, <1>0, <1>1
  <2>2. ASSUME NEW id \in Range(q), NEW y \in Range(Tail(rp)), h < id, id <= y
        PROVE  id \in Range(Tail(rp)) \cup ex
    <3>1. y \in Range(rp) /\ sn < id /\ id # h
      BY <1>0, <1>1, <1>2, <2>2
    <3> QED BY <3>1, <2>2, <1>0, <1>1
  <2> QED BY <2>1, <2>2 DEF Pending
<1> QED BY <1>4, <1>5, <1>6 DEF h

\* A live event is written, or the snapshot has already shown it.
LEMMA DeliverWrites ==
    ASSUME NEW q, NEW sn, NEW tr, NEW rc, NEW ex, NEW told \in Nat, NEW last \in Nat, told <= last,
           Shown("live", sn, tr, rc, ex, last), Queued("live", q, ex, told),
           Pending("live", q, <<>>, sn, ex, told), q # <<>>
    PROVE  LET h == Head(q) IN
           /\ Queued("live", Tail(q), ex, told)
           /\ h <= sn => Pending("live", Tail(q), <<>>, sn, ex, told)
           /\ ~ (h <= sn) => /\ Shown("live", h, Append(tr, h), rc, ex, last)
                             /\ Pending("live", Tail(q), <<>>, h, ex, told)
<1> DEFINE h == Head(q)
<1>0. /\ sn \in Nat /\ Rising(q) /\ Len(q) <= QueueSize /\ Range(<<>>) = {}
      /\ \A x \in Range(q) : x \in 1..told
      /\ \A x \in Range(q) : \A id \in x..told : id \in Range(q) \cup ex
      /\ sn > 0 => \A id \in (sn + 1)..told : id \in Range(q) \cup ex
  BY NothingRises DEF Shown, Queued, Pending
<1>1. /\ Rising(Tail(q)) /\ h \in Nat /\ Range(q) = {h} \cup Range(Tail(q))
      /\ Len(Tail(q)) = Len(q) - 1 /\ Len(q) \in Nat
      /\ \A y \in Range(Tail(q)) : y \in Nat /\ h < y
  BY <1>0, RisingTail
<1> HIDE DEF h
<1>2. h \in Range(q) /\ h \in 1..told /\ h \in 1..last
  BY <1>0, <1>1
<1>3. Queued("live", Tail(q), ex, told)
  <2>1. ASSUME NEW x \in Range(Tail(q)), NEW id \in x..told PROVE id \in Range(Tail(q)) \cup ex
    <3>1. x \in Nat /\ h < x /\ x <= id /\ id # h /\ x \in Range(q)
      BY <1>1
    <3> QED BY <3>1, <1>0, <1>1
  <2>2. Len(Tail(q)) <= QueueSize
    BY <1>0, <1>1, StreamAssumption
  <2> QED BY <2>1, <2>2, <1>0, <1>1 DEF Queued
<1>4. ASSUME NEW new \in Nat, h <= new, sn <= new, new = sn \/ new = h PROVE Pending("live", Tail(q), <<>>, new, ex, told)
  <2>1. ASSUME new > 0, NEW id \in (new + 1)..told PROVE id \in Range(Tail(q)) \cup Range(<<>>) \cup ex
    <3>1. id # h /\ id \in Int /\ id \in h..told
      BY <1>1, <1>4
    <3> QED BY <3>1, <1>0, <1>1, <1>2
  <2> QED BY <2>1, <1>0 DEF Pending
<1>5. ASSUME ~ (h <= sn) PROVE Shown("live", h, Append(tr, h), rc, ex, last) /\ sn < h
  <2>1. sn < h
    BY <1>0, <1>1, <1>5
  <2>2. ASSUME sn > 0, NEW id \in (sn + 1)..(h - 1) PROVE id \in ex
    <3>1. id \in (sn + 1)..told /\ id \in Int /\ id < h
      BY <1>0, <1>1, <1>2, <2>1
    <3>2. id \notin Range(q)
      BY <3>1, <1>1
    <3> QED BY <3>1, <3>2, <2>2, <1>0
  <2> QED BY <2>1, <2>2, <1>2, WriteShows
<1> QED BY <1>0, <1>1, <1>3, <1>4, <1>5 DEF h

\* The snapshot of the ring: what it no longer has is excused.
LEMMA SnapshotServes ==
    ASSUME RingRecent, Kept \in Nat, NEW told \in Nat, NEW last \in Nat, told <= Kept, Kept <= last,
           NEW q, NEW sn, NEW tr, NEW rc, NEW ex,
           Shown("subscribed", sn, tr, rc, ex, last), Queued("subscribed", q, ex, told),
           NEW rp, rp = (IF sn = 0 THEN <<>> ELSE Keep(ring, {id \in Range(ring) : id > sn})),
           NEW ex2, ex2 = ex \cup {id \in 1..last : sn > 0 /\ ring # <<>> /\ sn < id /\ id < ring[1]}
    PROVE  /\ Shown("replay", sn, tr, rc, ex2, last) /\ Queued("replay", q, ex2, told)
           /\ Replaying("replay", rp, sn, Kept) /\ Pending("replay", q, rp, sn, ex2, told)
<1>0. /\ sn \in Nat /\ Rising(ring) /\ \A x \in Range(ring) : x \in 1..Kept
      /\ Kept > 0 => Kept \in Range(ring)
      /\ \A id \in Range(ring) : id..Kept \subseteq Range(ring)
      /\ \A x \in Range(q) : x \in 1..told
  BY DEF Shown, Queued, RingRecent
<1>1. Shown("replay", sn, tr, rc, ex2, last)
  <2>1. ex \subseteq ex2
    OBVIOUS
  <2> QED BY <2>1 DEF Shown
<1>2. Queued("replay", q, ex2, told)
  BY DEF Queued
<1>3. CASE sn = 0
  BY <1>1, <1>2, <1>3, NothingRises DEF Replaying, Pending
<1>4. CASE sn # 0
  <2>1. Rising(rp) /\ Range(rp) = {id \in Range(ring) : id > sn} /\ sn > 0
    BY <1>0, <1>4, KeepRising
  <2>2. Replaying("replay", rp, sn, Kept)
    BY <1>0, <2>1 DEF Replaying
  <2>3. ASSUME NEW id \in (sn + 1)..Kept PROVE id \in Range(rp) \cup ex2
    <3>1. id \in Nat /\ Kept > 0 /\ Kept \in Range(ring) /\ sn < id /\ id \in 1..last
      BY <1>0, <2>1
    <3>2. ring # <<>>
      BY <3>1, NothingRises
    <3>3. ring[1] \in Range(ring) /\ ring[1] \in Nat
      BY <3>2, <1>0, RisingLast
    <3>4. CASE id < ring[1]
      BY <3>1, <3>2, <3>4, <2>1
    <3>5. CASE ~ (id < ring[1])
      <4>1. id \in ring[1]..Kept
        BY <3>1, <3>3, <3>5
      <4> QED BY <4>1, <3>1, <3>3, <1>0, <2>1
    <3> QED BY <3>4, <3>5
  <2>4. ASSUME NEW id \in (sn + 1)..told PROVE id \in Range(q) \cup Range(rp) \cup ex2
    <3>1. id \in (sn + 1)..Kept
      BY <1>0
    <3> QED BY <3>1, <2>3
  <2>5. ASSUME NEW id \in Range(q), NEW y \in Range(rp), sn < id, id <= y PROVE id \in Range(rp) \cup ex2
    <3>1. id \in (sn + 1)..Kept
      BY <1>0, <2>5
    <3> QED BY <3>1, <2>3
  <2>6. Pending("replay", q, rp, sn, ex2, told)
    BY <2>4, <2>5 DEF Pending
  <2> QED BY <1>1, <1>2, <2>2, <2>6
<1> QED BY <1>3, <1>4

\* An event that was on its way arrives.
LEMMA ArriveShows ==
    ASSUME NEW st, NEW sn, NEW tr, NEW rc, NEW ex, NEW last,
           Shown(st, sn, tr, rc, ex, last), tr # <<>>
    PROVE  Shown(st, sn, Tail(tr), Append(rc, Head(tr)), ex, last)
<1> DEFINE h == Head(tr)
           c == Append(rc, h)
<1>1. /\ Rising(tr) /\ Rising(rc) /\ \A x \in Range(rc) : \A y \in Range(tr) : x < y
  BY DEF Shown
<1>2. /\ Rising(Tail(tr)) /\ h \in Nat /\ Range(tr) = {h} \cup Range(Tail(tr))
      /\ \A y \in Range(Tail(tr)) : y \in Nat /\ h < y
  BY <1>1, RisingTail
<1> HIDE DEF h
<1>3. Rising(c) /\ Range(c) = Range(rc) \cup {h}
  <2>1. \A y \in Range(rc) : y < h
    BY <1>1, <1>2
  <2> QED BY <2>1, <1>1, <1>2, RisingAppend
<1> HIDE DEF c
<1>4. Range(c) \cup Range(Tail(tr)) = Range(rc) \cup Range(tr)
  BY <1>2, <1>3
<1>5. \A x \in Range(c) : \A y \in Range(Tail(tr)) : x < y
  BY <1>1, <1>2, <1>3
<1>6. st # "closed"
  BY DEF Shown
<1> QED BY <1>1, <1>2, <1>3, <1>4, <1>5, <1>6 DEF Shown, c, h

\* The connection breaks: what arrived has no gap either.
LEMMA HangUpShows ==
    ASSUME NEW st, NEW sn, NEW tr, NEW rc, NEW ex, NEW last, last \in Nat,
           Shown(st, sn, tr, rc, ex, last)
    PROVE  Shown("closed", 0, <<>>, rc, ex, last)
<1>1. /\ Rising(tr) /\ Rising(rc) /\ \A x \in Range(rc) : \A y \in Range(tr) : x < y
      /\ Range(rc) \subseteq 1..last /\ Range(tr) \subseteq 1..last
      /\ \A x, y \in Range(rc) \cup Range(tr) : \A id \in x..y : id \in Range(rc) \cup Range(tr) \cup ex
  BY DEF Shown
<1>2. ASSUME NEW x \in Range(rc), NEW y \in Range(rc), NEW id \in x..y PROVE id \in Range(rc) \cup ex
  <2>1. id \notin Range(tr)
    <3>1. y \in Nat /\ x \in Nat /\ id <= y
      BY <1>1
    <3> QED BY <3>1, <1>1
  <2> QED BY <2>1, <1>1
<1> QED BY <1>1, <1>2, NothingRises DEF Shown

\* A browser connects, and says the last it has.
LEMMA SubscribeShows ==
    ASSUME NEW tr, NEW rc, NEW ex, NEW last, last \in Nat,
           Shown("closed", 0, tr, rc, ex, last)
    PROVE  Shown("subscribed", IF rc = <<>> THEN 0 ELSE Last(rc), tr, rc, ex, last)
<1>1. tr = <<>> /\ Range(tr) = {} /\ Rising(rc) /\ Range(rc) \cup Range(tr) \subseteq 1..last
  BY NothingRises DEF Shown
<1>2. CASE rc = <<>>
  BY <1>1, <1>2, NothingRises DEF Shown
<1>3. CASE rc # <<>>
  <2>1. Last(rc) \in Range(rc) /\ \A x \in Range(rc) : x <= Last(rc)
    BY <1>1, <1>3, RisingLast
  <2> QED BY <1>1, <1>3, <2>1 DEF Shown
<1> QED BY <1>2, <1>3

-----------------------------------------------------------------------------
\* Nothing of this browser has changed.
SameReader(r) == UNCHANGED <<stream[r], queue[r], replay[r], sent[r], transit[r], received[r], excused[r]>>

\* A step of one browser, or of its handler, leaves the log and the others alone.
LEMMA OneServed ==
    ASSUME StreamInv, StreamTypes', UNCHANGED <<nextID, logging, ring>>,
           NEW r \in Readers, ReaderServed(r)', \A o \in Readers : o # r => SameReader(o)
    PROVE  StreamInv'
<1>1. Told' = Told /\ Kept' = Kept
  BY DEF Told, Kept
<1>2. LoggersInTurn' /\ RingRecent'
  BY <1>1 DEF StreamInv, LoggersInTurn, RingRecent
<1>3. ASSUME NEW o \in Readers, o # r PROVE ReaderServed(o)'
  BY <1>1, <1>3 DEF StreamInv, ReaderServed, SameReader
<1> QED BY <1>2, <1>3 DEF StreamInv

\* The goroutine that logs leaves the kinds of the variables alone.
LEMMA LogTypes ==
    ASSUME StreamTypes, UNCHANGED <<stream, replay, sent, transit, received, lingering>>,
           DOMAIN queue' = Readers, excused' \in [Readers -> SUBSET Nat]
    PROVE  StreamTypes'
<1>1. Streams' = Streams
  BY DEF Streams
<1> QED BY <1>1 DEF StreamTypes

\* An event is given its number, kept in the ring, or told to the subscribers.
LEMMA LogSteps ==
    ASSUME StreamInv, NEW l \in Loggers, BeginLog(l) \/ RingAppend(l) \/ Broadcast(l)
    PROVE  StreamInv'
<1>0. StreamTypes /\ LoggersInTurn /\ RingRecent /\ (\A r \in Readers : ReaderServed(r)) /\ QueueSize \in Nat
  BY StreamAssumption DEF StreamInv
<1>1. CASE BeginLog(l)
  <2>1. LoggersInTurn' /\ Told' = Told /\ Kept' = Kept /\ nextID' = nextID + 1 /\ nextID \in Nat /\ Kept \in Nat
    BY <1>1, <1>0, BeginLogKeeps, LogStands
  <2>2. UNCHANGED <<ring, stream, queue, replay, sent, transit, received, lingering, excused>>
    BY <1>1 DEF BeginLog
  <2>3. RingRecent'
    BY <1>0, <2>1, <2>2 DEF RingRecent
  <2>4. ASSUME NEW r \in Readers PROVE ReaderServed(r)'
    BY <1>0, <2>1, <2>2, LaterServed
  <2>5. StreamTypes'
    BY <1>0, <2>2, LogTypes DEF StreamTypes
  <2> QED BY <2>1, <2>3, <2>4, <2>5 DEF StreamInv
<1>2. CASE RingAppend(l)
  <2>1. /\ LoggersInTurn' /\ RingRecent' /\ Told' = Told /\ Kept' = Kept + 1 /\ nextID' = nextID
        /\ nextID \in Nat /\ Kept \in Nat
    BY <1>2, <1>0, RingAppendKeeps, LogStands
  <2>2. UNCHANGED <<stream, queue, replay, sent, transit, received, lingering, excused>>
    BY <1>2 DEF RingAppend
  <2>4. ASSUME NEW r \in Readers PROVE ReaderServed(r)'
    BY <1>0, <2>1, <2>2, LaterServed
  <2>5. StreamTypes'
    BY <1>0, <2>2, LogTypes DEF StreamTypes
  <2> QED BY <2>1, <2>4, <2>5 DEF StreamInv
<1>3. CASE Broadcast(l)
  <2>1. /\ LoggersInTurn' /\ Told' = Told + 1 /\ Kept' = Kept /\ nextID' = nextID
        /\ logging[l].id = nextID /\ Told = nextID - 1 /\ Kept = nextID /\ nextID \in Nat
        /\ nextID = Told + 1 /\ Told \in Nat
    <3>1. /\ LoggersInTurn' /\ Told' = Told + 1 /\ Kept' = Kept /\ nextID' = nextID
          /\ logging[l].id = nextID /\ Told = nextID - 1 /\ Kept = nextID /\ nextID > 0 /\ nextID \in Nat
      BY <1>3, BroadcastEnds
    <3> QED BY <3>1
  <2>2. UNCHANGED <<ring, stream, replay, sent, transit, received, lingering>>
    BY <1>3 DEF Broadcast
  <2> DEFINE open == {r \in Readers : stream[r] # "closed"}
             full == {r \in open : Len(queue[r]) >= QueueSize}
  <2>3. /\ queue' = [r \in Readers |-> IF r \in open \ full THEN Append(queue[r], nextID) ELSE queue[r]]
        /\ excused' = [r \in Readers |-> IF r \in full THEN excused[r] \cup {nextID} ELSE excused[r]]
    BY <1>3, <2>1 DEF Broadcast
  <2>4. \A r \in Readers : excused[r] \in SUBSET Nat
    BY <1>0 DEF StreamTypes
  <2>5. StreamTypes'
    <3>1. excused' \in [Readers -> SUBSET Nat] /\ DOMAIN queue' = Readers
      BY <2>1, <2>3, <2>4
    <3> QED BY <3>1, <1>0, <2>2, LogTypes
  <2>6. RingRecent'
    BY <1>0, <2>1, <2>2 DEF RingRecent
  <2>7. ASSUME NEW r \in Readers PROVE ReaderServed(r)'
    <3>0. /\ Shown(stream[r], sent[r], transit[r], received[r], excused[r], Told + 1)
          /\ Queued(stream[r], queue[r], excused[r], Told)
          /\ Replaying(stream[r], replay[r], sent[r], Kept)
          /\ Pending(stream[r], queue[r], replay[r], sent[r], excused[r], Told)
          /\ Kept = Told + 1
      BY <1>0, <2>1 DEF ReaderServed
    <3>1. CASE stream[r] = "closed"
      <4>1. queue'[r] = queue[r] /\ excused'[r] = excused[r]
        BY <2>3, <3>1
      <4>2. queue[r] = <<>> /\ Queued(stream[r], queue[r], excused[r], Told + 1)
        BY <3>0, <3>1, NothingRises DEF Queued
      <4>3. Pending(stream[r], queue[r], replay[r], sent[r], excused[r], Told + 1)
        BY <3>1 DEF Pending
      <4> QED BY <4>1, <4>2, <4>3, <3>0, <2>1, <2>2 DEF ReaderServed
    <3>2. CASE stream[r] # "closed"
      <4>1. \/ queue'[r] = queue[r] /\ excused'[r] = excused[r] \cup {Told + 1}
            \/ queue'[r] = Append(queue[r], Told + 1) /\ excused'[r] = excused[r] /\ ~ (Len(queue[r]) >= QueueSize)
        BY <2>1, <2>3, <3>2
      <4>2. Len(queue[r]) \in Nat
        BY <3>0 DEF Queued, Rising
      <4>3. Tells(queue[r], excused[r], queue'[r], excused'[r], Told + 1)
        BY <4>1, <4>2, <1>0 DEF Tells
      <4>4. excused'[r] \in SUBSET Nat
        BY <2>5 DEF StreamTypes
      <4>5. /\ Shown(stream[r], sent[r], transit[r], received[r], excused'[r], Told + 1)
            /\ Queued(stream[r], queue'[r], excused'[r], Told + 1)
            /\ Pending(stream[r], queue'[r], replay[r], sent[r], excused'[r], Told + 1)
        <5> HIDE DEF open, full
        <5> QED BY <2>1, <2>4, <3>0, <3>2, <4>3, <4>4, <1>0, ToldServed
      <4> QED BY <4>5, <3>0, <2>1, <2>2 DEF ReaderServed
    <3> QED BY <3>1, <3>2
  <2> QED BY <2>1, <2>5, <2>6, <2>7 DEF StreamInv
<1> QED BY <1>1, <1>2, <1>3

\* The stream of a browser goes on to v.
Goes(r, v) == stream' = [stream EXCEPT ![r] = v]

\* The number of streams, open or still to be noticed, when one opens or breaks.
LEMMA StreamsCounted ==
    ASSUME StreamTypes, NEW r \in Readers, NEW v, Goes(r, v)
    PROVE  /\ Cardinality(Streams) \in Nat /\ MaxStreams \in Nat
           /\ stream[r] = "closed" /\ v # "closed" => Cardinality(Streams') = Cardinality(Streams) + 1
           /\ stream[r] # "closed" /\ v = "closed" => Cardinality(Streams') = Cardinality(Streams) - 1
           /\ stream[r] # "closed" /\ v # "closed" => Streams' = Streams
<1>1. IsFiniteSet(Streams) /\ Cardinality(Streams) \in Nat
  <2>1. Streams \subseteq Readers
    BY DEF Streams
  <2> QED BY <2>1, StreamAssumption, FS_Subset, FS_CardinalityType
<1>2. stream \in [Readers -> {"closed", "subscribed", "replay", "live"}]
  BY DEF StreamTypes
<1>3. \A o \in Readers : stream'[o] = IF o = r THEN v ELSE stream[o]
  BY <1>2 DEF Goes
<1>4. Streams' = {o \in Readers : stream'[o] # "closed"}
  BY DEF Streams
<1>5. ASSUME stream[r] = "closed", v # "closed" PROVE Cardinality(Streams') = Cardinality(Streams) + 1
  <2>1. Streams' = Streams \cup {r} /\ r \notin Streams
    BY <1>3, <1>4, <1>5 DEF Streams
  <2> QED BY <2>1, <1>1, FS_AddElement
<1>6. ASSUME stream[r] # "closed", v = "closed" PROVE Cardinality(Streams') = Cardinality(Streams) - 1
  <2>1. Streams' = Streams \ {r} /\ r \in Streams
    BY <1>3, <1>4, <1>6 DEF Streams
  <2> QED BY <2>1, <1>1, FS_RemoveElement
<1>7. ASSUME stream[r] # "closed", v # "closed" PROVE Streams' = Streams
  BY <1>3, <1>4, <1>7 DEF Streams
<1> QED BY <1>1, <1>5, <1>6, <1>7, StreamAssumption

\* A browser subscribes, and takes its snapshot.
LEMMA OpeningSteps ==
    ASSUME StreamInv, NEW r \in Readers, TrySubscribe(r) \/ Snapshot(r)
    PROVE  StreamInv'
<1>0. /\ StreamTypes /\ LoggersInTurn /\ RingRecent /\ ReaderServed(r)
      /\ nextID \in Nat /\ Told \in Nat /\ Kept \in Nat /\ Told <= Kept /\ Kept <= nextID
  BY LogStands DEF StreamInv
<1>1. CASE TrySubscribe(r)
  <2>1. /\ stream[r] = "closed" /\ Cardinality(Streams) + lingering < MaxStreams
        /\ stream' = [stream EXCEPT ![r] = "subscribed"]
        /\ sent' = [sent EXCEPT ![r] = IF received[r] = <<>> THEN 0 ELSE Last(received[r])]
        /\ UNCHANGED <<nextID, logging, ring, queue, replay, transit, received, lingering, excused>>
    BY <1>1 DEF TrySubscribe
  <2>2. /\ stream'[r] = "subscribed" /\ sent'[r] = (IF received[r] = <<>> THEN 0 ELSE Last(received[r]))
        /\ \A o \in Readers : o # r => stream'[o] = stream[o] /\ sent'[o] = sent[o]
    BY <1>0, <2>1 DEF StreamTypes
  <2>3. StreamTypes'
    <3>1. Cardinality(Streams') = Cardinality(Streams) + 1 /\ Cardinality(Streams) \in Nat /\ MaxStreams \in Nat
      <4>1. Goes(r, "subscribed")
        BY <2>1 DEF Goes
      <4> QED BY <4>1, <1>0, <2>1, StreamsCounted
    <3>2. stream' \in [Readers -> {"closed", "subscribed", "replay", "live"}] /\ DOMAIN sent' = Readers /\ lingering \in Nat
      BY <1>0, <2>1 DEF StreamTypes
    <3>3. Cardinality(Streams') + lingering <= MaxStreams
      BY <2>1, <3>1, <3>2
    <3> QED BY <1>0, <2>1, <3>2, <3>3 DEF StreamTypes
  <2>4. Told' = Told /\ Kept' = Kept
    BY <2>1 DEF Told, Kept
  <2>5. sent[r] = 0 /\ replay[r] = <<>> /\ Shown("closed", 0, transit[r], received[r], excused[r], nextID)
    BY <1>0, <2>1 DEF ReaderServed, Shown, Replaying
  <2>6. Shown("subscribed", sent'[r], transit[r], received[r], excused[r], nextID)
    BY <1>0, <2>2, <2>5, SubscribeShows
  <2>7. Queued("subscribed", queue[r], excused[r], Told) /\ Replaying("subscribed", replay[r], sent'[r], Kept)
    BY <1>0, <2>1, <2>5, NothingRises DEF ReaderServed, Queued, Replaying
  <2>8. ReaderServed(r)'
    BY <2>1, <2>2, <2>4, <2>6, <2>7 DEF ReaderServed, Pending
  <2> QED BY <2>1, <2>2, <2>3, <2>8, OneServed DEF SameReader
<1>2. CASE Snapshot(r)
  <2>1. /\ stream[r] = "subscribed" /\ stream' = [stream EXCEPT ![r] = "replay"]
        /\ replay' = [replay EXCEPT ![r] = IF sent[r] = 0 THEN <<>>
                                     ELSE Keep(ring, {id \in Range(ring) : id > sent[r]})]
        /\ excused' = [excused EXCEPT ![r] =
              excused[r] \cup {id \in 1..nextID : sent[r] > 0 /\ ring # <<>> /\ sent[r] < id /\ id < ring[1]}]
        /\ UNCHANGED <<nextID, logging, ring, queue, sent, transit, received, lingering>>
    BY <1>2 DEF Snapshot
  <2>2. /\ stream'[r] = "replay"
        /\ replay'[r] = (IF sent[r] = 0 THEN <<>> ELSE Keep(ring, {id \in Range(ring) : id > sent[r]}))
        /\ excused'[r] = excused[r] \cup {id \in 1..nextID : sent[r] > 0 /\ ring # <<>> /\ sent[r] < id /\ id < ring[1]}
        /\ \A o \in Readers : o # r => stream'[o] = stream[o] /\ replay'[o] = replay[o] /\ excused'[o] = excused[o]
    BY <1>0, <2>1 DEF StreamTypes
  <2>3. StreamTypes'
    <3>1. Streams' = Streams
      <4>1. Goes(r, "replay")
        BY <2>1 DEF Goes
      <4> QED BY <4>1, <1>0, <2>1, StreamsCounted
    <3>2. stream' \in [Readers -> {"closed", "subscribed", "replay", "live"}] /\ DOMAIN replay' = Readers
      BY <1>0, <2>1 DEF StreamTypes
    <3>3. excused' \in [Readers -> SUBSET Nat]
      <4>1. excused'[r] \in SUBSET Nat
        <5>1. {id \in 1..nextID : sent[r] > 0 /\ ring # <<>> /\ sent[r] < id /\ id < ring[1]} \subseteq Nat
          BY <1>0
        <5>2. excused[r] \in SUBSET Nat
          BY <1>0 DEF StreamTypes
        <5> QED BY <5>1, <5>2, <2>2
      <4>2. DOMAIN excused' = Readers /\ \A o \in Readers : excused[o] \in SUBSET Nat
        BY <1>0, <2>1 DEF StreamTypes
      <4>3. excused' = [o \in Readers |-> excused'[o]]
        BY <1>0, <2>1 DEF StreamTypes
      <4> QED BY <4>1, <4>2, <4>3, <2>2
    <3> QED BY <1>0, <2>1, <3>1, <3>2, <3>3 DEF StreamTypes
  <2>4. Told' = Told /\ Kept' = Kept
    BY <2>1 DEF Told, Kept
  <2>5. /\ Shown("replay", sent[r], transit[r], received[r], excused'[r], nextID) /\ Queued("replay", queue[r], excused'[r], Told)
        /\ Replaying("replay", replay'[r], sent[r], Kept) /\ Pending("replay", queue[r], replay'[r], sent[r], excused'[r], Told)
    <3>1. Shown("subscribed", sent[r], transit[r], received[r], excused[r], nextID) /\ Queued("subscribed", queue[r], excused[r], Told)
      BY <1>0, <2>1 DEF ReaderServed
    <3> QED BY <1>0, <2>2, <3>1, SnapshotServes
  <2>6. ReaderServed(r)'
    BY <2>1, <2>2, <2>4, <2>5 DEF ReaderServed
  <2> QED BY <2>1, <2>2, <2>3, <2>6, OneServed DEF SameReader
<1> QED BY <1>1, <1>2


\* The handler writes the snapshot and then the live events.
LEMMA WritingSteps ==
    ASSUME StreamInv, NEW r \in Readers, Replay(r) \/ Deliver(r)
    PROVE  StreamInv'
<1>0. /\ StreamTypes /\ LoggersInTurn /\ RingRecent /\ ReaderServed(r)
      /\ nextID \in Nat /\ Told \in Nat /\ Kept \in Nat /\ Told <= Kept /\ Kept <= Told + 1 /\ Kept <= nextID /\ Told <= nextID
  <2>1. LoggersInTurn
    BY DEF StreamInv
  <2>2. nextID \in Nat /\ Told \in Nat /\ Kept \in Nat /\ Told <= Kept /\ Kept <= Told + 1 /\ Kept <= nextID
    BY <2>1, LogStands
  <2> QED BY <2>1, <2>2 DEF StreamInv
<1>1. CASE Replay(r) /\ replay[r] = <<>>
  <2>1. /\ stream[r] = "replay" /\ stream' = [stream EXCEPT ![r] = "live"]
        /\ UNCHANGED <<nextID, logging, ring, queue, replay, sent, transit, received, lingering, excused>>
    BY <1>1 DEF Replay
  <2>2. stream'[r] = "live" /\ \A o \in Readers : o # r => stream'[o] = stream[o]
    BY <1>0, <2>1 DEF StreamTypes
  <2>3. StreamTypes'
    <3>1. Streams' = Streams
      <4>1. Goes(r, "live")
        BY <2>1 DEF Goes
      <4> QED BY <4>1, <1>0, <2>1, StreamsCounted
    <3>2. stream' \in [Readers -> {"closed", "subscribed", "replay", "live"}]
      BY <1>0, <2>1 DEF StreamTypes
    <3> QED BY <1>0, <2>1, <3>1, <3>2 DEF StreamTypes
  <2>4. Told' = Told /\ Kept' = Kept
    BY <2>1 DEF Told, Kept
  <2>5. ReaderServed(r)'
    BY <1>0, <1>1, <2>1, <2>2, <2>4 DEF ReaderServed, Shown, Queued, Replaying, Pending
  <2> QED BY <2>1, <2>2, <2>3, <2>5, OneServed DEF SameReader
<1>2. CASE Replay(r) /\ replay[r] # <<>>
  <2>1. /\ stream[r] = "replay" /\ replay' = [replay EXCEPT ![r] = Tail(replay[r])]
        /\ transit' = [transit EXCEPT ![r] = Append(transit[r], Head(replay[r]))]
        /\ sent' = [sent EXCEPT ![r] = Head(replay[r])]
        /\ UNCHANGED <<nextID, logging, ring, stream, queue, received, lingering, excused>>
    BY <1>2 DEF Replay, WriteEvent
  <2>2. /\ replay'[r] = Tail(replay[r]) /\ transit'[r] = Append(transit[r], Head(replay[r]))
        /\ sent'[r] = Head(replay[r])
        /\ \A o \in Readers : o # r => replay'[o] = replay[o] /\ transit'[o] = transit[o] /\ sent'[o] = sent[o]
    BY <1>0, <2>1 DEF StreamTypes
  <2>3. StreamTypes'
    BY <1>0, <2>1 DEF StreamTypes, Streams
  <2>4. Told' = Told /\ Kept' = Kept
    BY <2>1 DEF Told, Kept
  <2>5. /\ Shown("replay", sent[r], transit[r], received[r], excused[r], nextID) /\ Queued("replay", queue[r], excused[r], Told)
        /\ Replaying("replay", replay[r], sent[r], Kept) /\ Pending("replay", queue[r], replay[r], sent[r], excused[r], Told)
    BY <1>0, <2>1 DEF ReaderServed
  <2>6. /\ Shown("replay", sent'[r], transit'[r], received[r], excused[r], nextID)
        /\ Replaying("replay", replay'[r], sent'[r], Kept)
        /\ Pending("replay", queue[r], replay'[r], sent'[r], excused[r], Told)
    BY <1>0, <1>2, <2>2, <2>5, ReplayWrites
  <2>7. ReaderServed(r)'
    BY <2>1, <2>4, <2>5, <2>6 DEF ReaderServed
  <2> QED BY <2>1, <2>2, <2>3, <2>7, OneServed DEF SameReader
<1>3. CASE Deliver(r)
  <2>1. /\ stream[r] = "live" /\ queue[r] # <<>> /\ queue' = [queue EXCEPT ![r] = Tail(queue[r])]
        /\ UNCHANGED <<nextID, logging, ring, stream, replay, received, lingering, excused>>
    BY <1>3 DEF Deliver
  <2>2. queue'[r] = Tail(queue[r]) /\ \A o \in Readers : o # r => queue'[o] = queue[o]
    BY <1>0, <2>1 DEF StreamTypes
  <2>3. \/ Head(queue[r]) <= sent[r] /\ UNCHANGED <<transit, sent>>
        \/ /\ ~ (Head(queue[r]) <= sent[r])
           /\ transit' = [transit EXCEPT ![r] = Append(transit[r], Head(queue[r]))]
           /\ sent' = [sent EXCEPT ![r] = Head(queue[r])]
    BY <1>3 DEF Deliver, WriteEvent
  <2>4. /\ \/ Head(queue[r]) <= sent[r] /\ transit'[r] = transit[r] /\ sent'[r] = sent[r]
           \/ ~ (Head(queue[r]) <= sent[r]) /\ transit'[r] = Append(transit[r], Head(queue[r])) /\ sent'[r] = Head(queue[r])
        /\ \A o \in Readers : o # r => transit'[o] = transit[o] /\ sent'[o] = sent[o]
        /\ DOMAIN transit' = Readers /\ DOMAIN sent' = Readers
    BY <1>0, <2>3 DEF StreamTypes
  <2>5. StreamTypes'
    BY <1>0, <2>1, <2>4 DEF StreamTypes, Streams
  <2>6. Told' = Told /\ Kept' = Kept
    BY <2>1 DEF Told, Kept
  <2>7. replay[r] = <<>> /\ Range(<<>>) = {}
    BY <1>0, <2>1, NothingRises DEF ReaderServed, Replaying
  <2>8. /\ Shown("live", sent[r], transit[r], received[r], excused[r], nextID) /\ Queued("live", queue[r], excused[r], Told)
        /\ Pending("live", queue[r], <<>>, sent[r], excused[r], Told)
    BY <1>0, <2>1, <2>7 DEF ReaderServed
  <2>9. /\ Queued("live", Tail(queue[r]), excused[r], Told)
        /\ Head(queue[r]) <= sent[r] => Pending("live", Tail(queue[r]), <<>>, sent[r], excused[r], Told)
        /\ ~ (Head(queue[r]) <= sent[r]) =>
              /\ Shown("live", Head(queue[r]), Append(transit[r], Head(queue[r])), received[r], excused[r], nextID)
              /\ Pending("live", Tail(queue[r]), <<>>, Head(queue[r]), excused[r], Told)
    BY <1>0, <2>1, <2>8, DeliverWrites
  <2>10. /\ Shown("live", sent'[r], transit'[r], received[r], excused[r], nextID)
         /\ Queued("live", queue'[r], excused[r], Told)
         /\ Pending("live", queue'[r], <<>>, sent'[r], excused[r], Told)
    BY <2>2, <2>4, <2>8, <2>9
  <2>11. Replaying("live", <<>>, sent'[r], Kept)
    BY <2>7, NothingRises DEF Replaying
  <2>12. ReaderServed(r)'
    BY <2>1, <2>6, <2>7, <2>10, <2>11 DEF ReaderServed
  <2> QED BY <2>1, <2>2, <2>4, <2>5, <2>12, OneServed DEF SameReader
<1> QED BY <1>1, <1>2, <1>3

\* An event arrives, a connection breaks, or a handler notices.
LEMMA EndingSteps ==
    ASSUME StreamInv, NEW r \in Readers, Arrive(r) \/ HangUp(r)
    PROVE  StreamInv'
<1>0. StreamTypes /\ LoggersInTurn /\ RingRecent /\ ReaderServed(r) /\ nextID \in Nat
  BY LogStands DEF StreamInv
<1>1. CASE Arrive(r)
  <2>1. /\ transit[r] # <<>> /\ received' = [received EXCEPT ![r] = Append(received[r], Head(transit[r]))]
        /\ transit' = [transit EXCEPT ![r] = Tail(transit[r])]
        /\ UNCHANGED <<nextID, logging, ring, stream, queue, replay, sent, lingering, excused>>
    BY <1>1 DEF Arrive
  <2>2. /\ received'[r] = Append(received[r], Head(transit[r])) /\ transit'[r] = Tail(transit[r])
        /\ \A o \in Readers : o # r => received'[o] = received[o] /\ transit'[o] = transit[o]
    BY <1>0, <2>1 DEF StreamTypes
  <2>3. StreamTypes'
    BY <1>0, <2>1 DEF StreamTypes, Streams
  <2>4. Told' = Told /\ Kept' = Kept
    BY <2>1 DEF Told, Kept
  <2>5. Shown(stream[r], sent[r], transit'[r], received'[r], excused[r], nextID)
    BY <1>0, <2>1, <2>2, ArriveShows DEF ReaderServed
  <2>6. ReaderServed(r)'
    BY <1>0, <2>1, <2>4, <2>5 DEF ReaderServed
  <2> QED BY <2>1, <2>2, <2>3, <2>6, OneServed DEF SameReader
<1>2. CASE HangUp(r)
  <2>1. /\ stream[r] # "closed" /\ stream' = [stream EXCEPT ![r] = "closed"]
        /\ queue' = [queue EXCEPT ![r] = <<>>] /\ replay' = [replay EXCEPT ![r] = <<>>]
        /\ transit' = [transit EXCEPT ![r] = <<>>] /\ sent' = [sent EXCEPT ![r] = 0]
        /\ lingering' = lingering + 1 /\ UNCHANGED <<nextID, logging, ring, received, excused>>
    BY <1>2 DEF HangUp
  <2>2. /\ stream'[r] = "closed" /\ queue'[r] = <<>> /\ replay'[r] = <<>> /\ transit'[r] = <<>> /\ sent'[r] = 0
        /\ \A o \in Readers : o # r => /\ stream'[o] = stream[o] /\ queue'[o] = queue[o] /\ replay'[o] = replay[o]
                                       /\ transit'[o] = transit[o] /\ sent'[o] = sent[o]
    BY <1>0, <2>1 DEF StreamTypes
  <2>3. StreamTypes'
    <3>1. Cardinality(Streams') = Cardinality(Streams) - 1 /\ Cardinality(Streams) \in Nat /\ MaxStreams \in Nat
      <4>1. Goes(r, "closed")
        BY <2>1 DEF Goes
      <4> QED BY <4>1, <1>0, <2>1, StreamsCounted
    <3>2. /\ stream' \in [Readers -> {"closed", "subscribed", "replay", "live"}]
          /\ lingering \in Nat /\ Cardinality(Streams) + lingering <= MaxStreams
      BY <1>0, <2>1 DEF StreamTypes
    <3>3. lingering' \in Nat /\ Cardinality(Streams') + lingering' <= MaxStreams
      BY <2>1, <3>1, <3>2
    <3> QED BY <1>0, <2>1, <3>2, <3>3 DEF StreamTypes
  <2>4. Told' = Told /\ Kept' = Kept
    BY <2>1 DEF Told, Kept
  <2>5. Shown("closed", 0, <<>>, received[r], excused[r], nextID)
    BY <1>0, HangUpShows DEF ReaderServed
  <2>6. /\ Queued("closed", <<>>, excused[r], Told) /\ Replaying("closed", <<>>, 0, Kept)
        /\ Pending("closed", <<>>, <<>>, 0, excused[r], Told)
    BY NothingRises, StreamAssumption DEF Queued, Replaying, Pending
  <2>7. ReaderServed(r)'
    BY <2>1, <2>2, <2>4, <2>5, <2>6 DEF ReaderServed
  <2> QED BY <2>1, <2>2, <2>3, <2>7, OneServed DEF SameReader
<1> QED BY <1>1, <1>2

\* Every step of the log and of its streams keeps the invariant.
LEMMA StreamSteps == StreamInv /\ [StreamNext]_streamVars => StreamInv'
<1> SUFFICES ASSUME StreamInv, [StreamNext]_streamVars PROVE StreamInv'
  OBVIOUS
<1>1. CASE UNCHANGED streamVars
  <2>1. Told' = Told /\ Kept' = Kept
    BY <1>1 DEF streamVars, Told, Kept
  <2>2. StreamTypes' /\ LoggersInTurn' /\ RingRecent'
    BY <1>1, <2>1 DEF StreamInv, streamVars, StreamTypes, Streams, LoggersInTurn, RingRecent
  <2>3. ASSUME NEW r \in Readers PROVE ReaderServed(r)'
    BY <1>1, <2>1 DEF StreamInv, streamVars, ReaderServed
  <2> QED BY <2>2, <2>3 DEF StreamInv
<1>2. ASSUME NEW l \in Loggers, BeginLog(l) \/ RingAppend(l) \/ Broadcast(l) PROVE StreamInv'
  BY <1>2, LogSteps
<1>3. ASSUME NEW r \in Readers, TrySubscribe(r) \/ Snapshot(r) PROVE StreamInv'
  BY <1>3, OpeningSteps
<1>4. ASSUME NEW r \in Readers, Replay(r) \/ Deliver(r) PROVE StreamInv'
  BY <1>4, WritingSteps
<1>5. ASSUME NEW r \in Readers, Arrive(r) \/ HangUp(r) PROVE StreamInv'
  BY <1>5, EndingSteps
<1>6. CASE Unsubscribe
  <2>1. /\ lingering > 0 /\ lingering' = lingering - 1
        /\ UNCHANGED <<nextID, logging, ring, stream, queue, replay, sent, transit, received, excused>>
    BY <1>6 DEF Unsubscribe
  <2>2. Told' = Told /\ Kept' = Kept
    BY <2>1 DEF Told, Kept
  <2>3. Streams' = Streams /\ Streams \subseteq Readers
    BY <2>1 DEF Streams
  <2>4. Cardinality(Streams) \in Nat
    BY <2>3, StreamAssumption, FS_Subset, FS_CardinalityType
  <2>5. lingering' \in Nat /\ Cardinality(Streams') + lingering' <= MaxStreams
    BY <2>1, <2>3, <2>4, StreamAssumption DEF StreamInv, StreamTypes
  <2>6. StreamTypes' /\ LoggersInTurn' /\ RingRecent'
    BY <2>1, <2>2, <2>5 DEF StreamInv, StreamTypes, LoggersInTurn, RingRecent
  <2>7. ASSUME NEW r \in Readers PROVE ReaderServed(r)'
    BY <2>1, <2>2 DEF StreamInv, ReaderServed
  <2> QED BY <2>6, <2>7 DEF StreamInv
<1> QED BY <1>1, <1>2, <1>3, <1>4, <1>5, <1>6 DEF StreamNext

\* What a browser has seen of the log is faithful where the invariant holds.
LEMMA StreamServes == StreamInv => StreamFaithful
<1> SUFFICES ASSUME StreamInv PROVE StreamFaithful
  OBVIOUS
<1>0. /\ StreamTypes /\ LoggersInTurn /\ RingRecent /\ (\A r \in Readers : ReaderServed(r))
      /\ nextID \in Nat /\ nextID <= MaxEvents /\ MaxEvents \in Nat
  BY LogStands, StreamAssumption DEF StreamInv, LoggersInTurn
<1>1. StreamTypeOK
  <2>1. ASSUME NEW r \in Readers PROVE Len(queue[r]) <= QueueSize /\ sent[r] \in 0..MaxEvents
    BY <1>0 DEF ReaderServed, Queued, Shown
  <2> QED BY <1>0, <2>1 DEF StreamTypeOK, StreamTypes, RingRecent
<1>2. ASSUME NEW r \in Readers, NEW i \in DOMAIN received[r], NEW j \in DOMAIN received[r], i < j
      PROVE  received[r][i] < received[r][j]
  <2>1. Rising(received[r])
    BY <1>0 DEF ReaderServed, Shown
  <2>2. DOMAIN received[r] = 1..Len(received[r])
    BY <2>1 DEF Rising
  <2> QED BY <1>2, <2>1, <2>2 DEF Rising
<1>3. ASSUME NEW r \in Readers, received[r] # <<>>,
             NEW id \in received[r][1]..(IF CaughtUp(r) THEN nextID ELSE Last(received[r]))
      PROVE  id \in Range(received[r]) \cup excused[r]
  <2> DEFINE seen == received[r]
             W == Range(seen) \cup Range(transit[r])
  <2>0. /\ Rising(transit[r]) /\ Rising(seen) /\ \A x \in Range(seen) : \A y \in Range(transit[r]) : x < y
        /\ W \subseteq 1..nextID /\ sent[r] \in 0..nextID
        /\ \A x, y \in W : \A n \in x..y : n \in W \cup excused[r]
        /\ stream[r] # "closed" => (W = {} => sent[r] = 0) /\ (W # {} => sent[r] \in W /\ \A x \in W : x <= sent[r])
    BY <1>0 DEF ReaderServed, Shown
  <2>1. Last(seen) \in Range(seen) /\ seen[1] \in Range(seen) /\ \A x \in Range(seen) : seen[1] <= x /\ x <= Last(seen)
    BY <1>3, <2>0, RisingLast
  <2> HIDE DEF seen, W
  <2>2. W = Range(seen) \cup Range(transit[r]) /\ Last(seen) \in Nat /\ seen[1] \in Nat
    BY <2>0, <2>1 DEF W
  <2>3. ASSUME id \in seen[1]..Last(seen) PROVE id \in Range(seen) \cup excused[r]
    <3>1. id \notin Range(transit[r])
      BY <2>0, <2>1, <2>2, <2>3
    <3> QED BY <2>0, <2>1, <2>2, <2>3, <3>1
  <2>4. CASE ~ CaughtUp(r)
    BY <1>3, <2>3, <2>4 DEF seen
  <2>5. CASE CaughtUp(r)
    <3>1. stream[r] = "live" /\ queue[r] = <<>> /\ transit[r] = <<>> /\ Told = nextID
      BY <1>0, <2>5, LogStands DEF CaughtUp
    <3>2. replay[r] = <<>> /\ Range(<<>>) = {}
      BY <1>0, <3>1, NothingRises DEF ReaderServed, Replaying
    <3>3. W = Range(seen) /\ sent[r] = Last(seen)
      <4>1. W = Range(seen)
        BY <2>2, <3>1, <3>2
      <4>2. sent[r] \in Range(seen) /\ Last(seen) <= sent[r] /\ sent[r] <= Last(seen) /\ sent[r] \in Nat
        BY <2>0, <2>1, <3>1, <4>1
      <4> QED BY <2>2, <4>1, <4>2
    <3>4. sent[r] \in Nat /\ sent[r] > 0
      BY <2>0, <2>1, <2>2, <3>3
    <3>5. \A n \in (sent[r] + 1)..nextID : n \in excused[r]
      BY <1>0, <3>1, <3>2, <3>4 DEF ReaderServed, Pending
    <3>6. id \in seen[1]..nextID
      BY <1>3, <2>5 DEF seen
    <3>7. id \in seen[1]..Last(seen) \/ id \in (sent[r] + 1)..nextID
      BY <2>2, <3>3, <3>4, <3>6
    <3>8. CASE id \in seen[1]..Last(seen)
      BY <2>3, <3>8 DEF seen
    <3>9. CASE id \in (sent[r] + 1)..nextID
      BY <3>5, <3>9
    <3> QED BY <3>7, <3>8, <3>9
  <2> QED BY <2>4, <2>5 DEF seen
<1> QED BY <1>1, <1>2, <1>3 DEF StreamFaithful

\* What a browser sees, over all its connections, is in the order of the log,
\* has no event twice, and misses none it could have had (logger.go: Log,
\* RingBuffer, HandleEvents).
THEOREM StreamsFaithful == StreamSpec => []StreamFaithful
<1>1. StreamInv /\ [StreamNext]_streamVars => StreamInv'
  BY StreamSteps
<1>2. StreamSpec => []StreamInv
  BY <1>1, StreamStarts, PTL DEF StreamSpec
<1> QED BY <1>2, StreamServes, PTL

-----------------------------------------------------------------------------
(* The batch.                                                              *)

\* What one file's transfer is reported as: a risk has a code of its own.
BatchResults == {x \in [file : Entries, exit : Ok..Risk, risk : BOOLEAN] : x.risk <=> x.exit = Risk}

\* Each file at most once, and only files.
OfFiles(s) ==
    /\ s \in Seq(Entries) /\ (\A i \in 1..Len(s) : s[i] \in Files)
    /\ \A i, j \in 1..Len(s) : s[i] = s[j] => i = j

\* The kinds of the variables; a file still to be sent has not come in this run.
BatchPlaces ==
    /\ tree \in [Entries -> {"absent", "file", "pipe", "barred"}] /\ rooted \in BOOLEAN
    /\ keyed \in BOOLEAN /\ flatten \in BOOLEAN /\ refused \in BOOLEAN /\ batches \in 0..MaxBatches
    /\ phase \in {"idle", "sending", "done"} /\ via \in {"hub", "direct", "none"}
    /\ OfFiles(todo) /\ results \in Seq(BatchResults) /\ Len(results) + Len(todo) <= MaxExpandedFiles
    /\ arrivals \in [Entries -> Nat]
    /\ \A f \in Entries : arrivals[f] <= batches /\ (f \in Range(todo) => arrivals[f] < batches)

\* Every file of the directory is still to be sent or has a result.
BatchCovers ==
    /\ phase = "idle" => batches = 0
    /\ phase # "idle" => batches > 0
    /\ phase # "sending" => todo = <<>>
    /\ phase # "idle" /\ ~refused =>
          Expandable /\ \A f \in Files : f \in Range(todo) \/ \E x \in Range(results) : x.file = f

\* A tombstone tells of a file that arrived, by its name and content.
TombsTrue ==
    \A t \in tombs : \E g \in Files :
        /\ arrivals[g] > 0 /\ t.name = NameOf(g) /\ t.content = Content[g] /\ keyed
        /\ t.key = <<"key">> \/ (t.key = <<"key", NameOf(g)>> /\ NameOf(g) \notin BadNames)

\* What is reported as sent has arrived, as long as no two files share a key.
SentArrived == DistinctKeys => \A x \in Range(results) : x.exit = Ok => arrivals[x.file] > 0

\* In a first run that sends directly, what has arrived, and has content, is
\* reported as sent or as a risk.
FirstRunTold ==
    /\ batches = 0 => \A f \in Entries : arrivals[f] = 0
    /\ batches = 1 /\ via = "direct" =>
          \A f \in Entries : arrivals[f] > 0 /\ Size[f] > 0 => \E x \in Range(results) : x.exit = Ok \/ x.risk

\* Under a key of its own a file is published once, and its tombstone stands.
KeyedOnce ==
    keyed /\ ~(\E t \in tombs : t.key = <<"key">>) =>
        \A f \in Files : NameOf(f) \notin BadNames =>
            arrivals[f] <= 1 /\ (arrivals[f] > 0 => \E t \in tombs : t.key = <<"key", NameOf(f)>>)

\* The inductive invariant of the batch.
BatchInv == BatchPlaces /\ BatchCovers /\ TombsTrue /\ SentArrived /\ FirstRunTold /\ KeyedOnce
-----------------------------------------------------------------------------
\* A key on the wire is not the fresh one.
LEMMA KeysNotFresh == /\ <<"key">> # <<>> /\ \A n : <<"key", n>> # <<>>
                      /\ \A m, n : <<"key", n>> = <<"key", m>> => n = m
<1>1. Len(<<"key">>) = 1 /\ Len(<<>>) = 0 /\ \A n : Len(<<"key", n>>) = 2
  OBVIOUS
<1>2. \A n : <<"key", n>>[2] = n
  OBVIOUS
<1>3. \A m, n : <<"key", n>> = <<"key", m>> => n = m
  <2> SUFFICES ASSUME NEW m, NEW n, <<"key", n>> = <<"key", m>> PROVE n = m
    OBVIOUS
  <2>1. <<"key", n>>[2] = n /\ <<"key", m>>[2] = m
    BY <1>2
  <2> QED BY <2>1
<1> QED BY <1>1, <1>3

\* At first nothing is tried.
LEMMA BatchStarts == BatchInit => BatchInv
<1> SUFFICES ASSUME BatchInit PROVE BatchInv
  OBVIOUS
<1>1. <<>> \in Seq(Entries) /\ <<>> \in Seq(BatchResults) /\ Len(<<>>) = 0 /\ Range(<<>>) = {} /\ 1..0 = {}
  BY NothingRises
<1>2. OfFiles(todo) /\ todo = <<>> /\ results = <<>> /\ batches = 0 /\ phase = "idle" /\ tombs = {} /\ via = "none"
  BY <1>1 DEF BatchInit, OfFiles
<1>3. arrivals \in [Entries -> Nat] /\ \A f \in Entries : arrivals[f] = 0
  BY DEF BatchInit
<1>4. BatchPlaces
  <2>1. Len(results) + Len(todo) <= MaxExpandedFiles
    BY <1>1, <1>2, BatchAssumption
  <2>2. \A f \in Entries : arrivals[f] <= batches /\ f \notin Range(todo)
    BY <1>1, <1>2, <1>3
  <2>3. /\ tree \in [Entries -> {"absent", "file", "pipe", "barred"}] /\ rooted \in BOOLEAN
        /\ keyed \in BOOLEAN /\ flatten \in BOOLEAN /\ refused \in BOOLEAN
    BY Zenon DEF BatchInit
  <2>4. batches \in 0..MaxBatches
    BY <1>2, BatchAssumption
  <2> QED BY <1>1, <1>2, <1>3, <2>1, <2>2, <2>3, <2>4 DEF BatchPlaces
<1>5. BatchCovers /\ TombsTrue
  BY <1>2 DEF BatchCovers, TombsTrue
<1>6. SentArrived /\ FirstRunTold
  BY <1>1, <1>2, <1>3 DEF SentArrived, FirstRunTold
<1>7. KeyedOnce
  BY <1>3 DEF KeyedOnce, Files
<1> QED BY <1>4, <1>5, <1>6, <1>7 DEF BatchInv

\* The listing of a directory that can be expanded: each of its files, once.
LEMMA ListingOnce ==
    ASSUME Expandable
    PROVE  LET t == Keep(Listing, Files) IN
           OfFiles(t) /\ Len(t) <= MaxExpandedFiles /\ Len(t) \in Nat /\ \A f \in Files : f \in Range(t)
<1> DEFINE t == Keep(Listing, Files)
<1>1. /\ Listing \in Seq(Entries) /\ {Listing[i] : i \in 1..Len(Listing)} = Entries
      /\ \A i, j \in 1..Len(Listing) : Listing[i] = Listing[j] => i = j
  <2>1. Listing \in Seq(Entries)
    BY BatchAssumption
  <2>2. DOMAIN Listing = 1..Len(Listing)
    BY <2>1
  <2> QED BY <2>1, <2>2, BatchAssumption
<1>2. KeptOf(t, Len(Listing), Listing, Files, Entries)
  BY <1>1, KeepKeeps
<1> HIDE DEF t
<1>3. PICK pos : /\ StandAt(pos, t, Len(Listing), Listing)
                 /\ \A j \in 1..Len(Listing) : Listing[j] \in Files => \E i \in 1..Len(t) : pos[i] = j
  BY <1>2 DEF KeptOf
<1>4. t \in Seq(Entries) /\ Len(t) \in Nat /\ DOMAIN t = 1..Len(t) /\ \A i \in 1..Len(t) : t[i] \in Files
  BY <1>2 DEF KeptOf
<1>5. \A i \in 1..Len(t) : pos[i] \in 1..Len(Listing) /\ t[i] = Listing[pos[i]]
  BY <1>3 DEF StandAt
<1>6. ASSUME NEW i \in 1..Len(t), NEW j \in 1..Len(t), t[i] = t[j] PROVE i = j
  <2>1. pos[i] = pos[j]
    <3>1. /\ pos[i] \in 1..Len(Listing) /\ pos[j] \in 1..Len(Listing)
          /\ t[i] = Listing[pos[i]] /\ t[j] = Listing[pos[j]]
      BY <1>5
    <3>2. Listing[pos[i]] = Listing[pos[j]]
      BY <3>1, <1>6
    <3> QED BY <3>1, <3>2, <1>1
  <2>2. pos[i] \in Int
    BY <1>5
  <2>3. ~ (i < j)
    <3> SUFFICES ASSUME i < j PROVE FALSE
      OBVIOUS
    <3>1. pos[i] < pos[j]
      BY <1>3 DEF StandAt
    <3> QED BY <2>1, <2>2, <3>1
  <2>4. ~ (j < i)
    <3> SUFFICES ASSUME j < i PROVE FALSE
      OBVIOUS
    <3>1. pos[j] < pos[i]
      BY <1>3 DEF StandAt
    <3> QED BY <2>1, <2>2, <3>1
  <2> QED BY <2>3, <2>4
<1>7. ASSUME NEW f \in Files PROVE f \in Range(t)
  <2>1. PICK j \in 1..Len(Listing) : Listing[j] = f
    BY <1>1 DEF Files
  <2>2. PICK i \in 1..Len(t) : pos[i] = j
    BY <1>3, <2>1
  <2> QED BY <1>4, <1>5, <2>1, <2>2 DEF Range
<1>8. Len(t) <= MaxExpandedFiles
  <2>1. IsFiniteSet(Files) /\ Cardinality(Files) \in Nat /\ Cardinality(Files) <= MaxExpandedFiles
    <3>1. Files \subseteq Entries
      BY DEF Files
    <3> QED BY <3>1, BatchAssumption, FS_Subset, FS_CardinalityType DEF Expandable
  <2>2. t \in [1..Len(t) -> Files]
    BY <1>4
  <2>3. IsFiniteSet(1..Len(t)) /\ Cardinality(1..Len(t)) = Len(t)
    <3>1. 1 \in Int /\ Len(t) \in Int
      BY <1>4
    <3>2. IsFiniteSet(1..Len(t)) /\ Cardinality(1..Len(t)) = IF 1 > Len(t) THEN 0 ELSE Len(t) - 1 + 1
      BY <3>1, FS_Interval
    <3> QED BY <1>4, <3>2
  <2>4. ~ (Cardinality(Files) < Cardinality(1..Len(t)))
    BY <1>6, <2>1, <2>2, <2>3, FS_PigeonHole
  <2> QED BY <1>4, <2>1, <2>3, <2>4, BatchAssumption
<1>9. OfFiles(t)
  BY <1>4, <1>6 DEF OfFiles
<1> QED BY <1>4, <1>7, <1>8, <1>9 DEF t


\* What depends only on the directory and the options.
LEMMA SameDirectory ==
    ASSUME UNCHANGED <<tree, rooted, keyed, flatten>>
    PROVE  /\ Files' = Files /\ Expandable' = Expandable
           /\ \A f : NameOf(f)' = NameOf(f) /\ BatchFileKey(f)' = BatchFileKey(f) /\ DelegatedKey(f)' = DelegatedKey(f)
           /\ via' = via => \A f : KeyOnWire(f)' = KeyOnWire(f)
           /\ via' = via => DistinctKeys' = DistinctKeys
<1>1. Files' = Files /\ \A f : NameOf(f)' = NameOf(f)
  BY DEF Files, NameOf
<1>2. \A f : BatchFileKey(f)' = BatchFileKey(f) /\ DelegatedKey(f)' = DelegatedKey(f)
  BY <1>1 DEF BatchFileKey, DelegatedKey
<1>3. via' = via => \A f : KeyOnWire(f)' = KeyOnWire(f)
  BY <1>2 DEF KeyOnWire
<1>4. via' = via => DistinctKeys' = DistinctKeys
  BY <1>1, <1>3 DEF DistinctKeys
<1>5. Expandable' = Expandable
  BY <1>1 DEF Expandable
<1> QED BY <1>1, <1>2, <1>3, <1>4, <1>5

\* A run begins.
LEMMA ExpandKeeps == BatchInv /\ ExpandDirectory => BatchInv'
<1> SUFFICES ASSUME BatchInv, ExpandDirectory PROVE BatchInv'
  OBVIOUS
<1>0. /\ BatchPlaces /\ BatchCovers /\ TombsTrue /\ FirstRunTold /\ KeyedOnce
      /\ batches' = batches + 1 /\ batches < MaxBatches /\ results' = <<>> /\ batches \in Nat /\ MaxBatches \in Nat
      /\ UNCHANGED <<tree, rooted, keyed, flatten, tombs, arrivals>>
  BY BatchAssumption DEF BatchInv, BatchPlaces, ExpandDirectory
<1>1. /\ Files' = Files /\ Expandable' = Expandable
      /\ \A f : NameOf(f)' = NameOf(f)
  BY <1>0, SameDirectory
<1>2. /\ phase' \in {"sending", "done"} /\ via' \in {"hub", "direct", "none"} /\ refused' \in BOOLEAN
      /\ OfFiles(todo') /\ Len(todo') \in Nat /\ Len(todo') <= MaxExpandedFiles
      /\ phase' # "sending" => todo' = <<>>
      /\ ~ refused' => Expandable /\ \A f \in Files : f \in Range(todo')
  <2>1. CASE Expandable
    <3>1. phase' = "sending" /\ refused' = FALSE /\ todo' = Keep(Listing, Files) /\ via' \in {"hub", "direct", "none"}
      BY <2>1 DEF ExpandDirectory
    <3> QED BY <2>1, <3>1, ListingOnce
  <2>2. CASE ~ Expandable
    <3>1. phase' = "done" /\ refused' = TRUE /\ todo' = <<>> /\ via' = "none"
      BY <2>2 DEF ExpandDirectory
    <3>2. OfFiles(<<>>) /\ Len(<<>>) = 0
      <4>1. <<>> \in Seq(Entries) /\ Len(<<>>) = 0 /\ 1..0 = {}
        OBVIOUS
      <4> QED BY <4>1 DEF OfFiles
    <3> QED BY <3>1, <3>2, BatchAssumption
  <2> QED BY <2>1, <2>2
<1>3. <<>> \in Seq(BatchResults) /\ Len(<<>>) = 0 /\ Range(<<>>) = {}
  BY NothingRises
<1>4. BatchPlaces'
  <2>1. OfFiles(todo)'
    BY <1>1, <1>2 DEF OfFiles
  <2>2. results' \in Seq(BatchResults) /\ Len(results') + Len(todo') <= MaxExpandedFiles
    BY <1>0, <1>2, <1>3
  <2>3. \A f \in Entries : arrivals[f] <= batches + 1 /\ arrivals[f] < batches + 1
    BY <1>0 DEF BatchPlaces
  <2>4. batches' \in 0..MaxBatches
    BY <1>0
  <2> QED BY <1>0, <1>2, <2>1, <2>2, <2>3, <2>4 DEF BatchPlaces
<1>5. BatchCovers'
  BY <1>0, <1>1, <1>2 DEF BatchCovers
<1>6. TombsTrue'
  BY <1>0, <1>1 DEF TombsTrue
<1>7. SentArrived'
  BY <1>0, <1>3 DEF SentArrived
<1>8. FirstRunTold'
  BY <1>0 DEF FirstRunTold
<1>9. KeyedOnce'
  BY <1>0, <1>1 DEF KeyedOnce
<1> QED BY <1>4, <1>5, <1>6, <1>7, <1>8, <1>9 DEF BatchInv

\* The next file has its result.
LEMMA ResultAdded ==
    ASSUME BatchPlaces, BatchCovers, NEW f, NEW e \in Ok..Risk, NEW k \in BOOLEAN, k <=> e = Risk, Sent(f, e, k)
    PROVE  /\ f \in Files /\ f \in Entries /\ OfFiles(todo') /\ results' \in Seq(BatchResults)
           /\ Range(todo) = {f} \cup Range(todo') /\ f \notin Range(todo')
           /\ Range(results') = Range(results) \cup {[file |-> f, exit |-> e, risk |-> k]}
           /\ Len(results') + Len(todo') <= MaxExpandedFiles
           /\ batches > 0 /\ arrivals[f] < batches /\ BatchCovers'
           /\ UNCHANGED <<tree, rooted, keyed, flatten, phase, via, refused, batches>>
<1> DEFINE x == [file |-> f, exit |-> e, risk |-> k]
<1>1. /\ phase = "sending" /\ todo # <<>> /\ f = Head(todo) /\ todo' = Tail(todo) /\ results' = Append(results, x)
      /\ UNCHANGED <<tree, rooted, keyed, flatten, phase, via, refused, interrupted, batches>>
  BY DEF Sent
<1>2. /\ todo \in Seq(Entries) /\ Len(todo) \in Nat \ {0} /\ DOMAIN todo = 1..Len(todo)
      /\ \A i \in 1..Len(todo) : todo[i] \in Files
      /\ \A i, j \in 1..Len(todo) : todo[i] = todo[j] => i = j
      /\ results \in Seq(BatchResults) /\ Len(results) \in Nat /\ DOMAIN results = 1..Len(results)
      /\ Len(results) + Len(todo) <= MaxExpandedFiles /\ MaxExpandedFiles \in Nat
  <2>1. OfFiles(todo) /\ results \in Seq(BatchResults) /\ Len(results) + Len(todo) <= MaxExpandedFiles
    BY DEF BatchPlaces
  <2>2. MaxExpandedFiles \in Nat
    BY BatchAssumption
  <2> QED BY <1>1, <2>1, <2>2 DEF OfFiles
<1>3. f = todo[1] /\ f \in Files /\ f \in Entries
  BY <1>1, <1>2 DEF Files
<1>4. x \in BatchResults
  BY <1>3 DEF BatchResults
<1>5. /\ results' \in Seq(BatchResults) /\ Len(results') = Len(results) + 1 /\ DOMAIN results' = 1..(Len(results) + 1)
      /\ results'[Len(results) + 1] = x /\ \A i \in 1..Len(results) : results'[i] = results[i]
  <2> HIDE DEF x
  <2> QED BY <1>1, <1>2, <1>4
<1>6. /\ todo' \in Seq(Entries) /\ Len(todo') = Len(todo) - 1 /\ DOMAIN todo' = 1..(Len(todo) - 1)
      /\ \A i \in 1..(Len(todo) - 1) : todo'[i] = todo[i + 1] /\ i + 1 \in 1..Len(todo) /\ i + 1 # 1
  BY <1>1, <1>2
<1>7. OfFiles(todo')
  <2>1. ASSUME NEW i \in 1..(Len(todo) - 1), NEW j \in 1..(Len(todo) - 1), todo'[i] = todo'[j] PROVE i = j
    <3>1. i + 1 = j + 1
      BY <1>2, <1>6, <2>1
    <3> QED BY <3>1
  <2> QED BY <1>2, <1>6, <2>1 DEF OfFiles
<1>8. f \notin Range(todo')
  <2> SUFFICES ASSUME NEW i \in 1..(Len(todo) - 1), todo'[i] = f PROVE FALSE
    BY <1>6 DEF Range
  <2>1. todo[i + 1] = todo[1] /\ i + 1 \in 1..Len(todo) /\ 1 \in 1..Len(todo)
    BY <1>2, <1>3, <1>6
  <2> QED BY <2>1, <1>2, <1>6
<1>9. Range(todo) = {f} \cup Range(todo')
  <2>1. ASSUME NEW i \in 1..Len(todo) PROVE todo[i] = f \/ todo[i] \in Range(todo')
    <3>1. i = 1 \/ (i - 1 \in 1..(Len(todo) - 1) /\ (i - 1) + 1 = i)
      BY <1>2
    <3>2. CASE i = 1
      BY <3>2, <1>3
    <3>3. CASE i - 1 \in 1..(Len(todo) - 1) /\ (i - 1) + 1 = i
      <4>1. i - 1 \in DOMAIN todo' /\ todo'[i - 1] = todo[i]
        BY <3>3, <1>6
      <4> QED BY <4>1 DEF Range
    <3> QED BY <3>1, <3>2, <3>3
  <2>2. Range(todo) \subseteq {f} \cup Range(todo')
    BY <2>1, <1>2 DEF Range
  <2>3. 1 \in DOMAIN todo /\ \A i \in DOMAIN todo' : i + 1 \in DOMAIN todo /\ todo'[i] = todo[i + 1]
    BY <1>2, <1>6
  <2>4. {f} \cup Range(todo') \subseteq Range(todo)
    BY <2>3, <1>3 DEF Range
  <2> QED BY <2>2, <2>4
<1>10. Range(results') = Range(results) \cup {x}
  <2> HIDE DEF x
  <2>1. \A i \in 1..(Len(results) + 1) : i \in 1..Len(results) \/ i = Len(results) + 1
    BY <1>2
  <2>2. Len(results) + 1 \in 1..(Len(results) + 1) /\ \A i \in 1..Len(results) : i \in 1..(Len(results) + 1)
    BY <1>2
  <2> QED BY <1>2, <1>5, <2>1, <2>2 DEF Range
<1>11. Len(results') + Len(todo') <= MaxExpandedFiles
  BY <1>2, <1>5, <1>6
<1>12. batches > 0 /\ arrivals[f] < batches
  BY <1>1, <1>3, <1>9 DEF BatchCovers, BatchPlaces
<1>13. BatchCovers'
  <2>1. Files' = Files /\ Expandable' = Expandable
    BY <1>1, SameDirectory
  <2>2. x.file = f
    OBVIOUS
  <2> HIDE DEF x
  <2>3. ~ refused => Expandable /\ \A g \in Files : g \in Range(todo') \/ \E y \in Range(results') : y.file = g
    BY <1>1, <1>9, <1>10, <2>2 DEF BatchCovers
  <2> QED BY <1>1, <1>12, <2>1, <2>3 DEF BatchCovers
<1> QED BY <1>1, <1>3, <1>5, <1>7, <1>8, <1>9, <1>10, <1>11, <1>12, <1>13


\* What a copy that reaches the receiver changes.
LEMMA ReceiveChanges ==
    ASSUME BatchPlaces, NEW f \in Entries, Receive(f)
    PROVE  /\ arrivals' \in [Entries -> Nat] /\ (\A g \in Entries : g # f => arrivals'[g] = arrivals[g])
           /\ \/ Known(f) # {} /\ arrivals' = arrivals /\ tombs' = tombs
              \/ /\ Known(f) = {} /\ arrivals'[f] = arrivals[f] + 1
                 /\ tombs' = tombs \cup {[key |-> k, name |-> NameOf(f), content |-> Content[f]] : k \in {KeyOnWire(f)} \ {<<>>}}
<1>1. arrivals \in [Entries -> Nat]
  BY DEF BatchPlaces
<1>2. CASE Known(f) = {}
  <2>1. arrivals' = [arrivals EXCEPT ![f] = arrivals[f] + 1]
    BY <1>2 DEF Receive
  <2> QED BY <1>1, <1>2, <2>1 DEF Receive
<1>3. CASE Known(f) # {}
  BY <1>1, <1>3 DEF Receive
<1> QED BY <1>2, <1>3

\* The copy of a file has reached the receiver, or nothing has.
Reached(f, e, k) ==
    \/ UNCHANGED <<tombs, arrivals>> /\ e # Ok
    \/ /\ Receive(f) /\ via # "none" /\ (e = Ok => Answered(f) = Ok)
       /\ via = "direct" /\ Known(f) = {} /\ Size[f] > 0 => e = Ok \/ k

\* Arrivals only grow, by one and only of the file that is sent.
LEMMA ArrivalsGrow ==
    ASSUME BatchPlaces, NEW f \in Entries, NEW e, NEW k, Reached(f, e, k)
    PROVE  /\ arrivals' \in [Entries -> Nat] /\ (\A g \in Entries : g # f => arrivals'[g] = arrivals[g])
           /\ arrivals'[f] \in Nat /\ arrivals[f] \in Nat /\ arrivals[f] <= arrivals'[f] /\ arrivals'[f] <= arrivals[f] + 1
           /\ \A g \in Entries : arrivals[g] \in Nat /\ (arrivals[g] > 0 => arrivals'[g] > 0)
           /\ tombs \subseteq tombs'
           /\ \A t \in tombs' : t \in tombs \/
                (/\ t.key = KeyOnWire(f) /\ KeyOnWire(f) # <<>> /\ t.name = NameOf(f) /\ t.content = Content[f]
                 /\ arrivals'[f] > 0 /\ via # "none")
<1>1. arrivals \in [Entries -> Nat] /\ \A g \in Entries : arrivals[g] \in Nat
  BY DEF BatchPlaces
<1>2. CASE UNCHANGED <<tombs, arrivals>>
  BY <1>1, <1>2
<1>3. CASE Receive(f) /\ via # "none"
  <2>1. /\ arrivals' \in [Entries -> Nat] /\ (\A g \in Entries : g # f => arrivals'[g] = arrivals[g])
        /\ \/ Known(f) # {} /\ arrivals' = arrivals /\ tombs' = tombs
           \/ /\ Known(f) = {} /\ arrivals'[f] = arrivals[f] + 1
              /\ tombs' = tombs \cup {[key |-> k2, name |-> NameOf(f), content |-> Content[f]] : k2 \in {KeyOnWire(f)} \ {<<>>}}
    BY <1>3, ReceiveChanges
  <2>2. CASE arrivals' = arrivals /\ tombs' = tombs
    BY <1>1, <2>2
  <2>3. CASE /\ arrivals'[f] = arrivals[f] + 1
             /\ tombs' = tombs \cup {[key |-> k2, name |-> NameOf(f), content |-> Content[f]] : k2 \in {KeyOnWire(f)} \ {<<>>}}
    <3>1. arrivals'[f] > 0 /\ \A g \in Entries : arrivals[g] > 0 => arrivals'[g] > 0
      BY <1>1, <2>1, <2>3
    <3>2. \A t \in tombs' : t \in tombs \/
                (t.key = KeyOnWire(f) /\ KeyOnWire(f) # <<>> /\ t.name = NameOf(f) /\ t.content = Content[f])
      BY <2>3
    <3> QED BY <1>1, <1>3, <2>1, <2>3, <3>1, <3>2
  <2> QED BY <2>1, <2>2, <2>3
<1> QED BY <1>2, <1>3 DEF Reached

\* One file is sent, or is not, and has its result.
LEMMA SendKeeps ==
    ASSUME BatchInv, NEW f, NEW e \in Ok..Risk, NEW k \in BOOLEAN, k <=> e = Risk, Sent(f, e, k), Reached(f, e, k)
    PROVE  BatchInv'
<1> DEFINE x == [file |-> f, exit |-> e, risk |-> k]
<1>1. BatchPlaces /\ BatchCovers /\ TombsTrue /\ SentArrived /\ FirstRunTold /\ KeyedOnce
  BY DEF BatchInv
<1>2. /\ f \in Files /\ f \in Entries /\ OfFiles(todo') /\ results' \in Seq(BatchResults)
      /\ Range(todo) = {f} \cup Range(todo') /\ f \notin Range(todo')
      /\ Range(results') = Range(results) \cup {x}
      /\ Len(results') + Len(todo') <= MaxExpandedFiles
      /\ batches > 0 /\ arrivals[f] < batches /\ BatchCovers'
      /\ UNCHANGED <<tree, rooted, keyed, flatten, phase, via, refused, batches>>
  BY <1>1, ResultAdded
<1>3. x.file = f /\ x.exit = e /\ x.risk = k
  OBVIOUS
<1> HIDE DEF x
<1>4. /\ Files' = Files /\ \A g : NameOf(g)' = NameOf(g)
      /\ DistinctKeys' = DistinctKeys
  BY <1>2, SameDirectory
<1>5. /\ arrivals' \in [Entries -> Nat] /\ (\A g \in Entries : g # f => arrivals'[g] = arrivals[g])
      /\ arrivals'[f] \in Nat /\ arrivals[f] \in Nat /\ arrivals[f] <= arrivals'[f] /\ arrivals'[f] <= arrivals[f] + 1
      /\ \A g \in Entries : arrivals[g] \in Nat /\ (arrivals[g] > 0 => arrivals'[g] > 0)
      /\ tombs \subseteq tombs'
      /\ \A t \in tombs' : t \in tombs \/
           (/\ t.key = KeyOnWire(f) /\ KeyOnWire(f) # <<>> /\ t.name = NameOf(f) /\ t.content = Content[f]
            /\ arrivals'[f] > 0 /\ via # "none")
  BY <1>1, <1>2, ArrivalsGrow
<1>6. BatchPlaces'
  <2>1. batches \in Nat /\ \A g \in Entries : arrivals[g] <= batches /\ (g \in Range(todo) => arrivals[g] < batches)
    BY <1>1, BatchAssumption DEF BatchPlaces
  <2>2. ASSUME NEW g \in Entries PROVE arrivals'[g] <= batches /\ (g \in Range(todo') => arrivals'[g] < batches)
    <3>1. CASE g = f
      BY <1>2, <1>5, <2>1, <3>1
    <3>2. CASE g # f
      BY <1>2, <1>5, <2>1, <3>2
    <3> QED BY <3>1, <3>2
  <2>3. OfFiles(todo)'
    BY <1>2, <1>4 DEF OfFiles
  <2> QED BY <1>1, <1>2, <1>5, <2>2, <2>3 DEF BatchPlaces
<1>7. TombsTrue'
  <2> SUFFICES ASSUME NEW t \in tombs'
               PROVE  \E g \in Files : /\ arrivals'[g] > 0 /\ t.name = NameOf(g) /\ t.content = Content[g] /\ keyed
                                       /\ t.key = <<"key">> \/ (t.key = <<"key", NameOf(g)>> /\ NameOf(g) \notin BadNames)
    BY <1>2, <1>4 DEF TombsTrue
  <2>1. CASE t \in tombs
    <3>1. Files \subseteq Entries
      BY DEF Files
    <3> QED BY <2>1, <3>1, <1>1, <1>5 DEF TombsTrue
  <2>2. CASE t \notin tombs
    <3>1. /\ t.key = KeyOnWire(f) /\ KeyOnWire(f) # <<>> /\ t.name = NameOf(f) /\ t.content = Content[f]
          /\ arrivals'[f] > 0
      BY <2>2, <1>5
    <3>2. keyed /\ (t.key = <<"key">> \/ (t.key = <<"key", NameOf(f)>> /\ NameOf(f) \notin BadNames))
      BY <3>1 DEF KeyOnWire, BatchFileKey, DelegatedKey
    <3> QED BY <1>2, <3>1, <3>2
  <2> QED BY <2>1, <2>2
<1>8. SentArrived'
  <2> SUFFICES ASSUME DistinctKeys, NEW y \in Range(results'), y.exit = Ok PROVE arrivals'[y.file] > 0
    BY <1>4 DEF SentArrived
  <2>1. CASE y \in Range(results)
    <3>1. y.file \in Entries
      <4>1. results \in Seq(BatchResults)
        BY <1>1 DEF BatchPlaces
      <4>2. y \in BatchResults
        BY <4>1, <2>1 DEF Range
      <4> QED BY <4>2 DEF BatchResults
    <3> QED BY <2>1, <3>1, <1>1, <1>5 DEF SentArrived
  <2>2. CASE y = x
    <3>1. e = Ok /\ Receive(f) /\ via # "none" /\ Answered(f) = Ok
      BY <2>2, <1>3 DEF Reached
    <3>2. CASE Known(f) = {}
      <4>1. arrivals'[f] = arrivals[f] + 1
        BY <3>1, <3>2, <1>1, <1>2, ReceiveChanges
      <4> QED BY <4>1, <1>3, <1>5, <2>2
    <3>3. CASE Known(f) # {}
      <4>1. PICK t \in Known(f) : TRUE
        BY <3>3
      <4>2. t \in tombs /\ KeyOnWire(f) # <<>> /\ t.key = KeyOnWire(f) /\ t.name = NameOf(f)
        <5>1. SameTransfer(t, f)
          BY <3>1, <4>1 DEF Answered, Ok, Failed
        <5> QED BY <5>1, <4>1 DEF Known, SameTransfer
      <4>3. PICK g \in Files : arrivals[g] > 0 /\ t.name = NameOf(g)
        BY <4>2, <1>1 DEF TombsTrue
      <4>4. KeyOnWire(g) = KeyOnWire(f)
        BY <4>2, <4>3 DEF KeyOnWire, BatchFileKey, DelegatedKey
      <4>5. g = f
        BY <4>2, <4>4, <1>2 DEF DistinctKeys
      <4> QED BY <4>3, <4>5, <1>2, <1>3, <1>5, <2>2
    <3> QED BY <3>2, <3>3
  <2> QED BY <2>1, <2>2, <1>2
<1>9. FirstRunTold'
  <2>1. batches' # 0
    BY <1>2, <1>1 DEF BatchPlaces
  <2> SUFFICES ASSUME batches = 1, via = "direct", NEW g \in Entries, arrivals'[g] > 0, Size[g] > 0
               PROVE  \E y \in Range(results') : y.exit = Ok \/ y.risk
    BY <1>2, <2>1 DEF FirstRunTold
  <2>2. CASE arrivals[g] > 0
    BY <2>2, <1>1, <1>2 DEF FirstRunTold
  <2>3. CASE ~ (arrivals[g] > 0)
    <3>1. g = f /\ arrivals' # arrivals
      BY <2>3, <1>5
    <3>2. Receive(f) /\ Known(f) = {} /\ (e = Ok \/ k)
      <4>1. Receive(f)
        BY <3>1 DEF Reached
      <4>2. Known(f) = {}
        BY <3>1, <4>1 DEF Receive
      <4> QED BY <3>1, <4>1, <4>2 DEF Reached
    <3> QED BY <3>2, <1>2, <1>3
  <2> QED BY <2>2, <2>3
<1>10. KeyedOnce'
  <2> SUFFICES ASSUME keyed, ~(\E t \in tombs' : t.key = <<"key">>), NEW g \in Files, NameOf(g) \notin BadNames
               PROVE  arrivals'[g] <= 1 /\ (arrivals'[g] > 0 => \E t \in tombs' : t.key = <<"key", NameOf(g)>>)
    BY <1>2, <1>4 DEF KeyedOnce
  <2>1. /\ arrivals[g] <= 1 /\ (arrivals[g] > 0 => \E t \in tombs : t.key = <<"key", NameOf(g)>>)
        /\ g \in Entries /\ arrivals[g] \in Nat
    BY <1>1, <1>5 DEF KeyedOnce, Files
  <2>2. CASE arrivals'[g] = arrivals[g]
    BY <2>1, <2>2, <1>5
  <2>3. CASE arrivals'[g] # arrivals[g]
    <3>1. g = f
      BY <2>1, <2>3, <1>5
    <3>2. Receive(f) /\ via # "none"
      BY <2>3, <3>1 DEF Reached
    <3>3. /\ Known(f) = {} /\ arrivals'[f] = arrivals[f] + 1
          /\ tombs' = tombs \cup {[key |-> k2, name |-> NameOf(f), content |-> Content[f]] : k2 \in {KeyOnWire(f)} \ {<<>>}}
      BY <2>3, <3>1, <3>2, <1>1, <1>2, ReceiveChanges
    <3>4. KeyOnWire(f) # <<>>
      BY <2>1, <3>1, KeysNotFresh DEF KeyOnWire, BatchFileKey, DelegatedKey
    <3>5. \E t \in tombs' : t.key = KeyOnWire(f)
      <4>1. [key |-> KeyOnWire(f), name |-> NameOf(f), content |-> Content[f]] \in tombs'
        BY <3>3, <3>4
      <4> QED BY <4>1
    <3>6. KeyOnWire(f) = <<"key", NameOf(f)>>
      <4>1. KeyOnWire(f) # <<"key">>
        BY <3>5
      <4> QED BY <4>1, <3>1 DEF KeyOnWire, BatchFileKey, DelegatedKey
    <3>7. arrivals[f] = 0
      <4>1. ~ (\E t \in tombs : t.key = KeyOnWire(f))
        BY <3>3, <3>4 DEF Known
      <4> QED BY <4>1, <3>1, <3>6, <2>1
    <3> QED BY <3>1, <3>3, <3>5, <3>6, <3>7
  <2> QED BY <2>2, <2>3
<1> QED BY <1>2, <1>6, <1>7, <1>8, <1>9, <1>10 DEF BatchInv


\* Every step of the command and of the receiver keeps the invariant.
LEMMA BatchSteps == BatchInv /\ [BatchNext]_batchVars => BatchInv'
<1> SUFFICES ASSUME BatchInv, [BatchNext]_batchVars PROVE BatchInv'
  OBVIOUS
<1>0. Ok \in Ok..Risk /\ Failed \in Ok..Risk /\ Usage \in Ok..Risk /\ Risk \in Ok..Risk
      /\ Failed # Ok /\ Usage # Ok /\ Risk # Ok /\ Failed # Risk /\ Usage # Risk
  BY DEF Ok, Failed, Usage, Risk
<1>1. CASE ExpandDirectory
  BY <1>1, ExpandKeeps
<1>2. CASE UNCHANGED <<tree, rooted, keyed, flatten, via, todo, results, refused, tombs, arrivals, batches>>
           /\ (phase' = phase \/ (phase = "sending" /\ todo = <<>> /\ phase' = "done"))
  <2>1. /\ Files' = Files /\ Expandable' = Expandable /\ (\A g : NameOf(g)' = NameOf(g))
        /\ DistinctKeys' = DistinctKeys
    BY <1>2, SameDirectory
  <2>2. BatchPlaces'
    <3>1. OfFiles(todo)'
      BY <1>2, <2>1 DEF BatchInv, BatchPlaces, OfFiles
    <3> QED BY <1>2, <3>1 DEF BatchInv, BatchPlaces
  <2>3. BatchCovers'
    BY <1>2, <2>1 DEF BatchInv, BatchCovers
  <2>4. TombsTrue' /\ KeyedOnce'
    BY <1>2, <2>1 DEF BatchInv, TombsTrue, KeyedOnce
  <2>5. SentArrived' /\ FirstRunTold'
    BY <1>2, <2>1 DEF BatchInv, SentArrived, FirstRunTold
  <2> QED BY <2>2, <2>3, <2>4, <2>5 DEF BatchInv
<1>3. ASSUME NEW f \in Entries, SendFile(f) PROVE BatchInv'
  <2>1. via # "none" /\ Receive(f) /\ Sent(f, Answered(f), FALSE)
    BY <1>3 DEF SendFile
  <2>2. Answered(f) \in Ok..Risk /\ Answered(f) # Risk /\ (Known(f) = {} => Answered(f) = Ok)
    BY <1>0 DEF Answered
  <2>3. Reached(f, Answered(f), FALSE)
    BY <2>1, <2>2 DEF Reached
  <2> QED BY <2>1, <2>2, <2>3, SendKeeps
<1>4. ASSUME NEW f \in Entries, SendFails(f) PROVE BatchInv'
  <2>1. UNCHANGED <<tombs, arrivals>> /\ (Sent(f, Failed, FALSE) \/ Sent(f, Usage, FALSE) \/ Sent(f, Risk, TRUE))
    BY <1>4 DEF SendFails, FailedOrRisk
  <2>2. Reached(f, Failed, FALSE) /\ Reached(f, Usage, FALSE) /\ Reached(f, Risk, TRUE)
    BY <1>0, <2>1 DEF Reached
  <2> QED BY <1>0, <2>1, <2>2, SendKeeps
<1>5. ASSUME NEW f \in Entries, AnswerLost(f) PROVE BatchInv'
  <2>1. via # "none" /\ Receive(f) /\ (Sent(f, Risk, TRUE) \/ ((via = "hub" \/ Size[f] = 0) /\ Sent(f, Failed, FALSE)))
    BY <1>5 DEF AnswerLost
  <2>2. Reached(f, Risk, TRUE) /\ (via = "hub" \/ Size[f] = 0 => Reached(f, Failed, FALSE))
    BY <1>0, <2>1 DEF Reached
  <2> QED BY <1>0, <2>1, <2>2, SendKeeps
<1>6. CASE UNCHANGED batchVars \/ Interrupt \/ SendBatchFiles
  BY <1>2, <1>6 DEF batchVars, Interrupt, SendBatchFiles
<1> QED BY <1>1, <1>3, <1>4, <1>5, <1>6 DEF BatchNext

\* The exit code and the status say the same of a batch that ran.
LEMMA CodeIsStatus == BatchPlaces => ((ExitCode = Ok) <=> (~refused /\ Status = "success"))
<1> SUFFICES ASSUME BatchPlaces PROVE (ExitCode = Ok) <=> (~refused /\ Status = "success")
  OBVIOUS
<1>1. \A x \in Outcomes : x.exit \in Ok..Risk /\ (x.risk <=> x.exit = Risk)
  BY DEF BatchPlaces, BatchResults, Outcomes
<1>2. \A x \in Outcomes : x.exit = Ok \/ x.exit = Failed \/ x.exit = Usage \/ x.risk
  BY <1>1 DEF Ok, Failed, Usage, Risk
<1>3. Ok # Failed /\ Ok # Usage /\ Ok # Risk
  BY DEF Ok, Failed, Usage, Risk
<1>4. ExitCode = Ok <=> ~ refused /\ ~ Ambiguous /\ \A x \in Outcomes : x.exit = Ok
  BY <1>2, <1>3 DEF ExitCode, Ambiguous
<1>5. Status = "success" <=> ~ Ambiguous /\ Succeeded = Outcomes
  BY DEF Status, Ambiguous, Succeeded
<1>6. Succeeded = Outcomes <=> \A x \in Outcomes : x.exit = Ok
  BY DEF Succeeded
<1> QED BY <1>4, <1>5, <1>6

\* The report of a batch, and a second run of it, are right where the invariant holds.
LEMMA BatchTells == BatchInv => BatchSound
<1> SUFFICES ASSUME BatchInv PROVE BatchSound
  OBVIOUS
<1>0. BatchPlaces /\ BatchCovers /\ TombsTrue /\ SentArrived /\ FirstRunTold /\ KeyedOnce
  BY DEF BatchInv
<1>1. Outcomes = Range(results) /\ Outcomes \subseteq BatchResults
  BY <1>0 DEF Outcomes, Range, BatchPlaces
<1>2. BatchTypeOK
  <2>1. ASSUME NEW f \in Entries PROVE arrivals[f] \in 0..MaxBatches
    BY <1>0, BatchAssumption DEF BatchPlaces
  <2>2. \A x \in Outcomes : x.exit \in Ok..Risk
    BY <1>1 DEF BatchResults
  <2> QED BY <1>0, <2>1, <2>2 DEF BatchTypeOK, BatchPlaces
<1>3. ASSUME phase = "done" PROVE ExitCodeTrue
  <2>1. (ExitCode = Ok) <=> (~refused /\ Status = "success")
    BY <1>0, CodeIsStatus
  <2>2. ASSUME DistinctKeys, NEW x \in Succeeded PROVE arrivals[x.file] > 0
    BY <1>0, <1>1, <2>2 DEF Succeeded, SentArrived
  <2>3. ASSUME ExitCode = Ok, DistinctKeys, NEW f \in Entries, tree[f] \in {"file", "barred"}
        PROVE  arrivals[f] > 0
    <3>1. ~ refused /\ Status = "success"
      BY <2>1, <2>3
    <3>2. Expandable /\ todo = <<>> /\ \A g \in Files : g \in Range(todo) \/ \E x \in Range(results) : x.file = g
      BY <1>0, <1>3, <3>1 DEF BatchCovers
    <3>3. f \in Files
      BY <2>3, <3>2 DEF Expandable, Files
    <3>4. PICK x \in Outcomes : x.file = f
      BY <1>1, <3>2, <3>3, NothingRises
    <3>5. Succeeded = Outcomes
      BY <3>1 DEF Status
    <3> QED BY <2>2, <2>3, <3>4, <3>5
  <2>4. ASSUME via = "direct", Status = "error", ~Ambiguous, batches = 1, NEW f \in Entries, Size[f] > 0 PROVE arrivals[f] = 0
    <3>1. Succeeded = {}
      BY <2>4 DEF Status
    <3>2. \A x \in Range(results) : x.exit # Ok /\ ~ x.risk
      BY <1>1, <2>4, <3>1 DEF Succeeded, Ambiguous
    <3>3. ~ (arrivals[f] > 0) /\ arrivals[f] \in Nat
      BY <1>0, <2>4, <3>2 DEF FirstRunTold, BatchPlaces
    <3> QED BY <3>3
  <2>5. (ExitCode = Ok) = (~refused /\ Status = "success")
    <3>1. (ExitCode = Ok) \in BOOLEAN /\ (~refused /\ Status = "success") \in BOOLEAN
      BY Zenon
    <3> QED BY <2>1, <3>1, Zenon
  <2> QED BY <2>2, <2>3, <2>4, <2>5 DEF ExitCodeTrue
<1>4. RerunSafe
  <2> SUFFICES ASSUME NEW f \in Files, NEW t \in tombs, t.key = <<"key", NameOf(f)>>,
                      ~(\E u \in tombs : u.key = <<"key">>)
               PROVE  arrivals[f] <= 1
    BY DEF RerunSafe
  <2>1. PICK g \in Files : keyed /\ (t.key = <<"key">> \/ (t.key = <<"key", NameOf(g)>> /\ NameOf(g) \notin BadNames))
    BY <1>0 DEF TombsTrue
  <2>2. t.key = <<"key", NameOf(g)>> /\ NameOf(g) \notin BadNames
    BY <2>1
  <2>3. NameOf(g) = NameOf(f)
    BY <2>2, KeysNotFresh
  <2> QED BY <1>0, <2>1, <2>2, <2>3 DEF KeyedOnce
<1> QED BY <1>2, <1>3, <1>4 DEF BatchSound, ExitCodeTrue

\* The report of a batch is true, whatever failed, was unheard or interrupted
\* (of an empty file a first run may deny that it arrived), and a second run
\* under a key publishes nothing twice (multifile_send.go: batchExitCode,
\* aggregateBatch, batchFileKey).
THEOREM BatchesSound == BatchSpec => []BatchSound
<1>1. BatchInv /\ [BatchNext]_batchVars => BatchInv'
  BY BatchSteps
<1>2. BatchSpec => []BatchInv
  BY <1>1, BatchStarts, PTL DEF BatchSpec
<1> QED BY <1>2, BatchTells, PTL
=============================================================================
