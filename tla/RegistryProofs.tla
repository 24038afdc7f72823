--------------------------- MODULE RegistryProofs ---------------------------
(***************************************************************************)
(* Lemmas about the operators of PeerRegistry and ConnPool: each keeps the *)
(* type of a registry or a pool, and the consistency of a registry's maps. *)
(***************************************************************************)
EXTENDS PeerRegistry, ConnPool, SequenceTheorems, TLAPS

\* The four pool operations that change a single entry, and Closed, keep the
\* type of the pool.
LEMMA PoolTypes ==
  ASSUME NEW p \in Pool, NEW a, NEW c \in Conn
  PROVE  /\ Dialled(p, c) \in Pool
         /\ Closed(p, c) \in Pool
         /\ SetConn(p, a, c) \in Pool
         /\ DeleteConn(p, a) \in Pool
         /\ SetStream(p, a, c) \in Pool
         /\ DeleteStream(p, a) \in Pool
         /\ CloseByAddr(p, a) \in Pool
  BY DEF Pool, Dialled, Closed, SetConn, DeleteConn, SetStream, DeleteStream, CloseByAddr

\* An index entry found by the linear search of addNameAddr and cleanNameAddr.
LEMMA ChooseIndex ==
  ASSUME NEW s \in Seq(Addr), NEW a, Contains(s, a)
  PROVE  (CHOOSE i \in 1 .. Len(s) : s[i] = a) \in 1 .. Len(s)
         /\ s[CHOOSE i \in 1 .. Len(s) : s[i] = a] = a
  BY DEF Contains

\* RemoveAt drops position k and shifts what follows (SequencesExt).
LEMMA RemoveAtFacts ==
  ASSUME NEW s \in Seq(Addr), NEW k \in 1 .. Len(s)
  PROVE  /\ RemoveAt(s, k) \in Seq(Addr)
         /\ Len(RemoveAt(s, k)) = Len(s) - 1
         /\ \A i \in 1 .. Len(s) - 1 :
              RemoveAt(s, k)[i] = IF i < k THEN s[i] ELSE s[i + 1]
<1> DEFINE left == SubSeq(s, 1, k - 1)
           right == SubSeq(s, k + 1, Len(s))
<1>1. /\ left \in Seq(Addr) /\ Len(left) = k - 1
      /\ \A i \in 1 .. k - 1 : left[i] = s[i]
  OBVIOUS
<1>2. /\ right \in Seq(Addr) /\ Len(right) = Len(s) - k
      /\ \A i \in 1 .. Len(s) - k : right[i] = s[i + k]
  OBVIOUS
<1>3. RemoveAt(s, k) = left \o right
  BY DEF RemoveAt
<1> HIDE DEF left, right
<1>4. /\ left \o right \in Seq(Addr)
      /\ Len(left \o right) = Len(s) - 1
      /\ \A i \in 1 .. Len(s) - 1 :
           (left \o right)[i] = IF i < k THEN left[i] ELSE right[i - (k - 1)]
  <2>1. /\ left \o right \in Seq(Addr)
        /\ Len(left \o right) = Len(left) + Len(right)
        /\ \A i \in 1 .. Len(left) + Len(right) :
             (left \o right)[i] = IF i <= Len(left) THEN left[i]
                                  ELSE right[i - Len(left)]
    BY <1>1, <1>2, ConcatProperties
  <2>2. Len(left) = k - 1 /\ Len(left) + Len(right) = Len(s) - 1 /\ Len(s) \in Nat
    BY <1>1, <1>2
  <2> QED
    BY <2>1, <2>2
<1>5. ASSUME NEW i \in 1 .. Len(s) - 1
      PROVE  RemoveAt(s, k)[i] = IF i < k THEN s[i] ELSE s[i + 1]
  <2>1. CASE i < k
    BY <2>1, <1>1, <1>3, <1>4
  <2>2. CASE ~(i < k)
    <3>1. i - (k - 1) \in 1 .. Len(s) - k /\ (i - (k - 1)) + k = i + 1
      BY <2>2
    <3> QED
      BY <2>2, <3>1, <1>2, <1>3, <1>4
  <2> QED
    BY <2>1, <2>2
<1> QED
  BY <1>3, <1>4, <1>5

\* addNameAddr and cleanNameAddr return an index (registry.go:193-225).
LEMMA IndexType ==
  ASSUME NEW index \in [Name -> Seq(Addr)], NEW n \in Name, NEW a \in Addr
  PROVE  /\ addNameAddr(index, n, a) \in [Name -> Seq(Addr)]
         /\ cleanNameAddr(index, n, a) \in [Name -> Seq(Addr)]
<1>1. addNameAddr(index, n, a) \in [Name -> Seq(Addr)]
  BY DEF addNameAddr
<1>2. cleanNameAddr(index, n, a) \in [Name -> Seq(Addr)]
  <2>1. CASE ~Contains(index[n], a)
    BY <2>1 DEF cleanNameAddr
  <2>2. CASE Contains(index[n], a)
    <3> DEFINE k == CHOOSE i \in 1 .. Len(index[n]) : index[n][i] = a
    <3>1. k \in 1 .. Len(index[n])
      BY <2>2, ChooseIndex
    <3>2. RemoveAt(index[n], k) \in Seq(Addr)
      BY <3>1, RemoveAtFacts
    <3>3. cleanNameAddr(index, n, a) = [index EXCEPT ![n] = RemoveAt(index[n], k)]
      BY <2>2 DEF cleanNameAddr
    <3> QED
      BY <3>2, <3>3
  <2> QED
    BY <2>1, <2>2
<1> QED
  BY <1>1, <1>2

\* Every write returns a registry.
LEMMA WriteTypes ==
  ASSUME NEW r \in Registry, NEW u \in UUID, NEW status \in NodeStatus
  PROVE  /\ Register(r, u, status) \in Registry
         /\ Unregister(r, u) \in Registry
         /\ UpdateLastActive(r, u) \in Registry
         /\ UpdateStatus(r, u, status) \in Registry
         /\ Elapse(r) \in Registry
<1>1. NameOf[u] \in Name /\ AddrOf[u] \in Addr /\ 0 \in Age
  BY RegistryAssumption, TypesAssumption DEF Age
<1>2. /\ addNameAddr(r.nameToAddrs, NameOf[u], AddrOf[u]) \in [Name -> Seq(Addr)]
      /\ cleanNameAddr(r.nameToAddrs, NameOf[u], AddrOf[u]) \in [Name -> Seq(Addr)]
  BY <1>1, IndexType DEF Registry
<1>3. Register(r, u, status) \in Registry
  BY <1>1, <1>2 DEF Register, Registry
<1>4. Unregister(r, u) \in Registry
  BY <1>1, <1>2 DEF Unregister, Registry
<1>5. UpdateLastActive(r, u) \in Registry
  BY <1>1 DEF UpdateLastActive, Registry
<1>6. UpdateStatus(r, u, status) \in Registry
  BY DEF UpdateStatus, Registry
<1>7. Elapse(r) \in Registry
  <2>1. \A v \in UUID :
          (IF r.lastActive[v] = None \/ r.lastActive[v] = Timeout + 1
           THEN r.lastActive[v] ELSE r.lastActive[v] + 1) \in Age \cup {None}
    BY TypesAssumption DEF Registry, Age
  <2> QED
    BY <2>1 DEF Elapse, Registry
<1> QED
  BY <1>3, <1>4, <1>5, <1>6, <1>7

\* addNameAddr adds the address, once, and touches no other name.
LEMMA AddFacts ==
  ASSUME NEW index \in [Name -> Seq(Addr)], NEW n \in Name, NEW a \in Addr
  PROVE  /\ \A m \in Name \ {n} : addNameAddr(index, n, a)[m] = index[m]
         /\ \A b \in Addr : Contains(addNameAddr(index, n, a)[n], b)
                             <=> Contains(index[n], b) \/ b = a
         /\ IsInjective(index[n]) => IsInjective(addNameAddr(index, n, a)[n])
<1>1. CASE Contains(index[n], a)
  BY <1>1 DEF addNameAddr
<1>2. CASE ~Contains(index[n], a)
  <2>1. addNameAddr(index, n, a) = [index EXCEPT ![n] = Append(index[n], a)]
    BY <1>2 DEF addNameAddr
  <2>2. \A m \in Name \ {n} : addNameAddr(index, n, a)[m] = index[m]
    BY <2>1
  <2> DEFINE s == index[n]
             s2 == Append(s, a)
  <2>3. addNameAddr(index, n, a)[n] = s2
    BY <2>1
  <2>4. s \in Seq(Addr) /\ Len(s) \in Nat
    OBVIOUS
  <2>5. /\ Len(s2) = Len(s) + 1
        /\ \A i \in 1 .. Len(s) : s2[i] = s[i]
        /\ s2[Len(s) + 1] = a
        /\ DOMAIN s2 = 1 .. Len(s) + 1 /\ DOMAIN s = 1 .. Len(s)
    BY <2>4
  <2> HIDE DEF s2
  <2>6. ASSUME NEW b \in Addr
        PROVE  Contains(s2, b) <=> Contains(s, b) \/ b = a
    BY <2>4, <2>5 DEF Contains
  <2>7. IsInjective(s) => IsInjective(s2)
    BY <1>2, <2>4, <2>5 DEF IsInjective, Contains
  <2> QED
    BY <2>2, <2>3, <2>6, <2>7
<1> QED
  BY <1>1, <1>2

\* cleanNameAddr removes the address and touches no other name.
LEMMA CleanFacts ==
  ASSUME NEW index \in [Name -> Seq(Addr)], NEW n \in Name, NEW a \in Addr,
         IsInjective(index[n])
  PROVE  /\ \A m \in Name \ {n} : cleanNameAddr(index, n, a)[m] = index[m]
         /\ \A b \in Addr : Contains(cleanNameAddr(index, n, a)[n], b)
                             <=> Contains(index[n], b) /\ b # a
         /\ IsInjective(cleanNameAddr(index, n, a)[n])
<1>1. CASE ~Contains(index[n], a)
  BY <1>1 DEF cleanNameAddr
<1>2. CASE Contains(index[n], a)
  <2> DEFINE s == index[n]
             k == CHOOSE i \in 1 .. Len(s) : s[i] = a
             s2 == RemoveAt(s, k)
  <2>1. s \in Seq(Addr) /\ Len(s) \in Nat /\ DOMAIN s = 1 .. Len(s)
    OBVIOUS
  <2>2. k \in 1 .. Len(s) /\ s[k] = a
    BY <1>2, ChooseIndex
  <2>3. cleanNameAddr(index, n, a) = [index EXCEPT ![n] = s2]
    BY <1>2 DEF cleanNameAddr
  <2> HIDE DEF k
  <2>4. /\ s2 \in Seq(Addr) /\ Len(s2) = Len(s) - 1 /\ DOMAIN s2 = 1 .. Len(s) - 1
        /\ \A i \in 1 .. Len(s) - 1 : s2[i] = IF i < k THEN s[i] ELSE s[i + 1]
    <3>1. /\ s2 \in Seq(Addr) /\ Len(s2) = Len(s) - 1
          /\ \A i \in 1 .. Len(s) - 1 : s2[i] = IF i < k THEN s[i] ELSE s[i + 1]
      BY <2>1, <2>2, RemoveAtFacts
    <3> HIDE DEF s2
    <3> QED
      BY <3>1
  <2> HIDE DEF s2
  <2>5. \A i, j \in 1 .. Len(s) : s[i] = s[j] => i = j
    BY <2>1 DEF IsInjective
  <2>6. ASSUME NEW b \in Addr
        PROVE  Contains(s2, b) <=> Contains(s, b) /\ b # a
    <3>1. ASSUME Contains(s2, b)
          PROVE  Contains(s, b) /\ b # a
      <4>1. PICK i \in 1 .. Len(s) - 1 : s2[i] = b
        BY <3>1, <2>4 DEF Contains
      <4>2. PICK j \in 1 .. Len(s) : j # k /\ s[j] = b
        <5>1. CASE i < k
          BY <5>1, <4>1, <2>1, <2>4
        <5>2. CASE ~(i < k)
          <6>1. i + 1 \in 1 .. Len(s) /\ i + 1 # k /\ s[i + 1] = b
            BY <5>2, <4>1, <2>1, <2>2, <2>4
          <6> QED
            BY <6>1
        <5> QED
          BY <5>1, <5>2
      <4> QED
        BY <4>2, <2>2, <2>5 DEF Contains
    <3>2. ASSUME Contains(s, b), b # a
          PROVE  Contains(s2, b)
      <4>1. PICK j \in 1 .. Len(s) : s[j] = b
        BY <3>2 DEF Contains
      <4>2. j # k
        BY <4>1, <3>2, <2>2
      <4>3. CASE j < k
        <5>1. j \in 1 .. Len(s) - 1 /\ s2[j] = b
          BY <4>1, <4>3, <2>1, <2>2, <2>4
        <5> QED
          BY <5>1, <2>4 DEF Contains
      <4>4. CASE j > k
        <5>1. j - 1 \in 1 .. Len(s) - 1 /\ ~(j - 1 < k) /\ (j - 1) + 1 = j
          BY <4>4, <2>1, <2>2
        <5>2. s2[j - 1] = b
          BY <5>1, <4>1, <2>4
        <5> QED
          BY <5>1, <5>2, <2>4 DEF Contains
      <4> QED
        BY <4>2, <4>3, <4>4, <2>1, <2>2
    <3> QED
      BY <3>1, <3>2
  <2>7. IsInjective(s2)
    <3>1. SUFFICES ASSUME NEW i \in 1 .. Len(s) - 1, NEW j \in 1 .. Len(s) - 1, s2[i] = s2[j]
                   PROVE  i = j
      BY <2>4 DEF IsInjective
    <3> DEFINE old(x) == IF x < k THEN x ELSE x + 1
    <3>2. /\ old(i) \in 1 .. Len(s) /\ s2[i] = s[old(i)]
          /\ old(j) \in 1 .. Len(s) /\ s2[j] = s[old(j)]
      BY <2>1, <2>2, <2>4
    <3>3. old(i) = old(j)
      BY <3>1, <3>2, <2>5
    <3> QED
      BY <3>3, <2>1, <2>2
  <2> QED
    BY <2>3, <2>6, <2>7
<1> QED
  BY <1>1, <1>2

-----------------------------------------------------------------------------
(* Consistency.                                                            *)

\* Reads do not depend on the clock: writes that keep the set of registered
\* peers and the index keep both parts of consistency.
LEMMA TouchConsistent ==
  ASSUME NEW r \in Registry, NEW q \in Registry, MapsAgree(r),
         List(q) = List(r), q.registeredAt = r.registeredAt,
         q.nameToAddrs = r.nameToAddrs,
         \A v \in UUID : (q.lastActive[v] = None) <=> (r.lastActive[v] = None)
  PROVE  /\ MapsAgree(q)
         /\ IndexSound(r) => IndexSound(q)
         /\ IndexComplete(r) => IndexComplete(q)
  BY DEF MapsAgree, IndexSound, IndexComplete, List

\* UpdateLastActive, UpdateStatus and the clock keep consistency.
LEMMA UpdateConsistent ==
  ASSUME NEW r \in Registry, NEW u \in UUID, NEW status \in NodeStatus, MapsAgree(r),
         NEW q, q \in {UpdateLastActive(r, u), UpdateStatus(r, u, status), Elapse(r)}
  PROVE  /\ MapsAgree(q)
         /\ IndexSound(r) => IndexSound(q)
         /\ IndexComplete(r) => IndexComplete(q)
<1>1. q \in Registry
  BY WriteTypes
<1>2. 0 \in Age /\ None \notin Age /\ None \notin NodeStatus
  BY RegistryAssumption, TypesAssumption DEF Age
<1>3. /\ List(q) = List(r)
      /\ q.registeredAt = r.registeredAt
      /\ q.nameToAddrs = r.nameToAddrs
      /\ \A v \in UUID : (q.lastActive[v] = None) <=> (r.lastActive[v] = None)
  <2>1. CASE q = UpdateLastActive(r, u)
    BY <2>1, <1>2 DEF UpdateLastActive, List, MapsAgree, Registry
  <2>2. CASE q = UpdateStatus(r, u, status)
    BY <2>2, <1>2 DEF UpdateStatus, List, Registry
  <2>3. CASE q = Elapse(r)
    <3>1. \A v \in UUID : r.lastActive[v] \in Age /\ r.lastActive[v] # Timeout + 1
                            => r.lastActive[v] + 1 \in Age
      BY TypesAssumption DEF Age
    <3>2. \A v \in UUID : (q.lastActive[v] = None) <=> (r.lastActive[v] = None)
      BY <2>3, <3>1, <1>2 DEF Elapse, Registry
    <3> QED
      BY <2>3, <3>2 DEF Elapse, List, Registry
  <2> QED
    BY <2>1, <2>2, <2>3
<1> QED
  BY <1>1, <1>3, TouchConsistent

\* Register keeps consistency (registry.go:52-82).
LEMMA RegisterConsistent ==
  ASSUME NEW r \in Registry, NEW u \in UUID, NEW status \in NodeStatus,
         MapsAgree(r), IndexSound(r)
  PROVE  /\ MapsAgree(Register(r, u, status))
         /\ IndexSound(Register(r, u, status))
         /\ IndexComplete(r) => IndexComplete(Register(r, u, status))
<1> DEFINE q == Register(r, u, status)
<1>1. CASE u = Self
  BY <1>1 DEF Register
<1>2. CASE u # Self
  <2>1. NameOf \in [UUID -> Name] /\ AddrOf \in [UUID -> Addr]
        /\ 0 \in Age /\ None \notin Age /\ None \notin NodeStatus
    BY RegistryAssumption, TypesAssumption DEF Age
  <2>2. /\ q.onlinePeers = [r.onlinePeers EXCEPT ![u] = status]
        /\ q.lastActive = [r.lastActive EXCEPT ![u] = 0]
        /\ q.registeredAt = r.registeredAt \cup {u}
        /\ q.nameToAddrs = IF r.onlinePeers[u] # None THEN r.nameToAddrs
                           ELSE addNameAddr(r.nameToAddrs, NameOf[u], AddrOf[u])
    BY <1>2 DEF Register
  <2>3. r.nameToAddrs \in [Name -> Seq(Addr)]
        /\ r.onlinePeers \in [UUID -> NodeStatus \cup {None}]
        /\ r.lastActive \in [UUID -> Age \cup {None}]
    BY DEF Registry
  <2> HIDE DEF q
  <2>4. List(q) = List(r) \cup {u}
    BY <2>1, <2>2, <2>3 DEF List
  <2>5. MapsAgree(q)
    BY <1>2, <2>1, <2>2, <2>3, <2>4 DEF MapsAgree
  <2>6. CASE u \in List(r)
    <3>1. List(q) = List(r) /\ q.nameToAddrs = r.nameToAddrs
      BY <2>6, <2>2, <2>4 DEF List
    <3> QED
      BY <3>1, <2>5 DEF IndexSound, IndexComplete, q
  <2>7. CASE u \notin List(r)
    <3>1. q.nameToAddrs = addNameAddr(r.nameToAddrs, NameOf[u], AddrOf[u])
      BY <2>7, <2>2 DEF List
    <3>2. /\ \A m \in Name \ {NameOf[u]} : q.nameToAddrs[m] = r.nameToAddrs[m]
          /\ \A b \in Addr : Contains(q.nameToAddrs[NameOf[u]], b)
                              <=> Contains(r.nameToAddrs[NameOf[u]], b) \/ b = AddrOf[u]
          /\ IsInjective(r.nameToAddrs[NameOf[u]]) => IsInjective(q.nameToAddrs[NameOf[u]])
      <4>1. NameOf[u] \in Name /\ AddrOf[u] \in Addr
        BY <2>1
      <4> DEFINE index == addNameAddr(r.nameToAddrs, NameOf[u], AddrOf[u])
      <4>2. /\ \A m \in Name \ {NameOf[u]} : index[m] = r.nameToAddrs[m]
            /\ \A b \in Addr : Contains(index[NameOf[u]], b)
                                <=> Contains(r.nameToAddrs[NameOf[u]], b) \/ b = AddrOf[u]
            /\ IsInjective(r.nameToAddrs[NameOf[u]]) => IsInjective(index[NameOf[u]])
        BY <4>1, <2>3, AddFacts
      <4> HIDE DEF index
      <4>3. q.nameToAddrs = index
        BY <3>1 DEF index
      <4> QED
        BY <4>2, <4>3
    <3>3. IndexSound(q)
      BY <3>2, <2>1, <2>4 DEF IndexSound
    <3>4. IndexComplete(r) => IndexComplete(q)
      BY <3>2, <2>1, <2>4 DEF IndexComplete, List
    <3> QED
      BY <3>3, <3>4, <2>5 DEF q
  <2> QED
    BY <2>6, <2>7
<1> QED
  BY <1>1, <1>2

\* Unregister keeps consistency; it keeps other peers findable only if they do
\* not share the address of the removed one (registry.go:84-100).
LEMMA UnregisterConsistent ==
  ASSUME NEW r \in Registry, NEW u \in UUID, MapsAgree(r), IndexSound(r)
  PROVE  /\ MapsAgree(Unregister(r, u))
         /\ IndexSound(Unregister(r, u))
         /\ DistinctPeers /\ IndexComplete(r) => IndexComplete(Unregister(r, u))
<1> DEFINE q == Unregister(r, u)
<1>1. CASE ~Removed(r, u)
  BY <1>1 DEF Unregister
<1>2. CASE Removed(r, u)
  <2>1. NameOf \in [UUID -> Name] /\ AddrOf \in [UUID -> Addr]
    BY RegistryAssumption
  <2>2. /\ q.onlinePeers = [r.onlinePeers EXCEPT ![u] = None]
        /\ q.lastActive = [r.lastActive EXCEPT ![u] = None]
        /\ q.registeredAt = r.registeredAt \ {u}
        /\ q.nameToAddrs = cleanNameAddr(r.nameToAddrs, NameOf[u], AddrOf[u])
    BY <1>2 DEF Unregister
  <2>3. r.nameToAddrs \in [Name -> Seq(Addr)]
        /\ r.onlinePeers \in [UUID -> NodeStatus \cup {None}]
        /\ r.lastActive \in [UUID -> Age \cup {None}]
    BY DEF Registry
  <2> HIDE DEF q
  <2>4. List(q) = List(r) \ {u}
    BY <2>2, <2>3 DEF List
  <2>5. MapsAgree(q)
    BY <2>2, <2>3, <2>4 DEF MapsAgree, List
  <2>6. /\ \A m \in Name \ {NameOf[u]} : q.nameToAddrs[m] = r.nameToAddrs[m]
        /\ \A b \in Addr : Contains(q.nameToAddrs[NameOf[u]], b)
                            <=> Contains(r.nameToAddrs[NameOf[u]], b) /\ b # AddrOf[u]
        /\ IsInjective(q.nameToAddrs[NameOf[u]])
    <3>1. IsInjective(r.nameToAddrs[NameOf[u]])
      BY <2>1 DEF IndexSound
    <3>2. NameOf[u] \in Name /\ AddrOf[u] \in Addr
      BY <2>1
    <3> DEFINE index == cleanNameAddr(r.nameToAddrs, NameOf[u], AddrOf[u])
    <3>3. /\ \A m \in Name \ {NameOf[u]} : index[m] = r.nameToAddrs[m]
          /\ \A b \in Addr : Contains(index[NameOf[u]], b)
                              <=> Contains(r.nameToAddrs[NameOf[u]], b) /\ b # AddrOf[u]
          /\ IsInjective(index[NameOf[u]])
      BY <3>1, <3>2, <2>3, CleanFacts
    <3> HIDE DEF index
    <3>4. q.nameToAddrs = index
      BY <2>2 DEF index
    <3> QED
      BY <3>3, <3>4
  <2>7. IndexSound(q)
    <3>1. SUFFICES ASSUME NEW n \in Name
                   PROVE  /\ IsInjective(q.nameToAddrs[n])
                          /\ \A a \in Addr : Contains(q.nameToAddrs[n], a) =>
                               \E v \in List(q) : NameOf[v] = n /\ AddrOf[v] = a
      BY DEF IndexSound
    <3>2. IsInjective(q.nameToAddrs[n])
      BY <2>6 DEF IndexSound
    <3>3. ASSUME NEW a \in Addr, Contains(q.nameToAddrs[n], a)
          PROVE  \E v \in List(q) : NameOf[v] = n /\ AddrOf[v] = a
      <4>1. Contains(r.nameToAddrs[n], a) /\ ~(n = NameOf[u] /\ a = AddrOf[u])
        BY <3>3, <2>6
      <4>2. PICK v \in List(r) : NameOf[v] = n /\ AddrOf[v] = a
        BY <4>1 DEF IndexSound
      <4> QED
        BY <4>1, <4>2, <2>4
    <3> QED
      BY <3>2, <3>3
  <2>8. DistinctPeers /\ IndexComplete(r) => IndexComplete(q)
    <3>1. SUFFICES ASSUME DistinctPeers, IndexComplete(r), NEW v \in List(q)
                   PROVE  Contains(q.nameToAddrs[NameOf[v]], AddrOf[v])
      BY DEF IndexComplete
    <3>2. v \in List(r) /\ v # u /\ v \in UUID
      BY <2>4 DEF List
    <3>3. Contains(r.nameToAddrs[NameOf[v]], AddrOf[v])
      BY <3>1, <3>2 DEF IndexComplete
    <3>4. NameOf[v] = NameOf[u] => AddrOf[v] # AddrOf[u]
      BY <3>1, <3>2 DEF DistinctPeers
    <3> QED
      BY <3>2, <3>3, <3>4, <2>1, <2>6
  <2> QED
    BY <2>5, <2>7, <2>8 DEF q
<1> QED
  BY <1>1, <1>2
=============================================================================
