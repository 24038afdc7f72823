---------------------------- MODULE PeerRegistry ----------------------------
(***************************************************************************)
(* The in-memory peer registry of one node                                 *)
(* (internal/discovery/domain/registry.go).                                *)
(*                                                                         *)
(* A registry is a record r with one field per map of the Go struct:       *)
(*   r.onlinePeers   uuid -> status of the stored NodeInfo, None if absent *)
(*   r.lastActive    uuid -> ticks since time.Now() was stored, or None    *)
(*   r.registeredAt  the uuids that have a registration time (the time     *)
(*                   itself is only displayed)                             *)
(*   r.nameToAddrs   name -> sequence of addresses, <<>> if absent         *)
(* Every operation runs under r.mu, so each one is a function from         *)
(* registries to registries and its caller applies it in a single step.    *)
(*                                                                         *)
(* A NodeInfo is its uuid and its status: every NodeInfo that the program  *)
(* builds for a uuid carries the same name and exactly one address         *)
(* (buildNodeInfo, buildHandshakeReq, broadcastNodeJoin and the            *)
(* auto-connect subscriber), which are the constants NameOf and AddrOf.    *)
(* Two uuids may share both: a restarted node has a fresh uuid at its old  *)
(* name and address.                                                       *)
(***************************************************************************)
EXTENDS P2PTypes, Sequences, SequencesExt

CONSTANTS
  Peer,    \* uuids of the other nodes
  Self,    \* the uuid of this node
  Name,    \* readable names
  NameOf,  \* the name in the NodeInfo of a uuid
  AddrOf   \* the first (and only) address in the NodeInfo of a uuid

UUID == Peer \cup {Self}

ASSUME RegistryAssumption ==
  /\ Self \notin Peer
  /\ None \notin NodeStatus /\ None \notin Age
  /\ NameOf \in [UUID -> Name]
  /\ AddrOf \in [UUID -> Addr]

Registry == [onlinePeers  : [UUID -> NodeStatus \cup {None}],
             lastActive   : [UUID -> Age \cup {None}],
             registeredAt : SUBSET UUID,
             nameToAddrs  : [Name -> Seq(Addr)]]

NewPeerRegistry == [onlinePeers  |-> [u \in UUID |-> None],
                    lastActive   |-> [u \in UUID |-> None],
                    registeredAt |-> {},
                    nameToAddrs  |-> [n \in Name |-> <<>>]]

-----------------------------------------------------------------------------
(* Reads.                                                                  *)

\* The uuids for which Get answers "found"; also the result of List.
List(r) == {u \in UUID : r.onlinePeers[u] # None}

\* GetByName iterates over a Go map: any peer with that name may come first.
GetByName(r, n) == {u \in List(r) : NameOf[u] = n}

GetStale(r, threshold) ==
  {u \in List(r) : r.lastActive[u] = None \/ r.lastActive[u] > threshold}

\* None stands for ErrPeerNotFound.
GetAddrByName(r, n) ==
  IF r.nameToAddrs[n] = <<>> THEN None ELSE r.nameToAddrs[n][1]

-----------------------------------------------------------------------------
(* The name index.                                                         *)

addNameAddr(index, n, a) ==
  IF Contains(index[n], a) THEN index
                           ELSE [index EXCEPT ![n] = Append(@, a)]

\* Mutant: forget the whole name instead of the peer's address.
cleanWholeName(index, n, a) == [index EXCEPT ![n] = <<>>]

(***************************************************************************)
(* The loop keeps every address that differs from the peer's.  addNameAddr *)
(* never stores an address twice, so that is to drop the one occurrence.   *)
(***************************************************************************)
cleanNameAddr(index, n, a) ==
  IF Contains(index[n], a)
  THEN [index EXCEPT ![n] = RemoveAt(@, CHOOSE i \in 1 .. Len(@) : @[i] = a)]
  ELSE index

-----------------------------------------------------------------------------
(* Writes.                                                                 *)

\* A known uuid gets new info and a new lastActive, its index entry stays.
Register(r, u, status) ==
  IF u = Self THEN r
  ELSE [onlinePeers  |-> [r.onlinePeers EXCEPT ![u] = status],
        lastActive   |-> [r.lastActive EXCEPT ![u] = 0],
        registeredAt |-> r.registeredAt \cup {u},
        nameToAddrs  |-> IF r.onlinePeers[u] # None THEN r.nameToAddrs
                         ELSE addNameAddr(r.nameToAddrs, NameOf[u], AddrOf[u])]

\* Unregister returns (removed, nil); Removed is its first result.
Removed(r, u) == r.onlinePeers[u] # None

\* Mutant: the name index is not cleaned.
UnregisterKeepsIndex(r, u) ==
  IF ~Removed(r, u) THEN r
  ELSE [r EXCEPT !.onlinePeers[u] = None, !.lastActive[u] = None,
                 !.registeredAt = @ \ {u}]

Unregister(r, u) ==
  IF ~Removed(r, u) THEN r
  ELSE [onlinePeers  |-> [r.onlinePeers EXCEPT ![u] = None],
        lastActive   |-> [r.lastActive EXCEPT ![u] = None],
        registeredAt |-> r.registeredAt \ {u},
        nameToAddrs  |-> cleanNameAddr(r.nameToAddrs, NameOf[u], AddrOf[u])]

UpdateLastActive(r, u) ==
  IF r.onlinePeers[u] = None THEN r ELSE [r EXCEPT !.lastActive[u] = 0]

UpdateStatus(r, u, status) ==
  IF r.onlinePeers[u] = None THEN r ELSE [r EXCEPT !.onlinePeers[u] = status]

\* One tick of the clock: every stored time is one tick older.
Elapse(r) ==
  [r EXCEPT !.lastActive =
     [u \in UUID |-> IF r.lastActive[u] = None \/ r.lastActive[u] = Timeout + 1
                     THEN r.lastActive[u] ELSE r.lastActive[u] + 1]]

-----------------------------------------------------------------------------
(* What a registry promises.                                               *)

\* The three maps keyed by uuid have the same keys and never hold the node
\* itself.
MapsAgree(r) ==
  /\ List(r) = r.registeredAt
  /\ \A u \in UUID : (r.lastActive[u] = None) <=> (r.onlinePeers[u] = None)
  /\ Self \notin List(r)

\* The name index lists no address twice, and only addresses of registered
\* peers of that name.
IndexSound(r) ==
  \A n \in Name :
    /\ IsInjective(r.nameToAddrs[n])
    /\ \A a \in Addr : Contains(r.nameToAddrs[n], a) =>
         \E u \in List(r) : NameOf[u] = n /\ AddrOf[u] = a

\* Every registered peer can be found by its name.
IndexComplete(r) ==
  \A u \in List(r) : Contains(r.nameToAddrs[NameOf[u]], AddrOf[u])

\* Peers that do not share both name and address: no restarted peer is still
\* registered under its old uuid.
DistinctPeers ==
  \A u, v \in UUID : NameOf[u] = NameOf[v] /\ AddrOf[u] = AddrOf[v] => u = v
=============================================================================
