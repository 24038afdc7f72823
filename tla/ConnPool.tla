------------------------------ MODULE ConnPool ------------------------------
(***************************************************************************)
(* The pool of outgoing gRPC connections and message streams of one node   *)
(* (internal/transport/conn_pool.go).                                      *)
(*                                                                         *)
(* A pool is a record p:                                                   *)
(*   p.conns    addr -> the pooled *grpc.ClientConn, None if absent        *)
(*   p.streams  addr -> the pooled stream, None if absent; a stream is     *)
(*              named by the connection it was opened on, since every      *)
(*              connection carries at most one                             *)
(*   p.open     the connections that exist and have not been closed: gRPC  *)
(*              state that the pool's Close calls change                   *)
(* Every operation runs under p.mu, so each one is a function from pools   *)
(* to pools and its caller applies it in a single step.                    *)
(***************************************************************************)
EXTENDS P2PTypes

CONSTANT Conn  \* the connections that can exist at a time

ASSUME PoolAssumption == None \notin Conn

Pool == [conns   : [Addr -> Conn \cup {None}],
         streams : [Addr -> Conn \cup {None}],
         open    : SUBSET Conn]

NewConnPool == [conns   |-> [a \in Addr |-> None],
                streams |-> [a \in Addr |-> None],
                open    |-> {}]

HasStream(p, a) == p.streams[a] # None
StreamAddrs(p) == {a \in Addr : HasStream(p, a)}

\* grpcutil.NewClientConn: a connection that nobody else knows yet.
Dialled(p, c) == [p EXCEPT !.open = @ \cup {c}]

\* conn.Close() on a connection the caller holds.
Closed(p, c) == [p EXCEPT !.open = @ \ {c}]

\* Whatever was pooled for the address is overwritten, not closed.
SetConn(p, a, c) == [p EXCEPT !.conns[a] = c]

DeleteConn(p, a) == [p EXCEPT !.conns[a] = None, !.open = @ \ {p.conns[a]}]

SetStream(p, a, c) == [p EXCEPT !.streams[a] = c]

DeleteStream(p, a) == [p EXCEPT !.streams[a] = None]

CloseByAddr(p, a) == [p EXCEPT !.streams[a] = None, !.conns[a] = None,
                               !.open = @ \ {p.conns[a]}]

-----------------------------------------------------------------------------
\* A connection that other goroutines can obtain from the pool is open.
PooledConnsOpen(p) ==
  \A a \in Addr : p.conns[a] # None => p.conns[a] \in p.open

\* The connections that the pool can still close.
Pooled(p) == {p.conns[a] : a \in Addr} \ {None}
=============================================================================
