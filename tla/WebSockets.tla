------------------------------- MODULE WebSockets ------------------------------
(***************************************************************************)
(* The WebSocket connection manager: the table of connections, its index   *)
(* by tenant, broadcasts, and the removal of dead and idle connections.    *)
(*                                                                         *)
(* The lock is never held across a wait, so what it guards is one step; a  *)
(* broadcast waits at every send.  A connection's id is the address of its *)
(* socket, and may be that of a later socket once the first is gone: a     *)
(* "serial" tells connections apart.  The routes change the tenant of a    *)
(* connection behind the manager's back.  What is sent is left out.        *)
(***************************************************************************)
EXTENDS Requests, Naturals, SequencesExt

CONSTANTS
  SocketTenants,
  Addresses,                    \* the ids a connection may have
  Topics,
  SerialLimit, BroadcastLimit, MoveLimit   \* bounds: connections and broadcasts made,
                                \* and changes of a tenant

ASSUME SocketAssumption == None \notin SocketTenants

VARIABLES
  sockets,       \* id -> the serial of the socket that lives there
  connections,   \* _connections: id -> [serial, joined, topics, idle]
  tenantOf,      \* WSConnection.tenant_id, by serial; "joined" is what it was at first
  tenantIds,     \* _tenant_connections: tenant -> ids
  moved,         \* the ids at which a connection changed its tenant, one per change
  broadcasts,    \* the broadcasts under way
  finished,      \* ended broadcasts: whom they were due to, sent to and kept from
  serials, sent  \* connections and broadcasts so far

wsVars == <<sockets, connections, tenantOf, tenantIds, moved, broadcasts, finished,
            serials, sent>>

NoBroadcast == [stage |-> "idle"]
Without(f, k) == [x \in DOMAIN f \ {k} |-> f[x]]
With(f, k, v) == [x \in DOMAIN f \cup {k} |-> IF x = k THEN v ELSE f[x]]

SocketInit ==
  /\ sockets = <<>>
  /\ connections = <<>>
  /\ tenantOf = <<>>
  /\ tenantIds = [t \in SocketTenants |-> {}]
  /\ moved = <<>>
  /\ broadcasts = [c \in Calls |-> NoBroadcast]
  /\ finished = {}
  /\ serials = 0 /\ sent = 0

-----------------------------------------------------------------------------
\* Connections.

Connect(id, tenant) ==
  /\ serials < SerialLimit
  /\ id \notin DOMAIN sockets
  /\ serials' = serials + 1
  /\ sockets' = With(sockets, id, serials + 1)
  /\ connections' = With(connections, id, [serial |-> serials + 1, joined |-> tenant,
                                           topics |-> {}, idle |-> FALSE])
  /\ tenantOf' = With(tenantOf, serials + 1, tenant)
  /\ tenantIds' = IF tenant = None THEN tenantIds
                  ELSE [tenantIds EXCEPT ![tenant] = @ \cup {id}]
  /\ UNCHANGED <<moved, broadcasts, finished, sent>>

\* Mutant: the index by tenant is forgotten.
RemovedFromTable(ids) ==
  /\ connections' = [id \in DOMAIN connections \ ids |-> connections[id]]
  /\ UNCHANGED tenantIds

\* disconnect, of one id after the other: ids that are not in the table are passed over,
\* and the others are looked for under the tenants their connections have by now.
Removed(ids) ==
  /\ connections' = [id \in DOMAIN connections \ ids |-> connections[id]]
  /\ tenantIds' = [t \in SocketTenants |->
       tenantIds[t] \ {id \in ids \cap DOMAIN connections : tenantOf[connections[id].serial] = t}]

\* The route of a socket ends, and the address is free.
Disconnect(id) ==
  /\ Removed({id})
  /\ sockets' = Without(sockets, id)
  /\ UNCHANGED <<tenantOf, moved, broadcasts, finished, serials, sent>>

\* Whom a broadcast is due to and kept from, when a connection changes its tenant: only a
\* broadcast to all looks at tenants, at each send.
Retold(b, serial, tenant) ==
  IF b.stage = "idle" \/ b.excluded = None THEN b
  ELSE IF tenant = b.excluded THEN [b EXCEPT !.due = @ \ {serial}]
  ELSE [b EXCEPT !.barred = @ \ {serial}]

\* A route learns the tenant from a message of its client, and writes it into the
\* connection, which may have left the table; the index is not told.
SetConnectionTenant(id, tenant) ==
  LET serial == sockets[id]
  IN  /\ Len(moved) < MoveLimit
      /\ tenantOf[serial] # tenant
      /\ tenantOf' = [tenantOf EXCEPT ![serial] = tenant]
      /\ moved' = Append(moved, id)
      /\ broadcasts' = [c \in Calls |-> Retold(broadcasts[c], serial, tenant)]
      /\ UNCHANGED <<sockets, connections, tenantIds, finished, serials, sent>>

Subscribe(id, topics) ==
  /\ connections' = [connections EXCEPT ![id].topics = @ \cup topics]
  /\ UNCHANGED <<sockets, tenantOf, tenantIds, moved, broadcasts, finished, serials, sent>>

Unsubscribe(id, topics) ==
  /\ connections' = [connections EXCEPT ![id].topics = @ \ topics]
  /\ UNCHANGED <<sockets, tenantOf, tenantIds, moved, broadcasts, finished, serials, sent>>

\* Time passes without activity.
GrowIdle(id) ==
  /\ ~ connections[id].idle
  /\ connections' = [connections EXCEPT ![id].idle = TRUE]
  /\ UNCHANGED <<sockets, tenantOf, tenantIds, moved, broadcasts, finished, serials, sent>>

\* cleanup_stale takes the idle ones out of the table one after the other; their sockets
\* live on.  The lock is free, so the removals follow each other without a wait.
CleanupStale ==
  LET dead == {id \in DOMAIN connections : connections[id].idle}
  IN  /\ dead # {}
      /\ Removed(dead)
      /\ UNCHANGED <<sockets, tenantOf, moved, broadcasts, finished, serials, sent>>

\* send_to_connection: a failed send disconnects.
SendTo(id, ok) ==
  /\ IF ok THEN connections' = [connections EXCEPT ![id].idle = FALSE] /\ UNCHANGED tenantIds
     ELSE Removed({id})
  /\ UNCHANGED <<sockets, tenantOf, moved, broadcasts, finished, serials, sent>>

-----------------------------------------------------------------------------
\* Broadcasts.

Start(c, targets, due, excluded, barred) ==
  /\ broadcasts[c] = NoBroadcast
  /\ sent < BroadcastLimit
  /\ sent' = sent + 1
  /\ broadcasts' = [broadcasts EXCEPT ![c] =
       [stage |-> "sending", targets |-> targets, got |-> {}, dead |-> {},
        due |-> due, excluded |-> excluded, barred |-> barred]]
  /\ UNCHANGED <<sockets, connections, tenantOf, tenantIds, moved, finished, serials>>

SerialsAt(ids) == {connections[id].serial : id \in ids}

\* The ids in the tenant's index are copied; the connections are looked up later.  It is
\* due to those who joined under the tenant.
BroadcastToTenant(c, tenant) ==
  Start(c, {[id |-> id, serial |-> 0] : id \in tenantIds[tenant]},
        SerialsAt({id \in DOMAIN connections : connections[id].joined = tenant}), None, {})

\* The connections themselves are copied.
BroadcastToAll(c, excluded) ==
  LET kept == {id \in DOMAIN connections :
                 excluded # None /\ tenantOf[connections[id].serial] = excluded}
  IN  Start(c, {[id |-> id, serial |-> connections[id].serial] : id \in DOMAIN connections},
            SerialsAt(DOMAIN connections \ kept), excluded, SerialsAt(kept))

\* The connection a send is for: the one copied, or the one that has the id by now.
Found(target) ==
  IF target.serial = 0 THEN SerialsAt({target.id} \cap DOMAIN connections) ELSE {target.serial}

SendNext(c, target, ok) ==
  LET b == broadcasts[c]
      here == {n \in Found(target) : b.excluded = None \/ tenantOf[n] # b.excluded}
  IN  /\ b.stage = "sending" /\ target \in b.targets
      /\ ok \/ here # {}
      /\ broadcasts' = [broadcasts EXCEPT
           ![c].targets = @ \ {target},
           ![c].got = IF ok THEN @ \cup here ELSE @,
           ![c].dead = IF ok THEN @ ELSE @ \cup {target.id}]
      /\ connections' = [id \in DOMAIN connections |->
           IF ok /\ connections[id].serial \in here
           THEN [connections[id] EXCEPT !.idle = FALSE] ELSE connections[id]]
      /\ UNCHANGED <<sockets, tenantOf, tenantIds, moved, finished, serials, sent>>

\* Every send is done: those that failed are disconnected by their ids, whoever has the
\* ids by now.
EndBroadcast(c) ==
  LET b == broadcasts[c]
  IN  /\ b.stage = "sending" /\ b.targets = {}
      /\ Removed(b.dead)
      /\ finished' = finished \cup {[due |-> b.due, got |-> b.got, barred |-> b.barred]}
      /\ broadcasts' = [broadcasts EXCEPT ![c] = NoBroadcast]
      /\ UNCHANGED <<sockets, tenantOf, moved, serials, sent>>

SocketNext ==
  \/ \E id \in Addresses, tenant \in SocketTenants \cup {None} : Connect(id, tenant)
  \/ \E id \in DOMAIN sockets :
       \/ Disconnect(id)
       \/ \E tenant \in SocketTenants \cup {None} : SetConnectionTenant(id, tenant)
  \/ \E id \in DOMAIN connections :
       \/ \E topics \in SUBSET Topics : Subscribe(id, topics) \/ Unsubscribe(id, topics)
       \/ GrowIdle(id)
       \/ \E ok \in BOOLEAN : SendTo(id, ok)
  \/ CleanupStale
  \/ \E c \in Calls :
       \/ \E tenant \in SocketTenants : BroadcastToTenant(c, tenant)
       \/ \E excluded \in SocketTenants \cup {None} : BroadcastToAll(c, excluded)
       \/ \E target \in UNION {broadcasts[d].targets :
                                 d \in {d \in Calls : broadcasts[d].stage = "sending"}},
             ok \in BOOLEAN : SendNext(c, target, ok)
       \/ EndBroadcast(c)

SocketSpec == SocketInit /\ [][SocketNext]_wsVars

-----------------------------------------------------------------------------
\* Properties.

\* Connections come, go, fail, are cleaned up and change their tenants while broadcasts
\* wait at their sends, and their ids are used again.  As long as it is connected the
\* index lists a connection under the tenant it joined with, and the rest of what it lists
\* are ids at which a tenant was changed.  A broadcast reached everyone it was due to who
\* is still connected: those who joined under its tenant, or, when it is to all, those who
\* were never of the excluded tenant while it lasted; and nobody who was so all the while.
BroadcastsReach ==
  /\ \A t \in SocketTenants :
       LET here == {id \in DOMAIN connections : connections[id].joined = t}
       IN  here \subseteq tenantIds[t] /\ tenantIds[t] \ here \subseteq ToSet(moved)
  /\ \A b \in finished :
       /\ \A id \in DOMAIN connections :
            connections[id].serial \in b.due => connections[id].serial \in b.got
       /\ b.got \cap b.barred = {}
=============================================================================
