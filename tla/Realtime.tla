------------------------------ MODULE Realtime ------------------------------
(***************************************************************************)
(* The WebSocket gateway and the consumer that feeds it: sockets that are  *)
(* authenticated, put into rooms, follow tickets and are closed when their *)
(* token expires, while the jobs of the realtime queue emit to the rooms   *)
(* through the Redis adapter of several replicas.                          *)
(*                                                                         *)
(* handleConnection awaits the verification and each join, so it is a step *)
(* for each stretch between two awaits and anything may come in between.   *)
(* A socket is one connection: a client that comes back is another socket. *)
(* Payloads are left out, and so is the answer to a watch or an unwatch.   *)
(***************************************************************************)
EXTENDS Naturals, Sequences, FiniteSets

CONSTANTS
  Socket,
  Replica,   \* processes behind the load balancer
  Tenant,
  Ticket,    \* ticket ids a client may ask to follow
  HomeOf,    \* the replica each socket connects to
  TokenOf,   \* the access token of each socket, NULL when it is missing or forged
  Event,     \* integration events that are committed
  NULL,
  MaxEvents, \* bound: how many of them are; no two jobs share anything
  MaxTime,   \* bound: last clock reading
  MaxFaults  \* bound: crashes, lost Redis messages and repeated jobs

ROLE_RANK == [VIEWER |-> 0, AGENT |-> 1, ADMIN |-> 2]

Role == DOMAIN ROLE_RANK

HasAtLeastRole(actual, required) == ROLE_RANK[actual] >= ROLE_RANK[required]

Token == [tenant : Tenant, role : Role, exp : Nat]

EventName ==
  {"ticket.created", "ticket.status_changed", "comment.added",
   "ticket.assigned", "ticket.unassigned", "sla.breached"}

ASSUME RealtimeAssumption ==
  /\ HomeOf \in [Socket -> Replica]
  /\ NULL \notin Token \cup Nat \cup Ticket
  /\ TokenOf \in [Socket -> Token \cup {NULL}]
  /\ Event \subseteq [name : EventName, tenant : Tenant, ticket : Ticket]
  /\ MaxEvents \in Nat
  /\ MaxTime \in Nat
  /\ MaxFaults \in Nat

-----------------------------------------------------------------------------
(* Rooms and audiences.                                                    *)

Room == [scope : {"tenant", "staff", "ticket"}, tenant : Tenant, ticket : Ticket \cup {NULL}]

TenantRoom(n) == [scope |-> "tenant", tenant |-> n, ticket |-> NULL]
StaffRoom(n) == [scope |-> "staff", tenant |-> n, ticket |-> NULL]

\* A mutant: the rooms of the tickets are those of one organization.
TicketRoomOfAnybody(n, t) ==
  [scope |-> "ticket", tenant |-> CHOOSE m \in Tenant : TRUE, ticket |-> t]

TicketRoom(n, t) == [scope |-> "ticket", tenant |-> n, ticket |-> t]

\* Who is told what, in the order of the emissions.
DeliveriesFor(e) ==
  CASE e.name = "ticket.created" -> <<TenantRoom(e.tenant)>>
    [] e.name = "ticket.status_changed" ->
         <<TenantRoom(e.tenant), TicketRoom(e.tenant, e.ticket)>>
    [] e.name = "comment.added" -> <<TicketRoom(e.tenant, e.ticket)>>
    [] OTHER -> <<StaffRoom(e.tenant)>>

Audience(e) == {DeliveriesFor(e)[i] : i \in DOMAIN DeliveriesFor(e)}

-----------------------------------------------------------------------------
VARIABLES
  phase,    \* how far handleConnection has come
  up,       \* the sockets that are connected
  rooms,    \* the rooms each socket is in
  entries,  \* the sockets that the Map of its replica holds
  timer,    \* when the expiry timer of a socket goes off, NULL without one
  early,    \* the sockets that went away before they had an entry
  job,      \* each event's job: where it runs and the rooms it has left
  wire,     \* emissions on their way to another replica through Redis
  owed,     \* notices due: <<socket, event, room>> of its members at the commit
  heard,    \* notices received: <<socket, event, room>>
  clock,
  faults

conns == <<phase, up, rooms, entries, timer, early>>
news == <<job, wire, heard>>
vars == <<conns, news, owed, clock, faults>>

Job == [state : {"none", "waiting", "done"}] \cup [state : {"active"}, at : Replica, left : Seq(Room)]

TypeOK ==
  /\ phase \in [Socket -> {"new", "verifying", "joined", "staffed", "ready", "gone"}]
  /\ up \subseteq Socket
  /\ rooms \in [Socket -> SUBSET Room]
  /\ entries \subseteq Socket
  /\ timer \in [Socket -> Nat \cup {NULL}]
  /\ early \subseteq Socket
  /\ job \in [Event -> Job]
  /\ wire \subseteq [to : Replica, event : Event, room : Room]
  /\ owed \subseteq Socket \X Event \X Room
  /\ heard \subseteq Socket \X Event \X Room
  /\ clock \in Nat
  /\ faults \in Nat

Init ==
  /\ phase = [s \in Socket |-> "new"]
  /\ up = {}
  /\ rooms = [s \in Socket |-> {}]
  /\ entries = {}
  /\ timer = [s \in Socket |-> NULL]
  /\ early = {}
  /\ job = [e \in Event |-> [state |-> "none"]]
  /\ wire = {}
  /\ owed = {}
  /\ heard = {}
  /\ clock = 0
  /\ faults = 0

-----------------------------------------------------------------------------
(* handleConnection.                                                       *)

\* The connection of s is over: Socket.io empties its rooms, and then
\* handleDisconnect forgets it and clears its timer, if the Map holds it.
Disconnected(s) ==
  /\ up' = up \ {s}
  /\ rooms' = [rooms EXCEPT ![s] = {}]
  /\ owed' = {o \in owed : o[1] # s}
  /\ entries' = entries \ {s}
  /\ timer' = [timer EXCEPT ![s] = IF s \in entries THEN NULL ELSE @]
  /\ early' = IF s \in entries THEN early ELSE early \cup {s}
  /\ UNCHANGED <<news, clock, faults>>

\* join is a no-op once the socket is disconnected.
Join(s, room) == rooms' = [rooms EXCEPT ![s] = IF s \in up THEN @ \cup {room} ELSE @]

Connect(s) ==
  /\ phase[s] = "new"
  /\ phase' = [phase EXCEPT ![s] = "verifying"]
  /\ up' = up \cup {s}
  /\ UNCHANGED <<rooms, entries, timer, early, news, owed, clock, faults>>

\* verify: NULL for a token that is missing, forged or expired.
Principal(s) == IF TokenOf[s] # NULL /\ clock < TokenOf[s].exp THEN TokenOf[s] ELSE NULL

Refuse(s) ==
  /\ phase[s] = "verifying"
  /\ Principal(s) = NULL
  /\ phase' = [phase EXCEPT ![s] = "gone"]
  /\ IF s \in up THEN Disconnected(s)
                 ELSE UNCHANGED <<up, rooms, entries, timer, early, news, owed, clock, faults>>

Admit(s) ==
  /\ phase[s] = "verifying"
  /\ Principal(s) # NULL
  /\ Join(s, TenantRoom(TokenOf[s].tenant))
  /\ phase' = [phase EXCEPT ![s] = "joined"]
  /\ UNCHANGED <<up, entries, timer, early, news, owed, clock, faults>>

IsStaff(s) == HasAtLeastRole(TokenOf[s].role, "AGENT")

\* A mutant: the role is not asked for.
JoinStaffAnyway(s) ==
  /\ phase[s] = "joined"
  /\ Join(s, StaffRoom(TokenOf[s].tenant))
  /\ phase' = [phase EXCEPT ![s] = "staffed"]
  /\ UNCHANGED <<up, entries, timer, early, news, owed, clock, faults>>

JoinStaff(s) ==
  /\ phase[s] = "joined"
  /\ IsStaff(s)
  /\ Join(s, StaffRoom(TokenOf[s].tenant))
  /\ phase' = [phase EXCEPT ![s] = "staffed"]
  /\ UNCHANGED <<up, entries, timer, early, news, owed, clock, faults>>

\* A mutant: a token that has expired by now gets no timer.
ScheduleIfAlive(s) == IF TokenOf[s].exp > clock THEN TokenOf[s].exp ELSE NULL

\* scheduleExpiry: at the token's exp, at once if that is past.
ScheduleExpiry(s) == IF TokenOf[s].exp > clock THEN TokenOf[s].exp ELSE clock

\* The entry is set without asking whether the socket is still there.
Register(s) ==
  /\ phase[s] = IF IsStaff(s) THEN "staffed" ELSE "joined"
  /\ entries' = entries \cup {s}
  /\ timer' = [timer EXCEPT ![s] = ScheduleExpiry(s)]
  /\ phase' = [phase EXCEPT ![s] = "ready"]
  /\ UNCHANGED <<up, rooms, early, news, owed, clock, faults>>

-----------------------------------------------------------------------------
(* The rest of a connection.                                               *)

\* A mutant: the entry and its timer stay.
LeaveUnnoticed(s) ==
  /\ s \in up
  /\ up' = up \ {s}
  /\ rooms' = [rooms EXCEPT ![s] = {}]
  /\ owed' = {o \in owed : o[1] # s}
  /\ early' = IF s \in entries THEN early ELSE early \cup {s}
  /\ UNCHANGED <<phase, entries, timer, news, clock, faults>>

\* The client goes away, or its connection breaks.
Leave(s) ==
  /\ s \in up
  /\ Disconnected(s)
  /\ UNCHANGED phase

\* close(CLOSE_TOKEN_EXPIRED): nothing is left to close, and no disconnection
\* is reported, when the socket had gone away before its timer was set.
Expire(s) ==
  /\ timer[s] # NULL
  /\ timer[s] <= clock
  /\ IF s \in up
       THEN /\ Disconnected(s)
            /\ phase' = [phase EXCEPT ![s] = "gone"]
       ELSE /\ timer' = [timer EXCEPT ![s] = NULL]
            /\ UNCHANGED <<phase, up, rooms, entries, early, news, owed, clock, faults>>

\* A socket that has no entry yet is answered "unauthorized".
WatchTicket(s, t) ==
  /\ s \in up
  /\ s \in entries
  /\ TicketRoom(TokenOf[s].tenant, t) \notin rooms[s]
  /\ Join(s, TicketRoom(TokenOf[s].tenant, t))
  /\ UNCHANGED <<phase, up, entries, timer, early, news, owed, clock, faults>>

UnwatchTicket(s, t) ==
  LET room == TicketRoom(TokenOf[s].tenant, t)
  IN  /\ s \in up
      /\ s \in entries
      /\ room \in rooms[s]
      /\ rooms' = [rooms EXCEPT ![s] = @ \ {room}]
      /\ owed' = {o \in owed : o[1] # s \/ o[3] # room}
      /\ UNCHANGED <<phase, up, entries, timer, early, news, clock, faults>>

-----------------------------------------------------------------------------
(* The jobs of the realtime queue.                                         *)

Members(room) == {s \in up : room \in rooms[s]}

\* The event is committed; Outbox says how it becomes a job.
Happen(e) ==
  /\ job[e].state = "none"
  /\ Cardinality({d \in Event : job[d].state # "none"}) < MaxEvents
  /\ job' = [job EXCEPT ![e] = [state |-> "waiting"]]
  /\ owed' = owed \cup {o \in Socket \X {e} \X Audience(e) : o[1] \in Members(o[3])}
  /\ UNCHANGED <<conns, wire, heard, clock, faults>>

Take(e, r) ==
  /\ job[e].state = "waiting"
  /\ job' = [job EXCEPT ![e] = [state |-> "active", at |-> r, left |-> DeliveriesFor(e)]]
  /\ UNCHANGED <<conns, wire, heard, owed, clock, faults>>

\* The members of the room that are connected to r hear of the event.
Hear(r, e, room) ==
  LET here == {<<s, e, room>> : s \in {m \in Members(room) : HomeOf[m] = r}}
  IN  /\ heard' = heard \cup here
      /\ owed' = owed \ here

\* A mutant: without the Redis adapter.
EmitHere(e) ==
  /\ job[e].state = "active"
  /\ job[e].left # <<>>
  /\ Hear(job[e].at, e, Head(job[e].left))
  /\ job' = [job EXCEPT ![e].left = Tail(@)]
  /\ UNCHANGED <<conns, wire, clock, faults>>

\* publish: to the sockets of this replica, and to the others through Redis.
Emit(e) ==
  /\ job[e].state = "active"
  /\ job[e].left # <<>>
  /\ LET r == job[e].at
         room == Head(job[e].left)
     IN  /\ Hear(r, e, room)
         /\ wire' = wire \cup [to : Replica \ {r}, event : {e}, room : {room}]
  /\ job' = [job EXCEPT ![e].left = Tail(@)]
  /\ UNCHANGED <<conns, clock, faults>>

Finish(e) ==
  /\ job[e].state = "active"
  /\ job[e].left = <<>>
  /\ job' = [job EXCEPT ![e] = [state |-> "done"]]
  /\ UNCHANGED <<conns, wire, heard, owed, clock, faults>>

\* The adapter of another replica passes the emission on.
Receive(w) ==
  /\ w \in wire
  /\ wire' = wire \ {w}
  /\ Hear(w.to, w.event, w.room)
  /\ UNCHANGED <<conns, job, clock, faults>>

-----------------------------------------------------------------------------
(* Faults and time.                                                        *)

\* A subscription that is down misses what Redis publishes meanwhile.
Drop(w) ==
  /\ faults < MaxFaults
  /\ w \in wire
  /\ wire' = wire \ {w}
  /\ owed' = {o \in owed : <<o[2], o[3]>> # <<w.event, w.room>> \/ HomeOf[o[1]] # w.to}
  /\ faults' = faults + 1
  /\ UNCHANGED <<conns, job, heard, clock>>

\* At least once: the outbox publishes an event again, or a worker that lost
\* its lock is not the last one.
Repeat(e) ==
  /\ faults < MaxFaults
  /\ job[e].state = "done"
  /\ job' = [job EXCEPT ![e] = [state |-> "waiting"]]
  /\ faults' = faults + 1
  /\ UNCHANGED <<conns, wire, heard, owed, clock>>

\* A replica dies with its sockets, its Map and its timers; its jobs stall and
\* are taken again.
Crash(r) ==
  LET here == {s \in Socket : HomeOf[s] = r /\ phase[s] # "new"}
  IN  /\ faults < MaxFaults
      /\ faults' = faults + 1
      /\ phase' = [s \in Socket |-> IF s \in here THEN "gone" ELSE phase[s]]
      /\ up' = up \ here
      /\ rooms' = [s \in Socket |-> IF s \in here THEN {} ELSE rooms[s]]
      /\ entries' = entries \ here
      /\ timer' = [s \in Socket |-> IF s \in here THEN NULL ELSE timer[s]]
      /\ owed' = {o \in owed : o[1] \notin here}
      /\ wire' = {w \in wire : w.to # r}
      /\ job' = [e \in Event |-> IF job[e].state = "active" /\ job[e].at = r
                                   THEN [state |-> "waiting"] ELSE job[e]]
      /\ UNCHANGED <<early, heard, clock>>

Tick ==
  /\ clock < MaxTime
  /\ clock' = clock + 1
  /\ UNCHANGED <<conns, news, owed, faults>>

-----------------------------------------------------------------------------
GoOn(s) == Refuse(s) \/ Admit(s) \/ JoinStaff(s) \/ Register(s)

SocketStep(s) ==
  \/ Connect(s) \/ GoOn(s) \/ Leave(s) \/ Expire(s)
  \/ \E t \in Ticket : WatchTicket(s, t) \/ UnwatchTicket(s, t)

Broadcast(e) == (\E r \in Replica : Take(e, r)) \/ Emit(e) \/ Finish(e)

Next ==
  \/ \E s \in Socket : SocketStep(s)
  \/ \E e \in Event : Happen(e) \/ Broadcast(e) \/ Repeat(e)
  \/ \E w \in wire : Receive(w) \/ Drop(w)
  \/ \E r \in Replica : Crash(r)
  \/ Tick

Spec == Init /\ [][Next]_vars

\* Callbacks and timers come in the end, a worker takes a waiting job and goes
\* through it, and Redis passes on what it has not lost.  Nothing says that a
\* client connects, leaves or asks, or that an event happens.
Fairness ==
  /\ \A s \in Socket : WF_vars(GoOn(s)) /\ WF_vars(Expire(s))
  /\ \A e \in Event : WF_vars(Broadcast(e))
  /\ \A r \in Replica : WF_vars(\E w \in wire : w.to = r /\ Receive(w))

FairSpec == Spec /\ Fairness

-----------------------------------------------------------------------------
(* Safety.                                                                 *)

\* "lo único que separa a dos organizaciones es en qué room acabó cada socket":
\* whatever joins, leaves, emissions and repetitions interleave, a client hears
\* only of its own organization, of what is the team's only with a role of the
\* team, and only with a token that was accepted.
HeardOnlyItsOwn ==
  \A h \in heard :
    /\ TokenOf[h[1]] # NULL
    /\ h[2].tenant = TokenOf[h[1]].tenant
    /\ h[2].name \in {"ticket.assigned", "ticket.unassigned", "sla.breached"} => IsStaff(h[1])

\* The Map of a replica keeps the entry of a socket that is gone only if it
\* went away while handleConnection was under way.
OrphansOnlyFromEarlyLeaves == entries \ up \subseteq early

\* A notice that is due is on its way: its socket is still in the room, and a
\* job that waits, or that has not come to the room yet, or an emission that
\* Redis holds for the replica of the socket will bring it.
Carried(s, e, room) ==
  \/ job[e].state = "waiting"
  \/ job[e].state = "active" /\ \E i \in DOMAIN job[e].left : job[e].left[i] = room
  \/ [to |-> HomeOf[s], event |-> e, room |-> room] \in wire

OwedIsCarried ==
  \A o \in owed : o[1] \in Members(o[3]) /\ Carried(o[1], o[2], o[3])

Due(s, e) == {o \in owed : o[1] = s /\ o[2] = e}

-----------------------------------------------------------------------------
(* Liveness.                                                               *)

\* "Un token caducado cierra el socket": at whichever await of handleConnection
\* it expires, the connection does not outlive it for ever.
ExpiredSocketsClose ==
  \A s \in Socket :
    (s \in up /\ (TokenOf[s] = NULL \/ TokenOf[s].exp <= clock)) ~> s \notin up

\* A socket that was in the room when the event was committed hears of it,
\* through jobs that are started again by another replica, unless it leaves the
\* room or Redis loses the emission.
NoticesArrive ==
  \A s \in Socket, e \in Event : Due(s, e) # {} ~> Due(s, e) = {}
=============================================================================
