-------------------------- MODULE Realtime_proofs --------------------------
(***************************************************************************)
(* Theorems about Realtime, for any number of sockets, replicas, tickets   *)
(* and organizations, and any bounds.                                      *)
(***************************************************************************)
EXTENDS Realtime, TLAPS

-----------------------------------------------------------------------------
(* Rooms and audiences.                                                    *)

LEMMA RoomTypes ==
  ASSUME NEW n \in Tenant
  PROVE  /\ TenantRoom(n) \in Room
         /\ StaffRoom(n) \in Room
         /\ \A t \in Ticket : TicketRoom(n, t) \in Room
BY DEF TenantRoom, StaffRoom, TicketRoom, Room

LEMMA EventType ==
  ASSUME NEW e \in Event
  PROVE  e.name \in EventName /\ e.tenant \in Tenant /\ e.ticket \in Ticket
BY RealtimeAssumption

LEMMA TokenType ==
  ASSUME NEW s \in Socket, TokenOf[s] # NULL
  PROVE  TokenOf[s].tenant \in Tenant /\ TokenOf[s].exp \in Nat
BY RealtimeAssumption DEF Token

LEMMA DeliveriesType ==
  ASSUME NEW e \in Event
  PROVE  DeliveriesFor(e) \in Seq(Room)
<1>1. /\ TenantRoom(e.tenant) \in Room
      /\ StaffRoom(e.tenant) \in Room
      /\ TicketRoom(e.tenant, e.ticket) \in Room
  BY EventType, RoomTypes
<1>2. /\ <<TenantRoom(e.tenant)>> \in Seq(Room)
      /\ <<TenantRoom(e.tenant), TicketRoom(e.tenant, e.ticket)>> \in Seq(Room)
      /\ <<TicketRoom(e.tenant, e.ticket)>> \in Seq(Room)
      /\ <<StaffRoom(e.tenant)>> \in Seq(Room)
  BY <1>1
<1>3. CASE e.name = "ticket.created"
  BY <1>2, <1>3 DEF DeliveriesFor
<1>4. CASE e.name = "ticket.status_changed"
  BY <1>2, <1>4 DEF DeliveriesFor
<1>5. CASE e.name = "comment.added"
  BY <1>2, <1>5 DEF DeliveriesFor
<1>6. CASE e.name \notin {"ticket.created", "ticket.status_changed", "comment.added"}
  BY <1>2, <1>6 DEF DeliveriesFor
<1>. QED
  BY <1>3, <1>4, <1>5, <1>6

\* The rooms an event may be emitted to: its organization's, and the team's
\* alone when it is the team's.
Fits(room, e) ==
  /\ room.tenant = e.tenant
  /\ e.name \in {"ticket.assigned", "ticket.unassigned", "sla.breached"} => room.scope = "staff"

LEMMA AudienceFits ==
  ASSUME NEW e \in Event, NEW i \in DOMAIN DeliveriesFor(e)
  PROVE  Fits(DeliveriesFor(e)[i], e)
<1>. DEFINE R == {TenantRoom(e.tenant), StaffRoom(e.tenant), TicketRoom(e.tenant, e.ticket)}
<1>1. /\ \A room \in R : room.tenant = e.tenant
      /\ StaffRoom(e.tenant).scope = "staff"
  BY DEF TenantRoom, StaffRoom, TicketRoom
<1>2. CASE e.name = "ticket.created"
  <2>1. DeliveriesFor(e) = <<TenantRoom(e.tenant)>>
    BY <1>2 DEF DeliveriesFor
  <2>. QED  BY <1>1, <1>2, <2>1 DEF Fits
<1>3. CASE e.name = "ticket.status_changed"
  <2>1. DeliveriesFor(e) = <<TenantRoom(e.tenant), TicketRoom(e.tenant, e.ticket)>>
    BY <1>3 DEF DeliveriesFor
  <2>2. DeliveriesFor(e)[i] \in R
    BY <2>1
  <2>. QED  BY <1>1, <1>3, <2>2 DEF Fits
<1>4. CASE e.name = "comment.added"
  <2>1. DeliveriesFor(e) = <<TicketRoom(e.tenant, e.ticket)>>
    BY <1>4 DEF DeliveriesFor
  <2>. QED  BY <1>1, <1>4, <2>1 DEF Fits
<1>5. CASE e.name \notin {"ticket.created", "ticket.status_changed", "comment.added"}
  <2>1. DeliveriesFor(e) = <<StaffRoom(e.tenant)>>
    BY <1>5 DEF DeliveriesFor
  <2>. QED  BY <1>1, <2>1 DEF Fits
<1>. QED
  BY <1>2, <1>3, <1>4, <1>5

-----------------------------------------------------------------------------
(* Every job is of its type, and emits to its event's audience.            *)

Idle == [state : {"none", "waiting", "done"}]
Active == [state : {"active"}, at : Replica, left : Seq(Room)]

JobOK(j, e) ==
  /\ j \in Job
  /\ j.state = "active" => \A i \in DOMAIN j.left : Fits(j.left[i], e)

LEMMA ActiveJob ==
  ASSUME NEW j \in Job, j.state = "active"
  PROVE  j \in Active
BY DEF Job, Active

LEMMA TakenJob ==
  ASSUME NEW e \in Event, NEW r \in Replica
  PROVE  JobOK([state |-> "active", at |-> r, left |-> DeliveriesFor(e)], e)
<1>. DEFINE j == [state |-> "active", at |-> r, left |-> DeliveriesFor(e)]
<1>1. j \in Job
  BY DeliveriesType DEF Job
<1>2. \A i \in DOMAIN j.left : Fits(j.left[i], e)
  BY AudienceFits
<1>. QED
  BY <1>1, <1>2 DEF JobOK

LEMMA EmittedJob ==
  ASSUME NEW e \in Event, NEW j, JobOK(j, e), j.state = "active", j.left # <<>>
  PROVE  /\ JobOK([j EXCEPT !.left = Tail(@)], e)
         /\ Head(j.left) \in Room
         /\ Fits(Head(j.left), e)
         /\ j.at \in Replica
<1>1. j \in Active
  BY ActiveJob DEF JobOK
<1>2. j.left \in Seq(Room) /\ j.at \in Replica
  BY <1>1 DEF Active
<1>3. Tail(j.left) \in Seq(Room)
  BY <1>2
<1>4. \A i \in DOMAIN Tail(j.left) : Fits(Tail(j.left)[i], e)
  <2>. TAKE i \in DOMAIN Tail(j.left)
  <2>1. i + 1 \in DOMAIN j.left /\ Tail(j.left)[i] = j.left[i + 1]
    BY <1>2
  <2>. QED  BY <2>1 DEF JobOK
<1>5. [j EXCEPT !.left = Tail(@)] \in Active /\ [j EXCEPT !.left = Tail(@)].left = Tail(j.left)
  BY <1>1, <1>3 DEF Active
<1>6. JobOK([j EXCEPT !.left = Tail(@)], e)
  BY <1>4, <1>5 DEF JobOK, Job, Active
<1>7. Head(j.left) \in Room /\ 1 \in DOMAIN j.left /\ Head(j.left) = j.left[1]
  BY <1>2
<1>. QED
  BY <1>2, <1>6, <1>7 DEF JobOK

LEMMA IdleJob ==
  ASSUME NEW e, NEW st \in {"none", "waiting", "done"}
  PROVE  JobOK([state |-> st], e)
BY DEF JobOK, Job

-----------------------------------------------------------------------------
(* The invariant.                                                          *)

\* The rooms that the token of a socket opens.
Opens(s, room) ==
  /\ TokenOf[s] # NULL
  /\ room.tenant = TokenOf[s].tenant
  /\ room.scope = "staff" => IsStaff(s)

ConnsOK ==
  /\ phase \in [Socket -> {"new", "verifying", "joined", "staffed", "ready", "gone"}]
  /\ up \subseteq Socket
  /\ rooms \in [Socket -> SUBSET Room]
  /\ entries \subseteq Socket
  /\ timer \in [Socket -> Nat \cup {NULL}]
  /\ early \subseteq Socket
  /\ \A s \in Socket : phase[s] \in {"joined", "staffed", "ready"} \/ s \in entries
                         => TokenOf[s] # NULL
  /\ \A s \in Socket : \A room \in rooms[s] : Opens(s, room)
  /\ clock \in Nat

JobsOK ==
  /\ job \in [Event -> Job]
  /\ \A e \in Event : JobOK(job[e], e)

WireOK ==
  /\ wire \subseteq [to : Replica, event : Event, room : Room]
  /\ \A w \in wire : Fits(w.room, w.event)

OwedOK == owed \subseteq Socket \X Event \X Room

HeardOK ==
  /\ heard \subseteq Socket \X Event \X Room
  /\ \A h \in heard : Opens(h[1], h[3]) /\ Fits(h[3], h[2])

RInv == ConnsOK /\ JobsOK /\ WireOK /\ OwedOK /\ HeardOK /\ faults \in Nat

LEMMA RInvImplies == RInv => TypeOK /\ HeardOnlyItsOwn
<1>. SUFFICES ASSUME RInv PROVE TypeOK /\ HeardOnlyItsOwn
  OBVIOUS
<1>1. TypeOK
  BY DEF RInv, ConnsOK, JobsOK, WireOK, OwedOK, HeardOK, TypeOK
<1>2. HeardOnlyItsOwn
  BY DEF RInv, HeardOK, HeardOnlyItsOwn, Opens, Fits
<1>. QED
  BY <1>1, <1>2

LEMMA RInit == Init => RInv
<1>. SUFFICES ASSUME Init PROVE RInv
  OBVIOUS
<1>1. ConnsOK
  BY DEF Init, ConnsOK
<1>2. JobsOK
  <2>1. \A e \in Event : JobOK([state |-> "none"], e)
    BY IdleJob
  <2>. QED  BY <2>1 DEF Init, JobsOK, JobOK
<1>. QED
  BY <1>1, <1>2 DEF Init, RInv, WireOK, OwedOK, HeardOK

-----------------------------------------------------------------------------
(* The connections.                                                        *)

LEMMA DisconnectedStep ==
  ASSUME RInv, NEW s \in Socket, Disconnected(s),
         \/ UNCHANGED phase
         \/ phase' = [phase EXCEPT ![s] = "gone"]
  PROVE  RInv'
<1>1. ConnsOK'
  BY DEF RInv, ConnsOK, Disconnected, Opens
<1>2. OwedOK'
  BY DEF RInv, OwedOK, Disconnected
<1>3. (JobsOK /\ WireOK /\ HeardOK)' /\ faults' \in Nat
  BY DEF RInv, JobsOK, WireOK, HeardOK, Disconnected, news
<1>. QED
  BY <1>1, <1>2, <1>3 DEF RInv

\* A step of the gateway that leaves the news and what is owed alone.
LEMMA GatewayStep ==
  ASSUME RInv, ConnsOK', UNCHANGED <<news, owed, faults>>
  PROVE  RInv'
BY DEF RInv, JobsOK, WireOK, OwedOK, HeardOK, news

LEMMA JoinedRooms ==
  ASSUME RInv, NEW s \in Socket, NEW room \in Room, Opens(s, room), Join(s, room)
  PROVE  /\ rooms' \in [Socket -> SUBSET Room]
         /\ \A u \in Socket : \A r \in rooms'[u] : Opens(u, r)
BY DEF RInv, ConnsOK, Join

LEMMA GoOnStep ==
  ASSUME RInv, NEW s \in Socket, GoOn(s)
  PROVE  RInv'
<1>1. CASE Refuse(s)
  <2>1. CASE s \in up
    BY <1>1, <2>1, DisconnectedStep DEF Refuse
  <2>2. CASE s \notin up
    <3>1. ConnsOK'
      BY <1>1, <2>2 DEF Refuse, RInv, ConnsOK
    <3>. QED  BY <1>1, <2>2, <3>1, GatewayStep DEF Refuse
  <2>. QED  BY <2>1, <2>2
<1>2. CASE Admit(s)
  <2>1. TokenOf[s] # NULL
    BY <1>2 DEF Admit, Principal
  <2>2. TenantRoom(TokenOf[s].tenant) \in Room /\ Opens(s, TenantRoom(TokenOf[s].tenant))
    BY <2>1, TokenType, RoomTypes DEF Opens, TenantRoom
  <2>3. /\ rooms' \in [Socket -> SUBSET Room]
        /\ \A u \in Socket : \A r \in rooms'[u] : Opens(u, r)
    BY <1>2, <2>2, JoinedRooms DEF Admit
  <2>4. ConnsOK'
    BY <1>2, <2>1, <2>3 DEF Admit, RInv, ConnsOK
  <2>. QED  BY <1>2, <2>4, GatewayStep DEF Admit
<1>3. CASE JoinStaff(s)
  <2>1. TokenOf[s] # NULL /\ IsStaff(s)
    BY <1>3 DEF JoinStaff, RInv, ConnsOK
  <2>2. StaffRoom(TokenOf[s].tenant) \in Room /\ Opens(s, StaffRoom(TokenOf[s].tenant))
    BY <2>1, TokenType, RoomTypes DEF Opens, StaffRoom
  <2>3. /\ rooms' \in [Socket -> SUBSET Room]
        /\ \A u \in Socket : \A r \in rooms'[u] : Opens(u, r)
    BY <1>3, <2>2, JoinedRooms DEF JoinStaff
  <2>4. ConnsOK'
    BY <1>3, <2>1, <2>3 DEF JoinStaff, RInv, ConnsOK
  <2>. QED  BY <1>3, <2>4, GatewayStep DEF JoinStaff
<1>4. CASE Register(s)
  <2>1. phase[s] \in {"staffed", "joined"}
    BY <1>4 DEF Register
  <2>2. TokenOf[s] # NULL
    BY <2>1 DEF RInv, ConnsOK
  <2>3. ScheduleExpiry(s) \in Nat
    BY <2>2, TokenType DEF RInv, ConnsOK, ScheduleExpiry
  <2>4. ConnsOK'
    BY <1>4, <2>2, <2>3 DEF Register, RInv, ConnsOK
  <2>. QED  BY <1>4, <2>4, GatewayStep DEF Register
<1>. QED
  BY <1>1, <1>2, <1>3, <1>4 DEF GoOn

LEMMA SocketSteps ==
  ASSUME RInv, NEW s \in Socket, SocketStep(s)
  PROVE  RInv'
<1>1. CASE Connect(s)
  <2>1. ConnsOK'
    BY <1>1 DEF Connect, RInv, ConnsOK
  <2>. QED  BY <1>1, <2>1, GatewayStep DEF Connect
<1>2. CASE GoOn(s)
  BY <1>2, GoOnStep
<1>3. CASE Leave(s)
  BY <1>3, DisconnectedStep DEF Leave
<1>4. CASE Expire(s)
  <2>1. CASE s \in up
    BY <1>4, <2>1, DisconnectedStep DEF Expire
  <2>2. CASE s \notin up
    <3>1. ConnsOK'
      BY <1>4, <2>2 DEF Expire, RInv, ConnsOK
    <3>. QED  BY <1>4, <2>2, <3>1, GatewayStep DEF Expire
  <2>. QED  BY <2>1, <2>2
<1>5. ASSUME NEW t \in Ticket, WatchTicket(s, t) PROVE RInv'
  <2>1. TokenOf[s] # NULL
    BY <1>5 DEF WatchTicket, RInv, ConnsOK
  <2>2. /\ TicketRoom(TokenOf[s].tenant, t) \in Room
        /\ Opens(s, TicketRoom(TokenOf[s].tenant, t))
    BY <2>1, TokenType, RoomTypes DEF Opens, TicketRoom
  <2>3. /\ rooms' \in [Socket -> SUBSET Room]
        /\ \A u \in Socket : \A r \in rooms'[u] : Opens(u, r)
    BY <1>5, <2>2, JoinedRooms DEF WatchTicket
  <2>4. ConnsOK'
    BY <1>5, <2>3 DEF WatchTicket, RInv, ConnsOK
  <2>. QED  BY <1>5, <2>4, GatewayStep DEF WatchTicket
<1>6. ASSUME NEW t \in Ticket, UnwatchTicket(s, t) PROVE RInv'
  <2>1. ConnsOK'
    BY <1>6 DEF UnwatchTicket, RInv, ConnsOK
  <2>2. OwedOK'
    BY <1>6 DEF UnwatchTicket, RInv, OwedOK
  <2>3. (JobsOK /\ WireOK /\ HeardOK)' /\ faults' \in Nat
    BY <1>6 DEF UnwatchTicket, RInv, JobsOK, WireOK, HeardOK, news
  <2>. QED  BY <2>1, <2>2, <2>3 DEF RInv
<1>. QED
  BY <1>1, <1>2, <1>3, <1>4, <1>5, <1>6 DEF SocketStep

-----------------------------------------------------------------------------
(* The jobs.                                                               *)

LEMMA ConnsStay ==
  ASSUME RInv, UNCHANGED <<conns, clock>>
  PROVE  ConnsOK'
BY DEF RInv, ConnsOK, conns

LEMMA JobStep ==
  ASSUME RInv, NEW e \in Event, NEW j, JobOK(j, e), job' = [job EXCEPT ![e] = j]
  PROVE  JobsOK'
BY DEF RInv, JobsOK, JobOK

LEMMA HearStep ==
  ASSUME RInv, NEW r \in Replica, NEW e \in Event, NEW room \in Room, Fits(room, e),
         Hear(r, e, room)
  PROVE  HeardOK' /\ OwedOK'
<1>. DEFINE here == {<<s, e, room>> : s \in {m \in Members(room) : HomeOf[m] = r}}
<1>1. \A s \in Members(room) : s \in Socket /\ Opens(s, room)
  BY DEF Members, RInv, ConnsOK
<1>2. here \subseteq Socket \X Event \X Room
  BY <1>1
<1>3. \A h \in here : Opens(h[1], h[3]) /\ Fits(h[3], h[2])
  BY <1>1
<1>4. heard' = heard \cup here /\ owed' = owed \ here
  BY DEF Hear
<1>. HIDE DEF here
<1>5. HeardOK'
  BY <1>2, <1>3, <1>4 DEF RInv, HeardOK, Opens, Fits, IsStaff
<1>. QED
  BY <1>4, <1>5 DEF RInv, OwedOK

LEMMA EventSteps ==
  ASSUME RInv, NEW e \in Event, Happen(e) \/ Broadcast(e) \/ Repeat(e)
  PROVE  RInv'
<1>. USE DEF RInv
<1>0. JobOK(job[e], e) /\ job[e] \in Job
  BY DEF JobsOK
<1>1. CASE Happen(e)
  <2>1. ConnsOK' /\ JobsOK'
    BY <1>1, ConnsStay, JobStep, IdleJob DEF Happen
  <2>2. \A room \in Audience(e) : room \in Room
    BY DeliveriesType DEF Audience
  <2>3. OwedOK'
    BY <1>1, <2>2 DEF Happen, OwedOK
  <2>. QED  BY <1>1, <2>1, <2>3 DEF Happen, WireOK, HeardOK
<1>2. ASSUME NEW r \in Replica, Take(e, r) PROVE RInv'
  <2>1. ConnsOK' /\ JobsOK'
    BY <1>2, ConnsStay, JobStep, TakenJob DEF Take
  <2>. QED  BY <1>2, <2>1 DEF Take, WireOK, HeardOK, OwedOK
<1>3. CASE Emit(e)
  <2>. DEFINE r == job[e].at
              room == Head(job[e].left)
              sent == [to : Replica \ {r}, event : {e}, room : {room}]
  <2>1. /\ JobOK([job[e] EXCEPT !.left = Tail(@)], e)
        /\ room \in Room
        /\ Fits(room, e)
        /\ r \in Replica
    BY <1>0, <1>3, EmittedJob DEF Emit
  <2>2. job' = [job EXCEPT ![e] = [job[e] EXCEPT !.left = Tail(@)]]
    BY <1>3 DEF Emit
  <2>3. JobsOK' /\ ConnsOK'
    BY <1>3, <2>1, <2>2, JobStep, ConnsStay DEF Emit
  <2>4. HeardOK' /\ OwedOK'
    BY <1>3, <2>1, HearStep DEF Emit
  <2>5. wire' = wire \cup sent
    BY <1>3 DEF Emit
  <2>6. \A w \in sent : w \in [to : Replica, event : Event, room : Room] /\ Fits(w.room, w.event)
    BY <2>1
  <2>7. WireOK'
    BY <2>5, <2>6 DEF WireOK, Fits
  <2>. QED  BY <1>3, <2>3, <2>4, <2>7 DEF Emit
<1>4. CASE Finish(e)
  <2>1. ConnsOK' /\ JobsOK'
    BY <1>4, ConnsStay, JobStep, IdleJob DEF Finish
  <2>. QED  BY <1>4, <2>1 DEF Finish, WireOK, HeardOK, OwedOK
<1>5. CASE Repeat(e)
  <2>1. ConnsOK' /\ JobsOK'
    BY <1>5, ConnsStay, JobStep, IdleJob DEF Repeat
  <2>. QED  BY <1>5, <2>1 DEF Repeat, WireOK, HeardOK, OwedOK
<1>. QED
  BY <1>1, <1>2, <1>3, <1>4, <1>5 DEF Broadcast

-----------------------------------------------------------------------------
(* Redis and the replicas.                                                 *)

LEMMA WireSteps ==
  ASSUME RInv, NEW w \in wire, Receive(w) \/ Drop(w)
  PROVE  RInv'
<1>. USE DEF RInv
<1>1. w.to \in Replica /\ w.event \in Event /\ w.room \in Room /\ Fits(w.room, w.event)
  BY DEF WireOK
<1>2. CASE Receive(w)
  <2>1. HeardOK' /\ OwedOK'
    BY <1>1, <1>2, HearStep DEF Receive
  <2>2. ConnsOK'
    BY <1>2, ConnsStay DEF Receive
  <2>. QED  BY <1>2, <2>1, <2>2 DEF Receive, WireOK, JobsOK
<1>3. CASE Drop(w)
  <2>1. ConnsOK'
    BY <1>3, ConnsStay DEF Drop
  <2>. QED  BY <1>3, <2>1 DEF Drop, WireOK, JobsOK, HeardOK, OwedOK
<1>. QED
  BY <1>2, <1>3

LEMMA CrashStep ==
  ASSUME RInv, NEW r \in Replica, Crash(r)
  PROVE  RInv'
<1>. USE DEF RInv
<1>. DEFINE here == {s \in Socket : HomeOf[s] = r /\ phase[s] # "new"}
<1>1. /\ phase' = [s \in Socket |-> IF s \in here THEN "gone" ELSE phase[s]]
      /\ up' = up \ here
      /\ rooms' = [s \in Socket |-> IF s \in here THEN {} ELSE rooms[s]]
      /\ entries' = entries \ here
      /\ timer' = [s \in Socket |-> IF s \in here THEN NULL ELSE timer[s]]
      /\ owed' = {o \in owed : o[1] \notin here}
      /\ UNCHANGED <<early, heard, clock>>
      /\ faults' = faults + 1
      /\ wire' = {w \in wire : w.to # r}
      /\ job' = [e \in Event |-> IF job[e].state = "active" /\ job[e].at = r
                                   THEN [state |-> "waiting"] ELSE job[e]]
  BY DEF Crash
<1>. HIDE DEF here
<1>2. ConnsOK'
  BY <1>1 DEF ConnsOK, Opens
<1>3. JobsOK'
  BY <1>1, IdleJob DEF JobsOK, JobOK
<1>4. (WireOK /\ OwedOK /\ HeardOK)' /\ faults' \in Nat
  BY <1>1 DEF WireOK, OwedOK, HeardOK
<1>. QED
  BY <1>2, <1>3, <1>4

LEMMA RStep == RInv /\ [Next]_vars => RInv'
<1>. SUFFICES ASSUME RInv, [Next]_vars PROVE RInv'
  OBVIOUS
<1>1. CASE Tick
  <2>1. ConnsOK'
    BY <1>1 DEF Tick, RInv, ConnsOK, conns
  <2>. QED  BY <1>1, <2>1, GatewayStep DEF Tick
<1>2. CASE UNCHANGED vars
  BY <1>2, ConnsStay, GatewayStep DEF vars
<1>. QED
  BY <1>1, <1>2, SocketSteps, EventSteps, WireSteps, CrashStep DEF Next

THEOREM RealtimeInvariant == Spec => []RInv
<1>. QED
  BY RInit, RStep, PTL DEF Spec

\* The state of the gateway, the jobs and the emissions keeps its types.
THEOREM RealtimeTypes == Spec => []TypeOK
<1>. QED
  BY RealtimeInvariant, RInvImplies, PTL

\* A client hears only of its own organization, and of what is the team's only
\* with a role of the team: publish emits to the rooms of deliveriesFor, and
\* handleConnection and watch join a socket only to what its token opens.
THEOREM OwnNewsOnly == Spec => []HeardOnlyItsOwn
<1>. QED
  BY RealtimeInvariant, RInvImplies, PTL

-----------------------------------------------------------------------------
(* The entries of the Map.                                                 *)

\* Until it has its entry, a socket is connected or went away early.
EarlyOK ==
  /\ phase \in [Socket -> {"new", "verifying", "joined", "staffed", "ready", "gone"}]
  /\ entries \subseteq Socket
  /\ \A s \in Socket : phase[s] \in {"new", "verifying", "joined", "staffed"} => s \notin entries
  /\ \A s \in Socket : phase[s] \in {"verifying", "joined", "staffed"} => s \in up \cup early
  /\ OrphansOnlyFromEarlyLeaves

LEMMA EarlyInit == Init => EarlyOK
BY DEF Init, EarlyOK, OrphansOnlyFromEarlyLeaves

LEMMA EarlySocketStep ==
  ASSUME EarlyOK, NEW s \in Socket, SocketStep(s)
  PROVE  EarlyOK'
<1>. USE DEF EarlyOK, OrphansOnlyFromEarlyLeaves
<1>1. CASE Connect(s)
  BY <1>1 DEF Connect
<1>2. CASE Refuse(s)
  BY <1>2 DEF Refuse, Disconnected
<1>3. CASE Admit(s)
  BY <1>3 DEF Admit
<1>4. CASE JoinStaff(s)
  BY <1>4 DEF JoinStaff
<1>5. CASE Register(s)
  BY <1>5 DEF Register
<1>6. CASE Leave(s)
  BY <1>6 DEF Leave, Disconnected
<1>7. CASE Expire(s)
  BY <1>7 DEF Expire, Disconnected
<1>8. ASSUME NEW t \in Ticket, WatchTicket(s, t) \/ UnwatchTicket(s, t) PROVE EarlyOK'
  BY <1>8 DEF WatchTicket, UnwatchTicket
<1>. QED
  BY <1>1, <1>2, <1>3, <1>4, <1>5, <1>6, <1>7, <1>8 DEF SocketStep, GoOn

LEMMA EarlyStep == EarlyOK /\ [Next]_vars => EarlyOK'
<1>. SUFFICES ASSUME EarlyOK, [Next]_vars PROVE EarlyOK'
  OBVIOUS
<1>1. CASE UNCHANGED conns
  BY <1>1 DEF EarlyOK, OrphansOnlyFromEarlyLeaves, conns
<1>2. ASSUME NEW e \in Event, Happen(e) \/ Broadcast(e) \/ Repeat(e) PROVE UNCHANGED conns
  BY <1>2 DEF Happen, Broadcast, Take, Emit, Finish, Repeat
<1>3. ASSUME NEW w \in wire, Receive(w) \/ Drop(w) PROVE UNCHANGED conns
  BY <1>3 DEF Receive, Drop
<1>4. ASSUME NEW r \in Replica, Crash(r) PROVE EarlyOK'
  BY <1>4 DEF Crash, EarlyOK, OrphansOnlyFromEarlyLeaves
<1>5. Tick \/ UNCHANGED vars => UNCHANGED conns
  BY DEF Tick, vars
<1>. QED
  BY <1>1, <1>2, <1>3, <1>4, <1>5, EarlySocketStep DEF Next

\* The Map of a replica keeps the entry of a socket that is gone only if it
\* went away before handleConnection had set it.
THEOREM OrphansWereEarly == Spec => []OrphansOnlyFromEarlyLeaves
<1>1. EarlyOK => OrphansOnlyFromEarlyLeaves
  BY DEF EarlyOK
<1>. QED
  BY EarlyInit, EarlyStep, <1>1, PTL DEF Spec

-----------------------------------------------------------------------------
(* The notices that are due.                                               *)

\* What makes OwedIsCarried inductive: a job that is taken goes through every
\* room of the audience, and the sockets of a replica that dies are all that
\* ever connected to it.
DueOK ==
  /\ OwedIsCarried
  /\ \A o \in owed : o[3] \in Audience(o[2])
  /\ \A s \in up : phase[s] # "new"

LEMMA DueInit == Init => DueOK
BY DEF Init, DueOK, OwedIsCarried

LEMMA OwedType ==
  ASSUME RInv, NEW o \in owed
  PROVE  /\ o[1] \in Socket /\ o[2] \in Event /\ o[3] \in Room
         /\ o = <<o[1], o[2], o[3]>>
BY DEF RInv, OwedOK

\* A step of the gateway that takes no member of a room without what it is owed.
LEMMA DueGatewayStep ==
  ASSUME RInv, DueOK, UNCHANGED news,
         owed' \subseteq owed,
         \A o \in owed' : o[1] \in up' /\ o[3] \in rooms'[o[1]],
         \A s \in up' : phase'[s] # "new"
  PROVE  DueOK'
<1>1. \A o \in owed' : o[1] \in Members(o[3])'
  BY DEF Members
<1>2. \A o \in owed' : Carried(o[1], o[2], o[3])'
  BY DEF DueOK, OwedIsCarried, Carried, news
<1>. QED
  BY <1>1, <1>2 DEF DueOK, OwedIsCarried

LEMMA DueDisconnected ==
  ASSUME RInv, DueOK, NEW s \in Socket, Disconnected(s),
         \/ UNCHANGED phase
         \/ phase' = [phase EXCEPT ![s] = "gone"]
  PROVE  DueOK'
<1>1. /\ phase \in [Socket -> {"new", "verifying", "joined", "staffed", "ready", "gone"}]
      /\ rooms \in [Socket -> SUBSET Room]
      /\ up \subseteq Socket
  BY DEF RInv, ConnsOK
<1>2. \A u \in up' : phase'[u] # "new"
  BY <1>1 DEF Disconnected, DueOK
<1>3. owed' \subseteq owed /\ UNCHANGED news
  BY DEF Disconnected
<1>4. ASSUME NEW o \in owed' PROVE o[1] \in up' /\ o[3] \in rooms'[o[1]]
  <2>1. o \in owed /\ o[1] # s
    BY <1>4 DEF Disconnected
  <2>2. o[1] \in up /\ o[3] \in rooms[o[1]]
    BY <2>1 DEF DueOK, OwedIsCarried, Members
  <2>. QED  BY <1>1, <2>1, <2>2 DEF Disconnected
<1>. QED
  BY <1>2, <1>3, <1>4, DueGatewayStep

\* A step of the gateway in which no room loses a member.
LEMMA DueKept ==
  ASSUME RInv, DueOK, UNCHANGED <<news, owed>>, up \subseteq up',
         \A s \in Socket : rooms[s] \subseteq rooms'[s],
         \A s \in up' : phase'[s] # "new"
  PROVE  DueOK'
<1>1. ASSUME NEW o \in owed' PROVE o[1] \in up' /\ o[3] \in rooms'[o[1]]
  <2>1. o \in owed
    OBVIOUS
  <2>2. o[1] \in up /\ o[3] \in rooms[o[1]] /\ o[1] \in Socket
    BY <2>1, OwedType DEF DueOK, OwedIsCarried, Members
  <2>. QED  BY <2>2
<1>. QED
  BY <1>1, DueGatewayStep

LEMMA DueSocketStep ==
  ASSUME RInv, DueOK, NEW s \in Socket, SocketStep(s)
  PROVE  DueOK'
<1>0. /\ phase \in [Socket -> {"new", "verifying", "joined", "staffed", "ready", "gone"}]
      /\ rooms \in [Socket -> SUBSET Room]
      /\ up \subseteq Socket
      /\ \A u \in up : phase[u] # "new"
  BY DEF RInv, ConnsOK, DueOK
<1>1. CASE Connect(s)
  <2>1. \A u \in up' : phase'[u] # "new"
    BY <1>0, <1>1 DEF Connect
  <2>. QED  BY <1>1, <2>1, DueKept DEF Connect
<1>2. CASE Refuse(s)
  <2>1. CASE s \in up
    BY <1>2, <2>1, DueDisconnected DEF Refuse
  <2>2. CASE s \notin up
    <3>1. \A u \in up' : phase'[u] # "new"
      BY <1>0, <1>2, <2>2 DEF Refuse
    <3>. QED  BY <1>2, <2>2, <3>1, DueKept DEF Refuse
  <2>. QED  BY <2>1, <2>2
<1>3. ASSUME NEW room, Join(s, room), UNCHANGED <<news, owed, up>>,
             \A u \in up' : phase'[u] # "new"
      PROVE  DueOK'
  <2>1. \A u \in Socket : rooms[u] \subseteq rooms'[u]
    BY <1>0, <1>3 DEF Join
  <2>. QED  BY <1>3, <2>1, DueKept
<1>4. CASE Admit(s)
  <2>1. \A u \in up' : phase'[u] # "new"
    BY <1>0, <1>4 DEF Admit
  <2>. QED  BY <1>3, <1>4, <2>1 DEF Admit
<1>5. CASE JoinStaff(s)
  <2>1. \A u \in up' : phase'[u] # "new"
    BY <1>0, <1>5 DEF JoinStaff
  <2>. QED  BY <1>3, <1>5, <2>1 DEF JoinStaff
<1>6. CASE Register(s)
  <2>1. \A u \in up' : phase'[u] # "new"
    BY <1>0, <1>6 DEF Register
  <2>. QED  BY <1>6, <2>1, DueKept DEF Register
<1>7. CASE Leave(s)
  BY <1>7, DueDisconnected DEF Leave
<1>8. CASE Expire(s)
  <2>1. CASE s \in up
    BY <1>8, <2>1, DueDisconnected DEF Expire
  <2>2. CASE s \notin up
    BY <1>0, <1>8, <2>2, DueKept DEF Expire
  <2>. QED  BY <2>1, <2>2
<1>9. ASSUME NEW t \in Ticket, WatchTicket(s, t) PROVE DueOK'
  BY <1>0, <1>3, <1>9 DEF WatchTicket
<1>10. ASSUME NEW t \in Ticket, UnwatchTicket(s, t) PROVE DueOK'
  <2>. DEFINE room == TicketRoom(TokenOf[s].tenant, t)
  <2>1. /\ rooms' = [rooms EXCEPT ![s] = @ \ {room}]
        /\ owed' = {o \in owed : o[1] # s \/ o[3] # room}
        /\ UNCHANGED <<phase, up, news>>
    BY <1>10 DEF UnwatchTicket
  <2>2. ASSUME NEW o \in owed' PROVE o[1] \in up' /\ o[3] \in rooms'[o[1]]
    <3>1. o \in owed /\ (o[1] # s \/ o[3] # room)
      BY <2>1
    <3>2. o[1] \in up /\ o[3] \in rooms[o[1]]
      BY <3>1 DEF DueOK, OwedIsCarried, Members
    <3>. HIDE DEF room
    <3>. QED  BY <1>0, <2>1, <3>1, <3>2
  <2>3. owed' \subseteq owed
    BY <2>1
  <2>. QED  BY <1>0, <2>1, <2>2, <2>3, DueGatewayStep
<1>. QED
  BY <1>1, <1>2, <1>4, <1>5, <1>6, <1>7, <1>8, <1>9, <1>10 DEF SocketStep, GoOn

\* A step of the jobs and of Redis: no room changes, and what is still due is
\* still carried.
LEMMA DueNewsStep ==
  ASSUME RInv, DueOK, UNCHANGED conns, owed' \subseteq owed,
         \A o \in owed' : Carried(o[1], o[2], o[3])'
  PROVE  DueOK'
<1>1. \A o \in owed' : o[1] \in Members(o[3])'
  BY DEF DueOK, OwedIsCarried, Members, conns
<1>. QED
  BY <1>1 DEF DueOK, OwedIsCarried, conns

\* What Hear leaves due is not of a socket that it reached.
LEMMA HeardIsPaid ==
  ASSUME RInv, DueOK, NEW r, NEW e, NEW room, Hear(r, e, room), NEW o \in owed'
  PROVE  o \in owed /\ (o[2] # e \/ o[3] # room \/ HomeOf[o[1]] # r)
<1>1. o \in owed
  BY DEF Hear
<1>2. SUFFICES ASSUME o[2] = e, o[3] = room, HomeOf[o[1]] = r PROVE FALSE
  BY <1>1
<1>3. o = <<o[1], e, room>> /\ o[1] \in Members(room)
  BY <1>1, <1>2, OwedType DEF DueOK, OwedIsCarried
<1>. QED
  BY <1>2, <1>3 DEF Hear

LEMMA DueEmit ==
  ASSUME RInv, DueOK, NEW e \in Event, Emit(e)
  PROVE  DueOK'
<1>. DEFINE r == job[e].at
            room == Head(job[e].left)
            sent == [to : Replica \ {r}, event : {e}, room : {room}]
<1>1. /\ job[e].state = "active" /\ job[e].left # <<>>
      /\ Hear(r, e, room)
      /\ wire' = wire \cup sent
      /\ job' = [job EXCEPT ![e].left = Tail(@)]
      /\ UNCHANGED conns
  BY DEF Emit
<1>2. job \in [Event -> Job] /\ job[e] \in Active
  BY <1>1, ActiveJob DEF RInv, JobsOK
<1>3. job[e].left \in Seq(Room)
  BY <1>2 DEF Active
<1>4. /\ job'[e].state = "active" /\ job'[e].left = Tail(job[e].left)
      /\ \A d \in Event \ {e} : job'[d] = job[d]
  BY <1>1, <1>2 DEF Active
<1>5. ASSUME NEW o \in owed' PROVE Carried(o[1], o[2], o[3])'
  <2>1. o \in owed /\ (o[2] # e \/ o[3] # room \/ HomeOf[o[1]] # r)
    BY <1>1, <1>5, HeardIsPaid
  <2>2. o[1] \in Socket /\ o[2] \in Event /\ HomeOf[o[1]] \in Replica
    BY <2>1, OwedType, RealtimeAssumption
  <2>3. Carried(o[1], o[2], o[3])
    BY <2>1 DEF DueOK, OwedIsCarried
  <2>4. CASE o[2] # e
    BY <1>1, <1>4, <2>2, <2>3, <2>4 DEF Carried
  <2>5. CASE [to |-> HomeOf[o[1]], event |-> o[2], room |-> o[3]] \in wire
    BY <1>1, <2>5 DEF Carried, conns
  <2>6. CASE o[2] = e /\ \E i \in DOMAIN job[e].left : job[e].left[i] = o[3]
    <3>1. PICK i \in DOMAIN job[e].left : job[e].left[i] = o[3]
      BY <2>6
    <3>2. CASE o[3] = room
      <4>1. [to |-> HomeOf[o[1]], event |-> o[2], room |-> o[3]] \in sent
        BY <2>1, <2>2, <2>6, <3>2
      <4>. QED  BY <1>1, <4>1 DEF Carried
    <3>3. CASE o[3] # room
      <4>1. i # 1 /\ i \in 1..Len(job[e].left)
        BY <1>1, <1>3, <3>1, <3>3
      <4>2. i - 1 \in DOMAIN Tail(job[e].left) /\ Tail(job[e].left)[i - 1] = o[3]
        BY <1>1, <1>3, <3>1, <4>1
      <4>. QED  BY <1>4, <2>6, <4>2 DEF Carried
    <3>. QED  BY <3>2, <3>3
  <2>. QED  BY <1>1, <2>3, <2>4, <2>5, <2>6 DEF Carried
<1>6. owed' \subseteq owed
  BY <1>1 DEF Hear
<1>. QED
  BY <1>1, <1>5, <1>6, DueNewsStep

LEMMA DueEventSteps ==
  ASSUME RInv, DueOK, NEW e \in Event, Happen(e) \/ Broadcast(e) \/ Repeat(e)
  PROVE  DueOK'
<1>0. /\ job \in [Event -> Job]
      /\ \A o \in owed : /\ o[1] \in Socket /\ o[2] \in Event
                         /\ Carried(o[1], o[2], o[3])
                         /\ o[1] \in Members(o[3])
                         /\ o[3] \in Audience(o[2])
  BY OwedType DEF RInv, JobsOK, DueOK, OwedIsCarried
<1>1. CASE Happen(e)
  <2>1. /\ job[e].state = "none"
        /\ job' = [job EXCEPT ![e] = [state |-> "waiting"]]
        /\ owed' = owed \cup {o \in Socket \X {e} \X Audience(e) : o[1] \in Members(o[3])}
        /\ UNCHANGED conns /\ wire' = wire
    BY <1>1 DEF Happen
  <2>2. job'[e].state = "waiting" /\ \A d \in Event \ {e} : job'[d] = job[d]
    BY <1>0, <2>1
  <2>3. ASSUME NEW o \in owed'
        PROVE  /\ o[1] \in Members(o[3]) /\ o[3] \in Audience(o[2])
               /\ Carried(o[1], o[2], o[3])'
    <3>1. CASE o \in owed
      BY <1>0, <2>1, <2>2, <3>1 DEF Carried
    <3>2. CASE o \in Socket \X {e} \X Audience(e) /\ o[1] \in Members(o[3])
      BY <2>2, <3>2 DEF Carried
    <3>. QED  BY <2>1, <3>1, <3>2
  <2>4. \A o \in owed' : o[1] \in Members(o[3])'
    BY <2>1, <2>3 DEF Members, conns
  <2>5. \A u \in up' : phase'[u] # "new"
    BY <2>1 DEF DueOK, conns
  <2>. QED  BY <2>3, <2>4, <2>5 DEF DueOK, OwedIsCarried
<1>2. ASSUME NEW r \in Replica, Take(e, r) PROVE DueOK'
  <2>1. /\ job[e].state = "waiting"
        /\ job' = [job EXCEPT ![e] = [state |-> "active", at |-> r, left |-> DeliveriesFor(e)]]
        /\ UNCHANGED <<conns, wire, owed>>
    BY <1>2 DEF Take
  <2>2. /\ job'[e].state = "active" /\ job'[e].left = DeliveriesFor(e)
        /\ \A d \in Event \ {e} : job'[d] = job[d]
    BY <1>0, <2>1
  <2>3. ASSUME NEW o \in owed' PROVE Carried(o[1], o[2], o[3])'
    <3>1. CASE o[2] = e
      <4>1. \E i \in DOMAIN DeliveriesFor(e) : DeliveriesFor(e)[i] = o[3]
        BY <1>0, <2>1, <3>1 DEF Audience
      <4>. QED  BY <2>2, <3>1, <4>1 DEF Carried
    <3>2. CASE o[2] # e
      BY <1>0, <2>1, <2>2, <3>2 DEF Carried
    <3>. QED  BY <3>1, <3>2
  <2>. QED  BY <2>1, <2>3, DueNewsStep
<1>3. CASE Emit(e)
  BY <1>3, DueEmit
<1>4. CASE Finish(e)
  <2>1. /\ job[e].state = "active" /\ job[e].left = <<>>
        /\ job' = [job EXCEPT ![e] = [state |-> "done"]]
        /\ UNCHANGED <<conns, wire, owed>>
    BY <1>4 DEF Finish
  <2>2. \A d \in Event \ {e} : job'[d] = job[d]
    BY <1>0, <2>1
  <2>3. ASSUME NEW o \in owed' PROVE Carried(o[1], o[2], o[3])'
    <3>1. CASE o[2] = e
      BY <1>0, <2>1, <3>1 DEF Carried
    <3>2. CASE o[2] # e
      BY <1>0, <2>1, <2>2, <3>2 DEF Carried
    <3>. QED  BY <3>1, <3>2
  <2>. QED  BY <2>1, <2>3, DueNewsStep
<1>5. CASE Repeat(e)
  <2>1. /\ job' = [job EXCEPT ![e] = [state |-> "waiting"]]
        /\ UNCHANGED <<conns, wire, owed>>
    BY <1>5 DEF Repeat
  <2>2. job'[e].state = "waiting" /\ \A d \in Event \ {e} : job'[d] = job[d]
    BY <1>0, <2>1
  <2>3. ASSUME NEW o \in owed' PROVE Carried(o[1], o[2], o[3])'
    BY <1>0, <2>1, <2>2 DEF Carried
  <2>. QED  BY <2>1, <2>3, DueNewsStep
<1>. QED
  BY <1>1, <1>2, <1>3, <1>4, <1>5 DEF Broadcast

LEMMA DueWireSteps ==
  ASSUME RInv, DueOK, NEW w \in wire, Receive(w) \/ Drop(w)
  PROVE  DueOK'
<1>0. \A o \in owed : Carried(o[1], o[2], o[3])
  BY DEF DueOK, OwedIsCarried
<1>1. ASSUME UNCHANGED <<conns, job>>, wire' = wire \ {w}, owed' \subseteq owed,
             \A o \in owed' : o[2] # w.event \/ o[3] # w.room \/ HomeOf[o[1]] # w.to
      PROVE  DueOK'
  <2>1. ASSUME NEW o \in owed' PROVE Carried(o[1], o[2], o[3])'
    <3>1. [to |-> HomeOf[o[1]], event |-> o[2], room |-> o[3]] # w
      BY <1>1
    <3>. QED  BY <1>0, <1>1, <3>1 DEF Carried
  <2>. QED  BY <1>1, <2>1, DueNewsStep
<1>2. CASE Receive(w)
  <2>1. owed' \subseteq owed
    BY <1>2 DEF Receive, Hear
  <2>2. \A o \in owed' : o[2] # w.event \/ o[3] # w.room \/ HomeOf[o[1]] # w.to
    BY <1>2, HeardIsPaid DEF Receive
  <2>. QED  BY <1>1, <1>2, <2>1, <2>2 DEF Receive
<1>3. CASE Drop(w)
  BY <1>1, <1>3 DEF Drop
<1>. QED
  BY <1>2, <1>3

LEMMA DueCrash ==
  ASSUME RInv, DueOK, NEW r \in Replica, Crash(r)
  PROVE  DueOK'
<1>. DEFINE here == {s \in Socket : HomeOf[s] = r /\ phase[s] # "new"}
<1>1. /\ phase' = [s \in Socket |-> IF s \in here THEN "gone" ELSE phase[s]]
      /\ up' = up \ here
      /\ rooms' = [s \in Socket |-> IF s \in here THEN {} ELSE rooms[s]]
      /\ owed' = {o \in owed : o[1] \notin here}
      /\ wire' = {w \in wire : w.to # r}
      /\ job' = [e \in Event |-> IF job[e].state = "active" /\ job[e].at = r
                                   THEN [state |-> "waiting"] ELSE job[e]]
  BY DEF Crash
<1>2. /\ up \subseteq Socket
      /\ \A u \in up : phase[u] # "new"
  BY DEF RInv, ConnsOK, DueOK
<1>3. ASSUME NEW o \in owed'
      PROVE  /\ o[1] \in Members(o[3])' /\ o[3] \in Audience(o[2])
             /\ Carried(o[1], o[2], o[3])'
  <2>1. /\ o \in owed /\ o[1] \in up \ here /\ o[3] \in rooms[o[1]]
        /\ o[3] \in Audience(o[2]) /\ Carried(o[1], o[2], o[3])
        /\ o[2] \in Event /\ o[1] \in Socket
    BY <1>1, <1>3, OwedType DEF DueOK, OwedIsCarried, Members
  <2>2. HomeOf[o[1]] # r
    BY <1>2, <2>1
  <2>3. o[1] \in up' /\ o[3] \in rooms'[o[1]]
    <3>. HIDE DEF here
    <3>. QED  BY <1>1, <2>1
  <2>4. job'[o[2]] = job[o[2]] \/ job'[o[2]].state = "waiting"
    BY <1>1, <2>1
  <2>5. [to |-> HomeOf[o[1]], event |-> o[2], room |-> o[3]] \in wire
          => [to |-> HomeOf[o[1]], event |-> o[2], room |-> o[3]] \in wire'
    BY <1>1, <2>2
  <2>6. Carried(o[1], o[2], o[3])'
    BY <2>1, <2>4, <2>5 DEF Carried
  <2>. QED  BY <2>1, <2>3, <2>6 DEF Members
<1>4. \A u \in up' : phase'[u] # "new"
  <2>. HIDE DEF here
  <2>. QED  BY <1>1, <1>2
<1>. QED
  BY <1>3, <1>4 DEF DueOK, OwedIsCarried

LEMMA DueStep == RInv /\ DueOK /\ [Next]_vars => DueOK'
<1>. SUFFICES ASSUME RInv, DueOK, [Next]_vars PROVE DueOK'
  OBVIOUS
<1>1. CASE Tick \/ UNCHANGED vars
  BY <1>1, DueKept DEF Tick, vars, conns, DueOK
<1>. QED
  BY <1>1, DueSocketStep, DueEventSteps, DueWireSteps, DueCrash DEF Next

\* No notice is lost but by what the code admits: while a client is owed one it
\* is in the room, and a job of the queue or an emission that Redis holds for its
\* replica will bring it, whichever replicas died and whichever jobs ran again.
THEOREM NoticesAreCarried == Spec => []OwedIsCarried
<1>1. DueOK => OwedIsCarried
  BY DEF DueOK
<1>. QED
  BY RealtimeInvariant, DueInit, DueStep, <1>1, PTL DEF Spec

-----------------------------------------------------------------------------
(* The expiry of the tokens.                                               *)

\* A timer is for when the token expires, or at once when that was past already.
OnTime(s, at) ==
  /\ TokenOf[s] # NULL
  /\ TokenOf[s].exp <= at
  /\ at <= clock \/ at = TokenOf[s].exp

\* A connection is at one of the awaits of handleConnection, or it has its entry
\* and a timer that will close it.
ExpiryIsScheduled ==
  \A s \in up :
    \/ phase[s] \in {"verifying", "joined", "staffed"}
    \/ phase[s] = "ready" /\ s \in entries /\ timer[s] # NULL /\ OnTime(s, timer[s])

\* What makes it inductive: the timers of the sockets that are gone.
TimersOK ==
  /\ ExpiryIsScheduled
  /\ \A s \in Socket : timer[s] # NULL => OnTime(s, timer[s])

LEMMA TimersInit == Init => TimersOK
BY DEF Init, TimersOK, ExpiryIsScheduled

LEMMA TimersSocketStep ==
  ASSUME RInv, TimersOK, NEW s \in Socket, SocketStep(s)
  PROVE  TimersOK'
<1>. USE DEF TimersOK, ExpiryIsScheduled, OnTime
<1>0. /\ phase \in [Socket -> {"new", "verifying", "joined", "staffed", "ready", "gone"}]
      /\ timer \in [Socket -> Nat \cup {NULL}]
      /\ up \subseteq Socket /\ entries \subseteq Socket /\ clock \in Nat
      /\ phase[s] \in {"joined", "staffed", "ready"} => TokenOf[s] # NULL
      /\ TokenOf[s] # NULL => TokenOf[s].exp \in Nat
  BY TokenType DEF RInv, ConnsOK
<1>1. CASE Connect(s)
  BY <1>0, <1>1 DEF Connect
<1>2. CASE Refuse(s)
  BY <1>0, <1>2 DEF Refuse, Disconnected
<1>3. CASE Admit(s)
  BY <1>0, <1>3 DEF Admit
<1>4. CASE JoinStaff(s)
  BY <1>0, <1>4 DEF JoinStaff
<1>5. CASE Register(s)
  <2>1. TokenOf[s] # NULL /\ ScheduleExpiry(s) \in Nat /\ ScheduleExpiry(s) # NULL
    BY <1>0, <1>5, RealtimeAssumption DEF Register, ScheduleExpiry
  <2>2. OnTime(s, ScheduleExpiry(s))
    BY <1>0, <2>1 DEF ScheduleExpiry
  <2>3. /\ entries' = entries \cup {s}
        /\ timer' = [timer EXCEPT ![s] = ScheduleExpiry(s)]
        /\ phase' = [phase EXCEPT ![s] = "ready"]
        /\ UNCHANGED <<up, clock>>
    BY <1>5 DEF Register
  <2>. HIDE DEF OnTime
  <2>4. \A u \in Socket : timer'[u] # NULL => OnTime(u, timer'[u])
    BY <1>0, <2>2, <2>3
  <2>5. ExpiryIsScheduled'
    <3>1. \A u \in Socket : \A at : OnTime(u, at)' <=> OnTime(u, at)
      BY <2>3 DEF OnTime
    <3>. QED  BY <1>0, <2>1, <2>3, <2>4, <3>1
  <2>. QED  BY <2>3, <2>4, <2>5 DEF OnTime
<1>6. CASE Leave(s)
  BY <1>0, <1>6 DEF Leave, Disconnected
<1>7. CASE Expire(s)
  BY <1>0, <1>7 DEF Expire, Disconnected
<1>8. ASSUME NEW t \in Ticket, WatchTicket(s, t) \/ UnwatchTicket(s, t) PROVE TimersOK'
  BY <1>0, <1>8 DEF WatchTicket, UnwatchTicket
<1>. QED
  BY <1>1, <1>2, <1>3, <1>4, <1>5, <1>6, <1>7, <1>8 DEF SocketStep, GoOn

LEMMA TimersStep == RInv /\ TimersOK /\ [Next]_vars => TimersOK'
<1>. SUFFICES ASSUME RInv, TimersOK, [Next]_vars PROVE TimersOK'
  OBVIOUS
<1>. USE DEF TimersOK, ExpiryIsScheduled, OnTime
<1>1. CASE UNCHANGED <<conns, clock>>
  BY <1>1 DEF conns
<1>2. ASSUME NEW e \in Event, Happen(e) \/ Broadcast(e) \/ Repeat(e)
      PROVE  UNCHANGED <<conns, clock>>
  BY <1>2 DEF Happen, Broadcast, Take, Emit, Finish, Repeat
<1>3. ASSUME NEW w \in wire, Receive(w) \/ Drop(w) PROVE UNCHANGED <<conns, clock>>
  BY <1>3 DEF Receive, Drop
<1>4. ASSUME NEW r \in Replica, Crash(r) PROVE TimersOK'
  BY <1>4 DEF Crash, RInv, ConnsOK
<1>5. CASE Tick
  <2>1. /\ timer \in [Socket -> Nat \cup {NULL}] /\ clock \in Nat
        /\ clock' = clock + 1 /\ UNCHANGED conns /\ up \subseteq Socket
    BY <1>5 DEF Tick, RInv, ConnsOK
  <2>2. ASSUME NEW s \in Socket, timer[s] # NULL PROVE OnTime(s, timer[s])'
    BY <2>1, <2>2, TokenType DEF conns
  <2>. QED  BY <2>1, <2>2 DEF conns
<1>6. CASE UNCHANGED vars
  BY <1>1, <1>6 DEF vars
<1>. QED
  BY <1>1, <1>2, <1>3, <1>4, <1>5, <1>6, TimersSocketStep DEF Next

\* "Un token caducado cierra el socket": no connection gets past handleConnection
\* without a timer for the moment its token expires.
THEOREM ExpiryScheduled == Spec => []ExpiryIsScheduled
<1>1. TimersOK => ExpiryIsScheduled
  BY DEF TimersOK
<1>. QED
  BY RealtimeInvariant, TimersInit, TimersStep, <1>1, PTL DEF Spec

\* The timer closes nobody whose token is still good.
THEOREM OnlyExpiredAreClosed == Spec => [][\A s \in Socket : Expire(s) => TokenOf[s].exp <= clock]_vars
<1>1. RInv /\ TimersOK /\ [Next]_vars
        => [\A s \in Socket : Expire(s) => TokenOf[s].exp <= clock]_vars
  <2>. SUFFICES ASSUME RInv, TimersOK, NEW s \in Socket, Expire(s)
                PROVE  TokenOf[s].exp <= clock
    OBVIOUS
  <2>1. timer[s] # NULL /\ timer[s] <= clock /\ timer[s] \in Nat /\ clock \in Nat
    BY DEF Expire, RInv, ConnsOK
  <2>2. TokenOf[s].exp \in Nat /\ TokenOf[s].exp <= timer[s]
    BY <2>1, TokenType DEF TimersOK, OnTime
  <2>. QED  BY <2>1, <2>2
<1>. QED
  BY RealtimeInvariant, TimersInit, TimersStep, <1>1, PTL DEF Spec
=============================================================================
