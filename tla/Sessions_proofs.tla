-------------------------- MODULE Sessions_proofs --------------------------
(***************************************************************************)
(* Theorems about Sessions, for any number of workers, tokens and          *)
(* organizations, and any bounds.                                          *)
(***************************************************************************)
EXTENDS Sessions, TLAPS

-----------------------------------------------------------------------------
(* What the requests and the table refer to.                               *)

ReqState ==
  [pc     : {"idle", "checked", "presented", "looked", "rotating", "revoking",
             "issuing", "answering"},
   op     : {"none", "register", "login", "refresh", "logout"},
   slug   : Slug \cup {NULL},
   org    : Org \cup {NULL},
   token  : Token \cup {NULL},
   seen   : Row \cup {NULL},
   family : Token \cup {NULL},
   now    : Nat]

\* A request holds what its next step needs, and the tokens it names are in
\* the table tk.
ReqOK(r, tk) ==
  /\ r.pc = "checked" => r.slug # NULL /\ r.family = NULL
  /\ r.pc \in {"rotating", "issuing"} => r.org # NULL
  /\ r.pc \in {"presented", "looked", "rotating", "answering"} =>
       r.token # NULL /\ tk[r.token] # NULL
  /\ r.pc = "looked" => r.seen # NULL /\ r.seen.family = tk[r.token].family
  /\ r.pc \in {"rotating", "revoking"} => r.family # NULL
  /\ r.pc = "rotating" => r.family = tk[r.token].family
  /\ r.family # NULL => tk[r.family] # NULL

\* The first token of every family is there.
Rooted(tk) == \A t \in Token : tk[t] # NULL => tk[tk[t].family] # NULL

SInv ==
  /\ TypeOK
  /\ \A t \in held : tokens[t] # NULL
  /\ Rooted(tokens)
  /\ \A w \in Worker : ReqOK(req[w], tokens)

\* Tokens are never forgotten, and keep what they are issued with.
Keeps(tk, tk2) ==
  \A t \in Token : tk[t] # NULL =>
    /\ tk2[t] # NULL
    /\ tk2[t].org = tk[t].org /\ tk2[t].family = tk[t].family
    /\ tk2[t].expiresAt = tk[t].expiresAt
    /\ tk[t].rotatedAt # NULL => tk2[t].rotatedAt = tk[t].rotatedAt
    /\ tk[t].revokedAt # NULL => tk2[t].revokedAt = tk[t].revokedAt

Table == [Token -> Row \cup {NULL}]

LEMMA IdleOK == Idle \in ReqState /\ \A tk : ReqOK(Idle, tk)
BY DEF Idle, ReqState, ReqOK

\* A registration goes on with the organization it has provisioned.
LEMMA ProvisionedReq ==
  ASSUME NEW r \in ReqState, NEW o \in Org
  PROVE  LET p == [r EXCEPT !.pc = "issuing", !.slug = NULL, !.org = o]
         IN  /\ p \in ReqState /\ p.pc = "issuing" /\ p.slug = NULL /\ p.org = o
             /\ p.family = r.family /\ p.token = r.token /\ p.seen = r.seen
<1> DEFINE P == {"idle", "checked", "presented", "looked", "rotating", "revoking",
                 "issuing", "answering"}
           Q == {"none", "register", "login", "refresh", "logout"}
           S == Slug \cup {NULL}
           O == Org \cup {NULL}
           T == Token \cup {NULL}
           R == Row \cup {NULL}
           State == [pc : P, op : Q, slug : S, org : O, token : T, seen : R, family : T, now : Nat]
           p == [r EXCEPT !.pc = "issuing", !.slug = NULL, !.org = o]
<1>1. ReqState = State
  BY DEF ReqState
<1>2. r \in State
  BY <1>1
<1>3. "issuing" \in P /\ NULL \in S /\ o \in O
  OBVIOUS
<1> HIDE DEF P, Q, S, O, T, R
<1>4. /\ p \in State /\ p.pc = "issuing" /\ p.slug = NULL /\ p.org = o
      /\ p.family = r.family /\ p.token = r.token /\ p.seen = r.seen
  BY <1>2, <1>3
<1> HIDE DEF State, p
<1> QED
  BY <1>1, <1>4 DEF p

\* A request is not disturbed by a table that keeps its tokens.
LEMMA KeepsReq ==
  ASSUME NEW tk \in Table, NEW tk2 \in Table, Keeps(tk, tk2),
         NEW r \in ReqState, ReqOK(r, tk)
  PROVE  ReqOK(r, tk2)
BY SessionsAssumption DEF Table, Keeps, ReqState, ReqOK

LEMMA OneReq ==
  ASSUME TypeOK, NEW w \in Worker, NEW r \in ReqState, req' = [req EXCEPT ![w] = r]
  PROVE  /\ req' \in [Worker -> ReqState]
         /\ req'[w] = r
         /\ \A v \in Worker \ {w} : req'[v] = req[v]
BY DEF TypeOK, ReqState

\* What one step of a request must show for SInv.
LEMMA OneStep ==
  ASSUME SInv, NEW w \in Worker, NEW r \in ReqState, req' = [req EXCEPT ![w] = r],
         tokens' \in Table, Keeps(tokens, tokens'), Rooted(tokens'), ReqOK(r, tokens'),
         organizations' \in [Org -> Slug \cup {NULL}],
         held' \subseteq Token, \A t \in held' : tokens'[t] # NULL,
         missed' \subseteq Token, clock' = clock, faults' \in 0..MaxFaults
  PROVE  SInv'
<1>1. /\ req' \in [Worker -> ReqState]
      /\ req'[w] = r
      /\ \A v \in Worker \ {w} : req'[v] = req[v]
  BY OneReq DEF SInv
<1>2. tokens \in Table /\ \A v \in Worker : req[v] \in ReqState
  BY DEF SInv, TypeOK, Table, ReqState
<1>3. \A v \in Worker : ReqOK(req'[v], tokens')
  <2>1. SUFFICES ASSUME NEW v \in Worker PROVE ReqOK(req'[v], tokens')
    OBVIOUS
  <2>2. CASE v = w
    BY <2>2, <1>1
  <2>3. CASE v # w
    <3>1. req'[v] = req[v] /\ ReqOK(req[v], tokens)
      BY <2>3, <1>1 DEF SInv
    <3> QED
      BY <3>1, <1>2, KeepsReq
  <2> QED
    BY <2>2, <2>3
<1>4. TypeOK'
  BY <1>1 DEF SInv, TypeOK, ReqState, Table
<1> QED
  BY <1>3, <1>4 DEF SInv

-----------------------------------------------------------------------------
(* What the three writers do to the table.                                 *)

\* The table with token t rotated at now.
LEMMA RotateTable ==
  ASSUME SInv, NEW t \in Token, tokens[t] # NULL, tokens[t].rotatedAt = NULL, NEW now \in Nat,
         tokens' = [tokens EXCEPT ![t].rotatedAt = now]
  PROVE  /\ tokens' \in Table /\ Keeps(tokens, tokens') /\ Rooted(tokens')
         /\ tokens'[t].rotatedAt # NULL
         /\ \A u \in Token \ {t} : tokens'[u] = tokens[u]
         /\ \A u \in Token : tokens'[u] # NULL => tokens[u] # NULL
<1>1. tokens \in Table /\ tokens[t] \in Row
  BY DEF SInv, TypeOK, Table
<1>2. tokens' = [tokens EXCEPT ![t] = [tokens[t] EXCEPT !.rotatedAt = now]]
  BY <1>1 DEF Table
<1>3. [tokens[t] EXCEPT !.rotatedAt = now] \in Row
  BY <1>1 DEF Row
<1>4. tokens' \in Table
  BY <1>1, <1>2, <1>3 DEF Table
<1>5. tokens'[t] = [tokens[t] EXCEPT !.rotatedAt = now] /\ \A u \in Token \ {t} : tokens'[u] = tokens[u]
  BY <1>1, <1>2 DEF Table
<1>6. tokens'[t] # NULL /\ tokens'[t].rotatedAt # NULL
  BY <1>1, <1>3, <1>5, SessionsAssumption DEF Row
<1>7. Keeps(tokens, tokens')
  <2>1. /\ tokens'[t].org = tokens[t].org /\ tokens'[t].family = tokens[t].family
        /\ tokens'[t].expiresAt = tokens[t].expiresAt /\ tokens'[t].revokedAt = tokens[t].revokedAt
    BY <1>1, <1>5 DEF Row
  <2> QED
    BY <2>1, <1>5, <1>6 DEF Keeps
<1>8. Rooted(tokens')
  <2>1. \A u \in Token : tokens[u] # NULL => tokens[u].family \in Token
    BY <1>1 DEF Table, Row
  <2> QED
    BY <2>1, <1>5, <1>6, <1>7 DEF Rooted, Keeps, SInv
<1> QED
  BY <1>4, <1>5, <1>6, <1>7, <1>8

\* The table with the tokens of family f revoked at now.
LEMMA RevokeTable ==
  ASSUME SInv, NEW f \in Token, NEW now \in Nat,
         tokens' = [t \in Token |-> IF t \in FamilyOf(f) /\ tokens[t].revokedAt = NULL
                                      THEN [tokens[t] EXCEPT !.revokedAt = now]
                                      ELSE tokens[t]]
  PROVE  /\ tokens' \in Table /\ Keeps(tokens, tokens') /\ Rooted(tokens')
         /\ \A u \in Token : /\ tokens'[u] # NULL <=> tokens[u] # NULL
                             /\ tokens[u] # NULL => tokens'[u].rotatedAt = tokens[u].rotatedAt
<1>1. tokens \in Table
  BY DEF SInv, TypeOK, Table
<1>2. \A t \in FamilyOf(f) : tokens[t] \in Row
  BY <1>1 DEF FamilyOf, Table
<1>3. ASSUME NEW t \in Token
      PROVE  /\ tokens'[t] \in Row \cup {NULL}
             /\ tokens'[t] # NULL <=> tokens[t] # NULL
             /\ tokens[t] # NULL =>
                  /\ tokens'[t].org = tokens[t].org /\ tokens'[t].family = tokens[t].family
                  /\ tokens'[t].expiresAt = tokens[t].expiresAt
                  /\ tokens'[t].rotatedAt = tokens[t].rotatedAt
                  /\ tokens[t].revokedAt # NULL => tokens'[t].revokedAt = tokens[t].revokedAt
  <2>1. CASE t \in FamilyOf(f) /\ tokens[t].revokedAt = NULL
    <3>1. tokens'[t] = [tokens[t] EXCEPT !.revokedAt = now] /\ tokens[t] \in Row
      BY <2>1, <1>2
    <3>2. tokens'[t] \in Row
      BY <3>1 DEF Row
    <3>3. tokens[t] # NULL /\ tokens'[t] # NULL
      BY <3>1, <3>2, SessionsAssumption
    <3> QED
      BY <3>1, <3>2, <3>3, <2>1 DEF Row
  <2>2. CASE ~(t \in FamilyOf(f) /\ tokens[t].revokedAt = NULL)
    <3>1. tokens'[t] = tokens[t]
      BY <2>2
    <3> QED
      BY <3>1, <1>1 DEF Table
  <2> QED
    BY <2>1, <2>2
<1>4. tokens' \in Table
  BY <1>3 DEF Table
<1>5. Keeps(tokens, tokens')
  BY <1>3 DEF Keeps
<1>6. Rooted(tokens')
  <2>1. \A u \in Token : tokens[u] # NULL => tokens[u].family \in Token
    BY <1>1 DEF Table, Row
  <2> QED
    BY <2>1, <1>3 DEF Rooted, SInv
<1> QED
  BY <1>3, <1>4, <1>5, <1>6

\* The table with a new token n in family f, which is there or is n itself.
LEMMA IssueTable ==
  ASSUME SInv, NEW n \in Token, tokens[n] = NULL, NEW o \in Org, NEW f \in Token,
         f = n \/ tokens[f] # NULL,
         tokens' = [tokens EXCEPT ![n] = [org |-> o, family |-> f, expiresAt |-> clock + Ttl,
                                          rotatedAt |-> NULL, revokedAt |-> NULL]]
  PROVE  /\ tokens' \in Table /\ Keeps(tokens, tokens') /\ Rooted(tokens')
         /\ tokens'[n] # NULL /\ tokens'[n].family = f /\ tokens'[n].rotatedAt = NULL
         /\ tokens'[n].revokedAt = NULL
         /\ \A u \in Token \ {n} : tokens'[u] = tokens[u]
<1> DEFINE row == [org |-> o, family |-> f, expiresAt |-> clock + Ttl,
                   rotatedAt |-> NULL, revokedAt |-> NULL]
<1>1. tokens \in Table /\ clock + Ttl \in Nat
  BY SessionsAssumption DEF SInv, TypeOK, Table
<1>2. row \in Row
  BY <1>1 DEF Row
<1>3. row # NULL
  BY <1>2, SessionsAssumption
<1>4. tokens'[n] = row /\ \A u \in Token \ {n} : tokens'[u] = tokens[u]
  BY <1>1 DEF Table
<1>5. tokens' \in Table
  BY <1>1, <1>2 DEF Table
<1>6. Keeps(tokens, tokens')
  BY <1>4 DEF Keeps
<1>7. Rooted(tokens')
  <2>1. \A u \in Token : tokens[u] # NULL => tokens[u].family \in Token
    BY <1>1 DEF Table, Row
  <2>2. \A u \in Token : tokens[u] # NULL => tokens[u].family # n
    BY DEF SInv, Rooted
  <2> QED
    BY <2>1, <2>2, <1>3, <1>4 DEF Rooted, SInv
<1> QED
  BY <1>3, <1>4, <1>5, <1>6, <1>7

\* A step that leaves the table alone.
LEMMA SameTable ==
  ASSUME SInv, tokens' = tokens
  PROVE  tokens' \in Table /\ Keeps(tokens, tokens') /\ Rooted(tokens')
BY DEF SInv, TypeOK, Table, Keeps

-----------------------------------------------------------------------------
(* SInv is inductive.                                                      *)

\* What GoOn leaves of a request that has looked at its token.
LEMMA GoOnOK ==
  ASSUME SInv, NEW w \in Worker, req[w].pc = "looked",
         NEW pc \in {"rotating", "revoking"}, GoOn(w, pc), UNCHANGED tokens
  PROVE  \E r \in ReqState : /\ req' = [req EXCEPT ![w] = r]
                             /\ ReqOK(r, tokens') /\ r.pc = pc /\ r.family = req[w].seen.family
<1> DEFINE r == [req[w] EXCEPT !.pc = pc, !.seen = NULL, !.org = req[w].seen.org,
                               !.family = req[w].seen.family, !.now = clock]
<1>1. req[w] \in ReqState /\ ReqOK(req[w], tokens) /\ clock \in Nat /\ tokens \in Table
  BY SessionsAssumption DEF SInv, TypeOK, ReqState, Table
<1>2. req[w].seen \in Row
  BY <1>1 DEF ReqState, ReqOK
<1>3. r \in ReqState
  BY <1>1, <1>2 DEF ReqState, Row
<1>4. req' = [req EXCEPT ![w] = r]
  BY DEF GoOn
<1>5. /\ r.pc = pc /\ r.token = req[w].token /\ r.family = req[w].seen.family
      /\ r.org = req[w].seen.org
  BY <1>1 DEF ReqState
<1>6. /\ r.token \in Token /\ tokens[r.token] # NULL /\ r.family = tokens[r.token].family
      /\ r.family \in Token /\ r.org \in Org
  BY <1>1, <1>2, <1>5 DEF ReqOK, ReqState, Row
<1>7. /\ tokens[r.family] # NULL /\ r.family # NULL /\ r.org # NULL /\ r.token # NULL
      /\ tokens' = tokens
  BY <1>6, SessionsAssumption DEF SInv, Rooted
<1>8. ReqOK(r, tokens')
  <2> HIDE DEF r
  <2> QED
    BY <1>5, <1>6, <1>7 DEF ReqOK
<1> QED
  BY <1>3, <1>4, <1>5, <1>8

LEMMA SInvStep == SInv /\ [Next]_vars => SInv'
<1> SUFFICES ASSUME SInv, [Next]_vars
             PROVE  SInv'
  OBVIOUS
<1>i. Idle \in ReqState /\ ReqOK(Idle, tokens) /\ ReqOK(Idle, tokens')
  BY IdleOK
<1>t. /\ req \in [Worker -> ReqState]
      /\ organizations \in [Org -> Slug \cup {NULL}]
      /\ held \subseteq Token /\ missed \subseteq Token /\ faults \in 0..MaxFaults
      /\ clock \in Nat /\ tokens \in Table
  BY SessionsAssumption DEF SInv, TypeOK, ReqState, Table
<1>1. CASE UNCHANGED vars
  BY <1>1 DEF vars, SInv, TypeOK
<1>2. CASE Tick
  <2>1. clock' \in 0..MaxTime
    BY <1>2, SessionsAssumption DEF Tick, SInv, TypeOK
  <2> QED
    BY <2>1, <1>2 DEF Tick, SInv, TypeOK
<1>3. ASSUME NEW w \in Worker, Step(w) \/ Crash(w)
      PROVE  SInv'
  <2>1. CASE CheckSlug(w)
    <3>1. PICK s \in Slug : req' = [req EXCEPT ![w] = [Idle EXCEPT !.pc = "checked",
                                                        !.op = "register", !.slug = s]]
      BY <2>1 DEF CheckSlug
    <3> DEFINE r == [Idle EXCEPT !.pc = "checked", !.op = "register", !.slug = s]
    <3>2. r \in ReqState /\ ReqOK(r, tokens')
      BY SessionsAssumption DEF Idle, ReqState, ReqOK
    <3>3. tokens' \in Table /\ Keeps(tokens, tokens') /\ Rooted(tokens')
      BY <2>1, SameTable DEF CheckSlug
    <3> HIDE DEF r
    <3> QED
      BY <3>1, <3>2, <3>3, <2>1, <1>t, OneStep DEF CheckSlug, SInv, r
  <2>2. CASE Provision(w)
    <3>1. tokens' \in Table /\ Keeps(tokens, tokens') /\ Rooted(tokens')
      BY <2>2, SameTable DEF Provision
    <3>2. CASE Taken(req[w].slug)
      BY <3>1, <3>2, <2>2, <1>i, <1>t, OneStep DEF Provision, SInv
    <3>3. CASE ~Taken(req[w].slug)
      <4>1. PICK o \in Org : /\ organizations' = [organizations EXCEPT ![o] = req[w].slug]
                             /\ req' = [req EXCEPT ![w].pc = "issuing", ![w].slug = NULL,
                                                   ![w].org = o]
        BY <2>2, <3>3 DEF Provision
      <4> DEFINE r == [req[w] EXCEPT !.pc = "issuing", !.slug = NULL, !.org = o]
      <4>2. req' = [req EXCEPT ![w] = r]
        BY <4>1, <1>t
      <4>3. r \in ReqState
        BY <1>t, ProvisionedReq
      <4>4. ReqOK(req[w], tokens) /\ tokens' = tokens /\ req[w] \in ReqState
        BY <2>2, <1>t DEF Provision, SInv
      <4>5. ReqOK(r, tokens')
        BY <4>4, SessionsAssumption DEF ReqOK, ReqState
      <4>6. organizations' \in [Org -> Slug \cup {NULL}]
        BY <4>1, <1>t DEF ReqState
      <4> HIDE DEF r
      <4> QED
        BY <4>2, <4>3, <4>5, <4>6, <3>1, <2>2, <1>t, OneStep DEF Provision, SInv
    <3> QED
      BY <3>2, <3>3
  <2>3. CASE Login(w)
    <3>1. PICK o \in Org : req' = [req EXCEPT ![w] = [Idle EXCEPT !.pc = "issuing",
                                                       !.op = "login", !.org = o]]
      BY <2>3 DEF Login
    <3> DEFINE r == [Idle EXCEPT !.pc = "issuing", !.op = "login", !.org = o]
    <3>2. r \in ReqState /\ ReqOK(r, tokens')
      BY SessionsAssumption DEF Idle, ReqState, ReqOK
    <3>3. tokens' \in Table /\ Keeps(tokens, tokens') /\ Rooted(tokens')
      BY <2>3, SameTable DEF Login
    <3> HIDE DEF r
    <3> QED
      BY <3>1, <3>2, <3>3, <2>3, <1>t, OneStep DEF Login, SInv, r
  <2>4. CASE Present(w)
    <3>1. PICK t \in held, op \in {"refresh", "logout"} :
            req' = [req EXCEPT ![w] = [Idle EXCEPT !.pc = "presented", !.op = op, !.token = t]]
      BY <2>4 DEF Present
    <3> DEFINE r == [Idle EXCEPT !.pc = "presented", !.op = op, !.token = t]
    <3>2. t \in Token /\ tokens[t] # NULL /\ tokens' = tokens
      BY <2>4, <1>t DEF SInv, Present
    <3>3. r \in ReqState /\ ReqOK(r, tokens')
      BY <3>2, SessionsAssumption DEF Idle, ReqState, ReqOK
    <3>4. tokens' \in Table /\ Keeps(tokens, tokens') /\ Rooted(tokens')
      BY <3>2, SameTable
    <3> HIDE DEF r
    <3> QED
      BY <3>1, <3>3, <3>4, <2>4, <1>t, OneStep DEF Present, SInv, r
  <2>5. CASE Look(w)
    <3> DEFINE r == [req[w] EXCEPT !.pc = "looked", !.seen = tokens[req[w].token]]
    <3>1. /\ req[w] \in ReqState /\ ReqOK(req[w], tokens) /\ tokens' = tokens
          /\ req[w].token \in Token /\ tokens[req[w].token] # NULL
      BY <2>5, <1>t DEF SInv, Look, ReqOK, ReqState
    <3>2. req' = [req EXCEPT ![w] = r]
      BY <2>5, <1>t DEF Look
    <3>3. r \in ReqState
      BY <3>1, <1>t DEF ReqState, Table
    <3>4. ReqOK(r, tokens')
      BY <3>1, <2>5 DEF ReqOK, ReqState, Look
    <3>5. tokens' \in Table /\ Keeps(tokens, tokens') /\ Rooted(tokens')
      BY <3>1, SameTable
    <3> HIDE DEF r
    <3> QED
      BY <3>2, <3>3, <3>4, <3>5, <2>5, <1>t, OneStep DEF Look, SInv
  <2>6. CASE DecideLogout(w) \/ DecideRefresh(w)
    <3>1. /\ req[w].pc = "looked"
          /\ UNCHANGED <<organizations, tokens, held, missed, clock, faults>>
          /\ GoOn(w, "revoking") \/ GoOn(w, "rotating") \/ req' = [req EXCEPT ![w] = Idle]
      BY <2>6 DEF DecideLogout, DecideRefresh
    <3>2. PICK r \in ReqState : req' = [req EXCEPT ![w] = r] /\ ReqOK(r, tokens')
      BY <3>1, <1>i, GoOnOK
    <3>3. tokens' \in Table /\ Keeps(tokens, tokens') /\ Rooted(tokens')
      BY <3>1, SameTable
    <3> QED
      BY <3>1, <3>2, <3>3, <1>t, OneStep DEF SInv
  <2>7. CASE MarkRotated(w)
    <3> DEFINE r == [req[w] EXCEPT !.pc = "issuing", !.token = NULL, !.now = 0]
    <3>1. /\ req[w] \in ReqState /\ ReqOK(req[w], tokens) /\ req[w].pc = "rotating"
          /\ req[w].token \in Token /\ tokens[req[w].token] # NULL /\ req[w].family \in Token
          /\ req[w].now \in Nat
      BY <2>7, <1>t DEF SInv, MarkRotated, ReqOK, ReqState
    <3>2. req' = [req EXCEPT ![w] = r]
      BY <2>7, <1>t DEF MarkRotated
    <3>3. r \in ReqState
      BY <3>1 DEF ReqState
    <3>4. tokens' \in Table /\ Keeps(tokens, tokens') /\ Rooted(tokens') /\ missed' \subseteq Token
      <4>1. CASE tokens[req[w].token].rotatedAt = NULL
        BY <4>1, <3>1, <2>7, <1>t, RotateTable DEF MarkRotated
      <4>2. CASE tokens[req[w].token].rotatedAt # NULL
        BY <4>2, <3>1, <2>7, <1>t, SameTable DEF MarkRotated
      <4> QED
        BY <4>1, <4>2
    <3>5. ReqOK(r, tokens')
      BY <3>1, <3>4, SessionsAssumption DEF ReqOK, ReqState, Keeps
    <3>6. held' = held /\ \A t \in held' : tokens'[t] # NULL
      BY <3>4, <2>7, <1>t DEF MarkRotated, SInv, Keeps
    <3> HIDE DEF r
    <3> QED
      BY <3>2, <3>3, <3>4, <3>5, <3>6, <2>7, <1>t, OneStep DEF MarkRotated
  <2>8. CASE Issue(w)
    <3>1. /\ req[w] \in ReqState /\ ReqOK(req[w], tokens) /\ req[w].pc = "issuing"
          /\ req[w].org \in Org
      BY <2>8, <1>t DEF SInv, Issue, ReqOK, ReqState
    <3>2. PICK n \in Token :
            /\ tokens[n] = NULL
            /\ tokens' = [tokens EXCEPT ![n] =
                 [org |-> req[w].org,
                  family |-> IF req[w].family = NULL THEN n ELSE req[w].family,
                  expiresAt |-> clock + Ttl, rotatedAt |-> NULL, revokedAt |-> NULL]]
            /\ req' = [req EXCEPT ![w] = [Idle EXCEPT !.pc = "answering", !.token = n]]
      BY <2>8 DEF Issue
    <3> DEFINE r == [Idle EXCEPT !.pc = "answering", !.token = n]
               f == IF req[w].family = NULL THEN n ELSE req[w].family
    <3>3. f \in Token /\ (f = n \/ tokens[f] # NULL)
      BY <3>1 DEF ReqOK, ReqState
    <3>4. tokens' \in Table /\ Keeps(tokens, tokens') /\ Rooted(tokens') /\ tokens'[n] # NULL
      <4> DEFINE o == req[w].org
      <4>1. tokens' = [tokens EXCEPT ![n] = [org |-> o, family |-> f, expiresAt |-> clock + Ttl,
                                             rotatedAt |-> NULL, revokedAt |-> NULL]]
        BY <3>2
      <4>2. n \in Token /\ tokens[n] = NULL /\ o \in Org
        BY <3>1, <3>2
      <4> HIDE DEF f, o
      <4> QED
        BY <4>1, <4>2, <3>3, IssueTable
    <3>5. r \in ReqState /\ ReqOK(r, tokens')
      BY <3>4, SessionsAssumption DEF Idle, ReqState, ReqOK
    <3>6. held' = held /\ \A t \in held' : tokens'[t] # NULL
      BY <3>4, <2>8, <1>t DEF Issue, SInv, Keeps
    <3> HIDE DEF r
    <3> QED
      BY <3>2, <3>4, <3>5, <3>6, <2>8, <1>t, OneStep DEF Issue, r
  <2>9. CASE Answer(w)
    <3>1. req[w].token \in Token /\ tokens[req[w].token] # NULL /\ tokens' = tokens
      BY <2>9, <1>t DEF SInv, Answer, ReqOK, ReqState
    <3>2. held' \subseteq Token /\ \A t \in held' : tokens'[t] # NULL
      BY <3>1, <2>9, <1>t DEF Answer, SInv
    <3>3. tokens' \in Table /\ Keeps(tokens, tokens') /\ Rooted(tokens')
      BY <3>1, SameTable
    <3> QED
      BY <3>2, <3>3, <2>9, <1>i, <1>t, OneStep DEF Answer
  <2>10. CASE RevokeFamily(w)
    <3>1. req[w].family \in Token /\ req[w].now \in Nat
      BY <2>10, <1>t DEF SInv, RevokeFamily, ReqOK, ReqState
    <3>2. tokens' \in Table /\ Keeps(tokens, tokens') /\ Rooted(tokens')
      BY <3>1, <2>10, RevokeTable DEF RevokeFamily
    <3>3. held' = held /\ \A t \in held' : tokens'[t] # NULL
      BY <3>2, <2>10, <1>t DEF RevokeFamily, SInv, Keeps
    <3> QED
      BY <3>2, <3>3, <2>10, <1>i, <1>t, OneStep DEF RevokeFamily
  <2>11. CASE Crash(w)
    <3>1. tokens' \in Table /\ Keeps(tokens, tokens') /\ Rooted(tokens')
      BY <2>11, SameTable DEF Crash
    <3>2. faults' \in 0..MaxFaults
      BY <2>11, <1>t, SessionsAssumption DEF Crash
    <3> QED
      BY <3>1, <3>2, <2>11, <1>i, <1>t, OneStep DEF Crash, SInv
  <2> QED
    BY <1>3, <2>1, <2>2, <2>3, <2>4, <2>5, <2>6, <2>7, <2>8, <2>9, <2>10, <2>11 DEF Step
<1> QED
  BY <1>1, <1>2, <1>3 DEF Next

LEMMA SInvInit == Init => SInv
<1>1. Idle \in ReqState /\ \A tk : ReqOK(Idle, tk)
  BY IdleOK
<1> QED
  BY <1>1, SessionsAssumption DEF Init, SInv, TypeOK, Rooted, ReqState

LEMMA SInvAlways == Spec => []SInv
BY SInvInit, SInvStep, PTL DEF Spec

\* Requests, tables and bounds are always what they should be.
THEOREM SessionsTyped == Spec => []TypeOK
<1>1. SInv => TypeOK
  BY DEF SInv
<1> QED
  BY <1>1, SInvAlways, PTL

-----------------------------------------------------------------------------
(* Tokens keep their marks.                                                *)

\* Every step keeps the tokens of the table.
LEMMA StepKeeps ==
  ASSUME SInv, [Next]_vars
  PROVE  Keeps(tokens, tokens')
<1>1. CASE tokens' = tokens
  BY <1>1, SameTable
<1>2. ASSUME NEW w \in Worker, MarkRotated(w), tokens' # tokens
      PROVE  Keeps(tokens, tokens')
  <2>1. req[w].token \in Token /\ tokens[req[w].token] # NULL /\ req[w].now \in Nat
    BY <1>2 DEF SInv, TypeOK, MarkRotated, ReqOK
  <2> QED
    BY <2>1, <1>2, RotateTable DEF MarkRotated
<1>3. ASSUME NEW w \in Worker, Issue(w)
      PROVE  Keeps(tokens, tokens')
  BY <1>3 DEF Issue, Keeps, SInv, TypeOK
<1>4. ASSUME NEW w \in Worker, RevokeFamily(w)
      PROVE  Keeps(tokens, tokens')
  <2>1. req[w].family \in Token /\ req[w].now \in Nat
    BY <1>4 DEF SInv, TypeOK, RevokeFamily, ReqOK
  <2> QED
    BY <2>1, <1>4, RevokeTable DEF RevokeFamily
<1> QED
  BY <1>1, <1>2, <1>3, <1>4
     DEF Next, Step, Tick, Crash, CheckSlug, Provision, Login, Present, Look, DecideLogout,
         DecideRefresh, Answer, vars

\* The marks of a token are those of the first request that made them.
THEOREM MarksKept == Spec => MarksAreFinal
<1> DEFINE A == \A t \in Token : tokens[t] # NULL =>
                 /\ tokens'[t] # NULL
                 /\ \A field \in {"org", "family", "expiresAt"} :
                      tokens'[t][field] = tokens[t][field]
                 /\ \A field \in {"rotatedAt", "revokedAt"} :
                      tokens[t][field] # NULL => tokens'[t][field] = tokens[t][field]
<1>1. SInv /\ [Next]_vars => [A]_vars
  <2>1. SUFFICES ASSUME SInv, [Next]_vars PROVE A
    OBVIOUS
  <2>2. Keeps(tokens, tokens')
    BY <2>1, StepKeeps
  <2> QED
    BY <2>2 DEF Keeps
<1> QED
  BY <1>1, SInvAlways, PTL DEF Spec, MarksAreFinal

\* The unique index gives a slug to the first registration that is provisioned.
THEOREM SlugsUnique == Spec => []OneOrganizationPerSlug
<1>1. Init => OneOrganizationPerSlug
  BY DEF Init, OneOrganizationPerSlug
<1>2. SInv /\ OneOrganizationPerSlug /\ [Next]_vars => OneOrganizationPerSlug'
  <2> SUFFICES ASSUME SInv, OneOrganizationPerSlug, [Next]_vars
               PROVE  OneOrganizationPerSlug'
    OBVIOUS
  <2>1. CASE UNCHANGED organizations
    BY <2>1 DEF OneOrganizationPerSlug
  <2>2. ASSUME NEW w \in Worker, Provision(w), ~Taken(req[w].slug)
        PROVE  OneOrganizationPerSlug'
    BY <2>2 DEF Provision, Taken, OneOrganizationPerSlug, SInv, TypeOK
  <2> QED
    BY <2>1, <2>2
       DEF Next, Step, Tick, Crash, CheckSlug, Provision, Login, Present, Look, DecideLogout,
           DecideRefresh, MarkRotated, Issue, Answer, RevokeFamily, vars
<1> QED
  BY <1>1, <1>2, SInvAlways, PTL DEF Spec

-----------------------------------------------------------------------------
(* A family is a chain with one tip.                                       *)

\* What is a tip, spelled out for states and for their successors.
LEMMA IsTip ==
  ASSUME NEW f \in Token, NEW x
  PROVE  x \in Tips(f) <=>
           \/ /\ x \in Token /\ tokens[x] # NULL
              /\ tokens[x].family = f /\ tokens[x].rotatedAt = NULL
           \/ x \in Worker /\ req[x].pc = "issuing" /\ req[x].family = f
BY DEF Tips, FamilyOf

\* A step that neither issues, marks nor crashes leaves the tips alone.
QuietStep ==
  /\ UNCHANGED <<missed, faults>>
  /\ \A t \in Token : /\ tokens'[t] # NULL <=> tokens[t] # NULL
                      /\ tokens[t] # NULL => /\ tokens'[t].family = tokens[t].family
                                             /\ tokens'[t].rotatedAt = tokens[t].rotatedAt
  /\ \A w \in Worker, f \in Token :
       (req'[w].pc = "issuing" /\ req'[w].family = f)
         <=> (req[w].pc = "issuing" /\ req[w].family = f)

LEMMA QuietTips ==
  ASSUME QuietStep, FamilyIsAChain, FamilyGoesOn
  PROVE  FamilyIsAChain' /\ FamilyGoesOn'
<1>1. ASSUME NEW f \in Token
      PROVE  Tips(f)' = Tips(f) /\ FamilyOf(f)' = FamilyOf(f)
  BY DEF QuietStep, Tips, FamilyOf
<1> QED
  BY <1>1 DEF QuietStep, FamilyIsAChain, FamilyGoesOn

\* The steps of the program, told apart by what they do to the tips.
LEMMA TipSteps ==
  ASSUME SInv, [Next]_vars
  PROVE  \/ QuietStep
         \/ \E w \in Worker : MarkRotated(w) \/ Issue(w) \/ Crash(w)
<1>t. req \in [Worker -> ReqState] /\ NULL \notin Token
  BY SessionsAssumption DEF SInv, TypeOK, ReqState
<1>1. ASSUME UNCHANGED <<tokens, missed, faults>>,
             NEW w \in Worker, NEW r \in ReqState, req' = [req EXCEPT ![w] = r],
             req[w].pc # "issuing", r.pc = "issuing" => r.family = NULL
      PROVE  QuietStep
  <2>1. req'[w] = r /\ \A v \in Worker \ {w} : req'[v] = req[v]
    BY <1>1, <1>t
  <2> QED
    BY <2>1, <1>1, <1>t DEF QuietStep
<1>2. CASE UNCHANGED vars \/ Tick
  BY <1>2 DEF vars, Tick, QuietStep
<1>3. ASSUME NEW w \in Worker, Step(w), ~MarkRotated(w), ~Issue(w)
      PROVE  QuietStep
  <2>1. CASE CheckSlug(w)
    <3>1. PICK s \in Slug : req' = [req EXCEPT ![w] = [Idle EXCEPT !.pc = "checked",
                                                        !.op = "register", !.slug = s]]
      BY <2>1 DEF CheckSlug
    <3> DEFINE r == [Idle EXCEPT !.pc = "checked", !.op = "register", !.slug = s]
    <3>2. r \in ReqState /\ r.pc = "checked"
      BY DEF Idle, ReqState
    <3> HIDE DEF r
    <3> QED
      BY <3>1, <3>2, <2>1, <1>1 DEF CheckSlug, r
  <2>2. CASE Provision(w)
    <3>1. CASE Taken(req[w].slug)
      BY <3>1, <2>2, <1>1, IdleOK DEF Provision, Idle
    <3>2. CASE ~Taken(req[w].slug)
      <4>1. PICK o \in Org : req' = [req EXCEPT ![w].pc = "issuing", ![w].slug = NULL,
                                                ![w].org = o]
        BY <3>2, <2>2 DEF Provision
      <4> DEFINE r == [req[w] EXCEPT !.pc = "issuing", !.slug = NULL, !.org = o]
      <4>2. req[w] \in ReqState /\ req[w].family = NULL
        BY <2>2, <1>t DEF SInv, ReqOK, Provision
      <4>3. r \in ReqState /\ r.family = NULL
        BY <4>2, ProvisionedReq
      <4>4. req' = [req EXCEPT ![w] = r]
        BY <4>1, <1>t
      <4> HIDE DEF r
      <4> QED
        BY <4>3, <4>4, <2>2, <1>1 DEF Provision
    <3> QED
      BY <3>1, <3>2
  <2>3. CASE Login(w)
    <3>1. PICK o \in Org : req' = [req EXCEPT ![w] = [Idle EXCEPT !.pc = "issuing",
                                                       !.op = "login", !.org = o]]
      BY <2>3 DEF Login
    <3> DEFINE r == [Idle EXCEPT !.pc = "issuing", !.op = "login", !.org = o]
    <3>2. r \in ReqState /\ r.family = NULL
      BY DEF Idle, ReqState
    <3> HIDE DEF r
    <3> QED
      BY <3>1, <3>2, <2>3, <1>1 DEF Login, r
  <2>4. CASE Present(w)
    <3>1. PICK t \in held, op \in {"refresh", "logout"} :
            req' = [req EXCEPT ![w] = [Idle EXCEPT !.pc = "presented", !.op = op, !.token = t]]
      BY <2>4 DEF Present
    <3> DEFINE r == [Idle EXCEPT !.pc = "presented", !.op = op, !.token = t]
    <3>2. r \in ReqState /\ r.pc = "presented"
      BY DEF Idle, ReqState, SInv, TypeOK
    <3> HIDE DEF r
    <3> QED
      BY <3>1, <3>2, <2>4, <1>1 DEF Present, r
  <2>5. CASE Look(w)
    <3> DEFINE r == [req[w] EXCEPT !.pc = "looked", !.seen = tokens[req[w].token]]
    <3>1. req[w] \in ReqState /\ req[w].token \in Token /\ tokens[req[w].token] \in Row \cup {NULL}
      BY <2>5, <1>t DEF SInv, TypeOK, ReqOK, Look, ReqState
    <3>2. r \in ReqState /\ r.pc = "looked" /\ req' = [req EXCEPT ![w] = r]
      BY <3>1, <2>5, <1>t DEF ReqState, Look
    <3> HIDE DEF r
    <3> QED
      BY <3>2, <2>5, <1>1 DEF Look
  <2>6. CASE DecideLogout(w) \/ DecideRefresh(w)
    <3>1. /\ req[w].pc = "looked"
          /\ UNCHANGED <<organizations, tokens, held, missed, clock, faults>>
          /\ GoOn(w, "revoking") \/ GoOn(w, "rotating") \/ req' = [req EXCEPT ![w] = Idle]
      BY <2>6 DEF DecideLogout, DecideRefresh
    <3>2. CASE req' = [req EXCEPT ![w] = Idle]
      BY <3>1, <3>2, <1>1, IdleOK DEF Idle
    <3>3. CASE GoOn(w, "revoking") \/ GoOn(w, "rotating")
      <4>1. PICK pc \in {"rotating", "revoking"}, r \in ReqState :
              req' = [req EXCEPT ![w] = r] /\ r.pc = pc
        BY <3>1, <3>3, GoOnOK
      <4> QED
        BY <4>1, <3>1, <1>1
    <3> QED
      BY <3>1, <3>2, <3>3
  <2>7. CASE Answer(w)
    BY <2>7, <1>1, IdleOK DEF Answer, Idle
  <2>8. CASE RevokeFamily(w)
    <3>1. req[w].family \in Token /\ req[w].now \in Nat
      BY <2>8, <1>t DEF SInv, RevokeFamily, ReqOK, ReqState
    <3>2. /\ Keeps(tokens, tokens')
          /\ \A u \in Token : /\ tokens'[u] # NULL <=> tokens[u] # NULL
                              /\ tokens[u] # NULL => tokens'[u].rotatedAt = tokens[u].rotatedAt
      BY <3>1, <2>8, RevokeTable DEF RevokeFamily
    <3>3. /\ req'[w] = Idle /\ Idle.pc = "idle" /\ req[w].pc = "revoking"
          /\ \A v \in Worker \ {w} : req'[v] = req[v]
      BY <2>8, <1>t DEF RevokeFamily, Idle
    <3> QED
      BY <3>2, <3>3, <2>8 DEF QuietStep, Keeps, RevokeFamily
  <2> QED
    BY <1>3, <2>1, <2>2, <2>3, <2>4, <2>5, <2>6, <2>7, <2>8 DEF Step
<1> QED
  BY <1>2, <1>3 DEF Next

\* A mark moves the tip from the token to the request that rotated it.
LEMMA MarkTips ==
  ASSUME SInv, FamilyIsAChain, FamilyGoesOn, NEW w \in Worker, MarkRotated(w)
  PROVE  FamilyIsAChain' /\ FamilyGoesOn'
<1>r. req[w] \in ReqState /\ ReqOK(req[w], tokens) /\ req[w].pc = "rotating"
  BY DEF SInv, TypeOK, MarkRotated, ReqState
<1>1. PICK t \in Token, g \in Token :
        /\ t = req[w].token /\ g = req[w].family
        /\ tokens[t] # NULL /\ tokens[t].family = g
        /\ req[w].now \in Nat /\ req[w].pc = "rotating"
  BY <1>r DEF ReqOK, ReqState
<1>2. /\ req'[w].pc = "issuing" /\ req'[w].family = g
      /\ \A v \in Worker \ {w} : req'[v] = req[v]
  BY <1>r, <1>1 DEF MarkRotated, SInv, TypeOK, ReqState
<1>3. \A u \in Token : /\ tokens'[u] # NULL <=> tokens[u] # NULL
                       /\ tokens[u] # NULL => tokens'[u].family = tokens[u].family
                       /\ u # t => tokens'[u] = tokens[u]
  <2>1. CASE tokens[t].rotatedAt = NULL
    BY <2>1, <1>1, RotateTable DEF MarkRotated, Keeps
  <2>2. CASE tokens[t].rotatedAt # NULL
    BY <2>2, <1>1 DEF MarkRotated
  <2> QED
    BY <2>1, <2>2
<1>4. ASSUME NEW f \in Token
      PROVE  /\ FamilyOf(f)' = FamilyOf(f)
             /\ f # g => Tips(f)' = Tips(f)
  BY <1>1, <1>2, <1>3 DEF Tips, FamilyOf
<1>5. w \in Tips(g)'
  BY <1>2 DEF Tips
<1>6. FamilyGoesOn'
  BY <1>4, <1>5 DEF FamilyGoesOn, MarkRotated
<1>7. FamilyIsAChain'
  <2>1. CASE tokens[t].rotatedAt = NULL
    <3>1. tokens'[t].rotatedAt # NULL /\ missed' = missed
      BY <2>1, <1>1, RotateTable DEF MarkRotated
    <3>2. t \in Tips(g)
      BY <2>1, <1>1 DEF Tips, FamilyOf
    <3>3. ASSUME g \notin missed, NEW x \in Tips(g)'
          PROVE  x = w
      <4>1. \A y \in Tips(g) : y = t
        BY <3>2, <3>3, <1>1 DEF FamilyIsAChain
      <4>2. CASE x \in Token
        <5>1. x # t
          BY <3>1, <3>3, <4>2, SessionsAssumption DEF Tips, FamilyOf
        <5>2. x \in Tips(g)
          BY <5>1, <4>2, <3>3, <1>3, SessionsAssumption DEF Tips, FamilyOf
        <5> QED
          BY <5>1, <5>2, <4>1
      <4>3. CASE x \in Worker
        <5>1. CASE x # w
          <6>1. x \in Tips(g)
            BY <5>1, <4>3, <3>3, <1>2, SessionsAssumption DEF Tips, FamilyOf
          <6> QED
            BY <6>1, <4>1, <4>3, <1>1, SessionsAssumption
        <5> QED
          BY <5>1
      <4> QED
        BY <3>3, <4>2, <4>3 DEF Tips, FamilyOf
    <3> QED
      BY <3>1, <3>3, <1>4 DEF FamilyIsAChain
  <2>2. CASE tokens[t].rotatedAt # NULL
    BY <2>2, <1>1, <1>4 DEF MarkRotated, FamilyIsAChain
  <2> QED
    BY <2>1, <2>2
<1> QED
  BY <1>6, <1>7

\* The successor takes the place of the request that issues it, and a session
\* of its own opens a family nobody names yet.
LEMMA IssueTips ==
  ASSUME SInv, FamilyIsAChain, FamilyGoesOn, NEW w \in Worker, Issue(w)
  PROVE  FamilyIsAChain' /\ FamilyGoesOn'
<1>1. /\ req[w] \in ReqState /\ ReqOK(req[w], tokens) /\ req[w].pc = "issuing"
      /\ req[w].org \in Org
  BY SessionsAssumption DEF SInv, TypeOK, Issue, ReqOK, ReqState
<1>2. PICK n \in Token :
        /\ tokens[n] = NULL
        /\ tokens' = [tokens EXCEPT ![n] =
             [org |-> req[w].org,
              family |-> IF req[w].family = NULL THEN n ELSE req[w].family,
              expiresAt |-> clock + Ttl, rotatedAt |-> NULL, revokedAt |-> NULL]]
        /\ req' = [req EXCEPT ![w] = [Idle EXCEPT !.pc = "answering", !.token = n]]
  BY DEF Issue
<1>3. PICK g \in Token : /\ g = IF req[w].family = NULL THEN n ELSE req[w].family
                         /\ g = n \/ tokens[g] # NULL
  BY <1>1 DEF ReqOK, ReqState
<1>t. PICK o \in Org :
        tokens' = [tokens EXCEPT ![n] = [org |-> o, family |-> g, expiresAt |-> clock + Ttl,
                                         rotatedAt |-> NULL, revokedAt |-> NULL]]
  BY <1>1, <1>2, <1>3
<1>4. /\ tokens'[n] # NULL /\ tokens'[n].family = g /\ tokens'[n].rotatedAt = NULL
      /\ \A u \in Token \ {n} : tokens'[u] = tokens[u]
  <2> DEFINE row == [org |-> o, family |-> g, expiresAt |-> clock + Ttl,
                     rotatedAt |-> NULL, revokedAt |-> NULL]
  <2>1. row \in Row
    BY SessionsAssumption DEF Row, SInv, TypeOK
  <2>2. row # NULL /\ row.family = g /\ row.rotatedAt = NULL
    BY <2>1, SessionsAssumption
  <2>3. tokens' = [tokens EXCEPT ![n] = row]
    BY <1>t
  <2> HIDE DEF row
  <2> QED
    BY <2>2, <2>3 DEF SInv, TypeOK
<1>5. /\ req'[w].pc = "answering"
      /\ \A v \in Worker \ {w} : req'[v] = req[v]
      /\ missed' = missed /\ faults' = faults
  BY <1>2 DEF Issue, Idle, SInv, TypeOK
<1>6. req[w].family # NULL => g = req[w].family
  BY <1>3
<1>7. req[w].family = NULL => g = n
  BY <1>3
<1>8. ASSUME NEW f \in Token, f # g
      PROVE  FamilyOf(f)' = FamilyOf(f) /\ Tips(f)' = Tips(f)
  <2>1. FamilyOf(f)' = FamilyOf(f)
    BY <1>2, <1>4, <1>8 DEF FamilyOf
  <2>2. req[w].family # f
    BY <1>6, <1>8, SessionsAssumption
  <2> QED
    BY <2>1, <2>2, <1>1, <1>2, <1>4, <1>5, <1>8 DEF Tips, FamilyOf
<1>9. n \in Tips(g)'
  BY <1>4 DEF Tips, FamilyOf
<1>10. ASSUME g \notin missed, NEW x \in Tips(g)'
       PROVE  x = n
  <2>1. SUFFICES ASSUME x # n PROVE FALSE
    OBVIOUS
  <2>2. x \in Tips(g) /\ x # w
    <3>1. CASE x \in Token
      <4>1. tokens'[x] = tokens[x] /\ x # w
        BY <3>1, <2>1, <1>4, SessionsAssumption
      <4> QED
        BY <4>1, <3>1, <1>10, SessionsAssumption DEF Tips, FamilyOf
    <3>2. CASE x \in Worker
      BY <3>2, <1>5, <1>10, SessionsAssumption DEF Tips, FamilyOf
    <3> QED
      BY <3>1, <3>2, <1>10 DEF Tips, FamilyOf
  <2>3. CASE req[w].family = NULL
    <3>1. FamilyOf(n) = {}
      BY <1>2 DEF FamilyOf, SInv, Rooted
    <3>2. ~\E v \in Worker : req[v].family = n
      BY <1>2, SessionsAssumption DEF SInv, ReqOK
    <3> QED
      BY <3>1, <3>2, <2>2, <2>3, <1>7 DEF Tips
  <2>4. CASE req[w].family # NULL
    <3>1. w \in Tips(g)
      BY <2>4, <1>1, <1>6 DEF Tips
    <3> QED
      BY <3>1, <2>2, <1>3, <1>10 DEF FamilyIsAChain
  <2> QED
    BY <2>3, <2>4
<1>11. FamilyIsAChain'
  BY <1>5, <1>8, <1>10 DEF FamilyIsAChain
<1>12. FamilyGoesOn'
  BY <1>5, <1>8, <1>9 DEF FamilyGoesOn
<1> QED
  BY <1>11, <1>12

\* A crash only takes a tip away, and counts as a fault.
LEMMA CrashTips ==
  ASSUME SInv, FamilyIsAChain, NEW w \in Worker, Crash(w)
  PROVE  FamilyIsAChain' /\ FamilyGoesOn'
<1>1. /\ tokens' = tokens /\ missed' = missed /\ faults' # 0
      /\ req'[w].pc = "idle"
      /\ \A v \in Worker \ {w} : req'[v] = req[v]
  BY SessionsAssumption DEF Crash, Idle, SInv, TypeOK
<1>2. ASSUME NEW f \in Token
      PROVE  Tips(f)' \subseteq Tips(f)
  BY <1>1 DEF Tips, FamilyOf
<1> QED
  BY <1>1, <1>2 DEF FamilyIsAChain, FamilyGoesOn

LEMMA ChainStep ==
  ASSUME SInv, FamilyIsAChain, FamilyGoesOn, [Next]_vars
  PROVE  FamilyIsAChain' /\ FamilyGoesOn'
BY TipSteps, QuietTips, MarkTips, IssueTips, CrashTips

\* Outside the families where markRotated missed its row, at most one token of a
\* family can be rotated at any time, whatever requests overlap or crash; and
\* without a crash there always is one.
THEOREM FamiliesAreChains == Spec => [](FamilyIsAChain /\ FamilyGoesOn)
<1>1. Init => FamilyIsAChain /\ FamilyGoesOn
  BY DEF Init, Idle, FamilyIsAChain, FamilyGoesOn, Tips, FamilyOf
<1>2. SInv /\ FamilyIsAChain /\ FamilyGoesOn /\ [Next]_vars => (FamilyIsAChain /\ FamilyGoesOn)'
  BY ChainStep
<1> QED
  BY <1>1, <1>2, SInvAlways, PTL DEF Spec

\* While no request has crashed, every family has a token that is not rotated, or
\* a refresh that has rotated one and goes on to issue its successor.
THEOREM FamiliesGoOn == Spec => []FamilyGoesOn
BY FamiliesAreChains, PTL

-----------------------------------------------------------------------------
(* A closed family stays closed.                                           *)

\* The request r cannot add a token to family f.
Harmless(r, f) ==
  /\ r.pc \in {"rotating", "issuing"} => r.family # f
  /\ r.pc = "looked" /\ r.seen.family = f => IsSpent(r.seen)

\* No step adds an unspent token to a closed family.
LEMMA ClosedTable ==
  ASSUME SInv, [Next]_vars, NEW f \in Token, Closed(f)
  PROVE  /\ FamilyOf(f)' # {}
         /\ \A t \in FamilyOf(f)' : IsSpent(tokens'[t])
<1>1. Keeps(tokens, tokens')
  BY StepKeeps
<1>2. PICK t \in Token : tokens[t] # NULL /\ tokens[t].family = f
  BY DEF Closed, FamilyOf
<1>3. FamilyOf(f)' # {}
  BY <1>1, <1>2 DEF Keeps, FamilyOf
<1>4. ASSUME NEW u \in Token, tokens[u] # NULL, u \in FamilyOf(f)'
      PROVE  IsSpent(tokens'[u])
  <2>1. u \in FamilyOf(f)
    BY <1>1, <1>4 DEF Keeps, FamilyOf
  <2>2. tokens[u].rotatedAt # NULL \/ tokens[u].revokedAt # NULL
    BY <2>1 DEF Closed, IsSpent
  <2> QED
    BY <1>1, <1>4, <2>2 DEF Keeps, IsSpent
<1>5. ASSUME NEW u \in Token, tokens[u] = NULL, u \in FamilyOf(f)'
      PROVE  FALSE
  <2>1. tokens'[u] # NULL /\ tokens'[u].family = f
    BY <1>5 DEF FamilyOf
  <2>2. CASE \E w \in Worker : Issue(w)
    <3>1. PICK w \in Worker : Issue(w)
      BY <2>2
    <3>2. PICK n \in Token :
            /\ tokens[n] = NULL
            /\ tokens' = [tokens EXCEPT ![n] =
                 [org |-> req[w].org,
                  family |-> IF req[w].family = NULL THEN n ELSE req[w].family,
                  expiresAt |-> clock + Ttl, rotatedAt |-> NULL, revokedAt |-> NULL]]
      BY <3>1 DEF Issue
    <3>3. u = n
      BY <3>2, <2>1, <1>5 DEF SInv, TypeOK
    <3>4. f = IF req[w].family = NULL THEN n ELSE req[w].family
      BY <3>2, <3>3, <2>1 DEF SInv, TypeOK
    <3>5. req[w].family # f
      BY <3>1 DEF Closed, Issue
    <3>6. f # n
      BY <3>2, <1>2 DEF SInv, Rooted
    <3> QED
      BY <3>4, <3>5, <3>6
  <2>3. CASE \E w \in Worker : MarkRotated(w)
    <3>1. PICK w \in Worker : MarkRotated(w)
      BY <2>3
    <3>2. req[w].token \in Token /\ tokens[req[w].token] # NULL /\ req[w].now \in Nat
      BY <3>1 DEF SInv, TypeOK, MarkRotated, ReqOK
    <3> QED
      BY <3>1, <3>2, <2>1, <1>5, RotateTable DEF MarkRotated
  <2>4. CASE \E w \in Worker : Crash(w)
    BY <2>4, <2>1, <1>5 DEF Crash
  <2>5. CASE QuietStep
    BY <2>5, <2>1, <1>5 DEF QuietStep
  <2> QED
    BY <2>2, <2>3, <2>4, <2>5, TipSteps
<1> QED
  BY <1>3, <1>4, <1>5 DEF FamilyOf

\* No step lets a request into a closed family.
LEMMA ClosedRequests ==
  ASSUME SInv, [Next]_vars, NEW f \in Token, Closed(f), NEW v \in Worker
  PROVE  Harmless(req'[v], f)
<1>t. req \in [Worker -> ReqState] /\ NULL \notin Token
  BY SessionsAssumption DEF SInv, TypeOK, ReqState
<1>h. \A w \in Worker : Harmless(req[w], f) /\ ReqOK(req[w], tokens)
  BY DEF Closed, Harmless, SInv
<1>1. ASSUME NEW w \in Worker, NEW r \in ReqState, req' = [req EXCEPT ![w] = r], Harmless(r, f)
      PROVE  Harmless(req'[v], f)
  BY <1>1, <1>t, <1>h
<1>i. Idle \in ReqState /\ Harmless(Idle, f)
  BY IdleOK DEF Idle, Harmless
<1>2. CASE UNCHANGED vars \/ Tick
  BY <1>2, <1>h DEF vars, Tick
<1>3. ASSUME NEW w \in Worker, Step(w) \/ Crash(w)
      PROVE  Harmless(req'[v], f)
  <2>r. req[w] \in ReqState
    BY <1>t
  <2>1. CASE CheckSlug(w)
    <3>1. PICK s \in Slug : req' = [req EXCEPT ![w] = [Idle EXCEPT !.pc = "checked",
                                                        !.op = "register", !.slug = s]]
      BY <2>1 DEF CheckSlug
    <3> DEFINE r == [Idle EXCEPT !.pc = "checked", !.op = "register", !.slug = s]
    <3>2. r \in ReqState /\ Harmless(r, f)
      BY DEF Idle, ReqState, Harmless
    <3> HIDE DEF r
    <3> QED
      BY <3>1, <3>2, <1>1 DEF r
  <2>2. CASE Provision(w)
    <3>1. CASE Taken(req[w].slug)
      BY <3>1, <2>2, <1>1, <1>i DEF Provision
    <3>2. CASE ~Taken(req[w].slug)
      <4>1. PICK o \in Org : req' = [req EXCEPT ![w].pc = "issuing", ![w].slug = NULL,
                                                ![w].org = o]
        BY <3>2, <2>2 DEF Provision
      <4> DEFINE r == [req[w] EXCEPT !.pc = "issuing", !.slug = NULL, !.org = o]
      <4>2. req[w].family = NULL
        BY <2>2, <1>h DEF ReqOK, Provision
      <4>3. r \in ReqState /\ r.pc = "issuing" /\ r.family = NULL
        BY <4>2, <2>r, ProvisionedReq
      <4>4. req' = [req EXCEPT ![w] = r]
        BY <4>1, <1>t
      <4> HIDE DEF r
      <4> QED
        BY <4>3, <4>4, <1>1, <1>t DEF Harmless
    <3> QED
      BY <3>1, <3>2
  <2>3. CASE Login(w)
    <3>1. PICK o \in Org : req' = [req EXCEPT ![w] = [Idle EXCEPT !.pc = "issuing",
                                                       !.op = "login", !.org = o]]
      BY <2>3 DEF Login
    <3> DEFINE r == [Idle EXCEPT !.pc = "issuing", !.op = "login", !.org = o]
    <3>2. r \in ReqState /\ r.pc = "issuing" /\ r.family = NULL
      BY DEF Idle, ReqState
    <3> HIDE DEF r
    <3> QED
      BY <3>1, <3>2, <1>1, <1>t DEF Harmless, r
  <2>4. CASE Present(w)
    <3>1. PICK t \in held, op \in {"refresh", "logout"} :
            req' = [req EXCEPT ![w] = [Idle EXCEPT !.pc = "presented", !.op = op, !.token = t]]
      BY <2>4 DEF Present
    <3> DEFINE r == [Idle EXCEPT !.pc = "presented", !.op = op, !.token = t]
    <3>2. r \in ReqState /\ Harmless(r, f)
      BY DEF Idle, ReqState, SInv, TypeOK, Harmless
    <3> HIDE DEF r
    <3> QED
      BY <3>1, <3>2, <1>1 DEF r
  <2>5. CASE Look(w)
    <3> DEFINE r == [req[w] EXCEPT !.pc = "looked", !.seen = tokens[req[w].token]]
    <3>1. /\ req[w].token \in Token /\ tokens[req[w].token] # NULL
          /\ tokens[req[w].token] \in Row \cup {NULL}
      BY <2>5, <2>r, <1>h DEF SInv, TypeOK, ReqOK, Look, ReqState
    <3>2. /\ r \in ReqState /\ r.pc = "looked" /\ r.seen = tokens[req[w].token]
          /\ req' = [req EXCEPT ![w] = r]
      BY <3>1, <2>5, <2>r, <1>t DEF ReqState, Look
    <3> HIDE DEF r
    <3>3. r.seen.family = f => IsSpent(r.seen)
      BY <3>1, <3>2 DEF Closed, FamilyOf
    <3> QED
      BY <3>2, <3>3, <1>1 DEF Harmless
  <2>6. CASE DecideLogout(w) \/ DecideRefresh(w)
    <3>1. /\ req[w].pc = "looked" /\ UNCHANGED tokens
          /\ \/ GoOn(w, "revoking")
             \/ GoOn(w, "rotating") /\ ~IsSpent(req[w].seen)
             \/ req' = [req EXCEPT ![w] = Idle]
      BY <2>6 DEF DecideLogout, DecideRefresh
    <3>2. CASE GoOn(w, "revoking")
      <4>1. PICK r \in ReqState : req' = [req EXCEPT ![w] = r] /\ r.pc = "revoking"
        BY <3>1, <3>2, GoOnOK
      <4> QED
        BY <4>1, <1>1 DEF Harmless
    <3>3. CASE GoOn(w, "rotating") /\ ~IsSpent(req[w].seen)
      <4>1. PICK r \in ReqState : /\ req' = [req EXCEPT ![w] = r] /\ r.pc = "rotating"
                                  /\ r.family = req[w].seen.family
        BY <3>1, <3>3, GoOnOK
      <4>2. req[w].seen.family # f
        BY <3>1, <3>3, <1>h DEF Harmless
      <4> QED
        BY <4>1, <4>2, <1>1 DEF Harmless
    <3> QED
      BY <3>1, <3>2, <3>3, <1>1, <1>i
  <2>7. CASE MarkRotated(w)
    <3> DEFINE r == [req[w] EXCEPT !.pc = "issuing", !.token = NULL, !.now = 0]
    <3>1. r \in ReqState /\ r.family = req[w].family /\ r.pc = "issuing"
      BY <2>r DEF ReqState
    <3>2. req' = [req EXCEPT ![w] = r]
      BY <2>7, <1>t DEF MarkRotated
    <3>3. req[w].family # f
      BY <2>7, <1>h DEF Harmless, MarkRotated
    <3> HIDE DEF r
    <3> QED
      BY <3>1, <3>2, <3>3, <1>1 DEF Harmless
  <2>8. CASE Issue(w)
    <3>1. PICK n \in Token :
            req' = [req EXCEPT ![w] = [Idle EXCEPT !.pc = "answering", !.token = n]]
      BY <2>8 DEF Issue
    <3> DEFINE r == [Idle EXCEPT !.pc = "answering", !.token = n]
    <3>2. r \in ReqState /\ Harmless(r, f)
      BY DEF Idle, ReqState, Harmless
    <3> HIDE DEF r
    <3> QED
      BY <3>1, <3>2, <1>1 DEF r
  <2>9. CASE Answer(w) \/ RevokeFamily(w) \/ Crash(w)
    BY <2>9, <1>1, <1>i DEF Answer, RevokeFamily, Crash
  <2> QED
    BY <1>3, <2>1, <2>2, <2>3, <2>4, <2>5, <2>6, <2>7, <2>8, <2>9 DEF Step
<1> QED
  BY <1>2, <1>3 DEF Next

\* A family closed by a logout or by the reuse of one of its tokens is never
\* opened again, whatever requests come later.
THEOREM ClosedStaysClosed == Spec => ClosedForGood
<1> DEFINE A == \A f \in Token : Closed(f) => Closed(f)'
<1>1. SInv /\ [Next]_vars => A
  <2> SUFFICES ASSUME SInv, [Next]_vars, NEW f \in Token, Closed(f)
               PROVE  Closed(f)'
    OBVIOUS
  <2>1. /\ FamilyOf(f)' # {}
        /\ \A t \in FamilyOf(f)' : IsSpent(tokens'[t])
    BY ClosedTable
  <2>2. \A v \in Worker : Harmless(req'[v], f)
    BY ClosedRequests
  <2> QED
    BY <2>1, <2>2 DEF Closed, Harmless
<1>2. SInv /\ [Next]_vars => [A]_vars
  BY <1>1
<1> QED
  BY <1>2, SInvAlways, PTL DEF Spec, ClosedForGood

-----------------------------------------------------------------------------
(* Refreshes that do not overlap.                                          *)

\* No token is refreshed by two requests at the same time.
InRefresh(w) == req[w].op = "refresh" /\ req[w].pc \in {"looked", "rotating"}

RefreshesApart ==
  \A v, w \in Worker : InRefresh(v) /\ InRefresh(w) /\ req[v].token = req[w].token => v = w

\* The token that a refresh is about to rotate is not rotated, and no update has
\* missed its row.
RotatesUnrotated(r, tk) ==
  /\ r.pc = "rotating" => r.op = "refresh" /\ tk[r.token].rotatedAt = NULL
  /\ r.pc = "looked" /\ r.op = "refresh" /\ ~IsSpent(r.seen) => tk[r.token].rotatedAt = NULL

ApartInv ==
  /\ missed = {}
  /\ \A w \in Worker : RotatesUnrotated(req[w], tokens)

\* A token is rotated by markRotated alone, and issued unrotated.
LEMMA RotatedBy ==
  ASSUME SInv, [Next]_vars, NEW t \in Token, tokens[t] # NULL,
         tokens[t].rotatedAt = NULL, tokens'[t].rotatedAt # NULL
  PROVE  \E w \in Worker : MarkRotated(w) /\ req[w].token = t
<1>1. CASE tokens' = tokens
  BY <1>1
<1>2. ASSUME NEW w \in Worker, MarkRotated(w), tokens' # tokens
      PROVE  req[w].token = t
  <2>1. req[w].token \in Token /\ tokens[req[w].token] # NULL /\ req[w].now \in Nat
    BY <1>2 DEF SInv, TypeOK, MarkRotated, ReqOK
  <2> QED
    BY <2>1, <1>2, RotateTable DEF MarkRotated
<1>3. ASSUME NEW w \in Worker, Issue(w)
      PROVE  tokens'[t] = tokens[t]
  BY <1>3 DEF Issue, SInv, TypeOK
<1>4. ASSUME NEW w \in Worker, RevokeFamily(w)
      PROVE  tokens'[t].rotatedAt = tokens[t].rotatedAt
  <2>1. req[w].family \in Token /\ req[w].now \in Nat
    BY <1>4 DEF SInv, TypeOK, RevokeFamily, ReqOK
  <2> QED
    BY <2>1, <1>4, RevokeTable DEF RevokeFamily
<1> QED
  BY <1>1, <1>2, <1>3, <1>4
     DEF Next, Step, Tick, Crash, CheckSlug, Provision, Login, Present, Look, DecideLogout,
         DecideRefresh, Answer, vars

\* Where the step of a request leaves it, and the others.
LEMMA Becomes ==
  ASSUME SInv, NEW w \in Worker, Step(w) \/ Crash(w)
  PROVE  /\ \A v \in Worker \ {w} : req'[v] = req[v]
         /\ \/ Look(w)
            \/ DecideRefresh(w) /\ GoOn(w, "rotating") /\ ~IsSpent(req[w].seen)
            \/ Provision(w) /\ ~Taken(req[w].slug)
            \/ Login(w) \/ MarkRotated(w)
            \/ req'[w].pc \notin {"looked", "rotating", "issuing"}
<1> DEFINE Elsewhere == req'[w].pc \notin {"looked", "rotating", "issuing"}
<1>t. req \in [Worker -> ReqState]
  BY DEF SInv, TypeOK, ReqState
<1>0. \A v \in Worker \ {w} : req'[v] = req[v]
  BY <1>t DEF Step, Crash, CheckSlug, Provision, Login, Present, Look, DecideLogout,
              DecideRefresh, GoOn, MarkRotated, Issue, Answer, RevokeFamily
<1>1. req' = [req EXCEPT ![w] = Idle] => Elsewhere
  BY <1>t DEF Idle
<1>2. GoOn(w, "revoking") => req'[w].pc = "revoking"
  BY <1>t DEF GoOn, ReqState
<1>3. CheckSlug(w) => Elsewhere
  BY <1>t DEF CheckSlug, Idle
<1>4. Present(w) => Elsewhere
  BY <1>t DEF Present, Idle
<1>5. Provision(w) => ~Taken(req[w].slug) \/ Elsewhere
  BY <1>1 DEF Provision
<1>6. DecideLogout(w) => Elsewhere
  BY <1>2 DEF DecideLogout
<1>7. DecideRefresh(w) => (GoOn(w, "rotating") /\ ~IsSpent(req[w].seen)) \/ Elsewhere
  BY <1>1, <1>2 DEF DecideRefresh
<1>8. Issue(w) => Elsewhere
  BY <1>t DEF Issue, Idle
<1>9. Answer(w) \/ RevokeFamily(w) \/ Crash(w) => Elsewhere
  BY <1>1 DEF Answer, RevokeFamily, Crash
<1> QED
  BY <1>0, <1>3, <1>4, <1>5, <1>6, <1>7, <1>8, <1>9 DEF Step

\* What a step of w leaves of the other requests.
LEMMA OthersUnrotated ==
  ASSUME SInv, ApartInv, RefreshesApart, [Next]_vars,
         NEW v \in Worker, req'[v] = req[v],
         \A w \in Worker : MarkRotated(w) => w # v
  PROVE  RotatesUnrotated(req'[v], tokens')
<1> SUFFICES ASSUME InRefresh(v), tokens[req[v].token].rotatedAt = NULL
             PROVE  tokens'[req[v].token].rotatedAt = NULL
  BY DEF ApartInv, RotatesUnrotated, InRefresh
<1>1. req[v].token \in Token /\ tokens[req[v].token] # NULL
  BY DEF SInv, TypeOK, ReqOK, InRefresh
<1>2. ASSUME NEW w \in Worker, MarkRotated(w), req[w].token = req[v].token
      PROVE  FALSE
  <2>1. InRefresh(w)
    BY <1>2 DEF ApartInv, RotatesUnrotated, InRefresh, MarkRotated
  <2> QED
    BY <1>2, <2>1 DEF RefreshesApart
<1> QED
  BY <1>1, <1>2, RotatedBy

LEMMA ApartStep == SInv /\ ApartInv /\ RefreshesApart /\ [Next]_vars => ApartInv'
<1> SUFFICES ASSUME SInv, ApartInv, RefreshesApart, [Next]_vars
             PROVE  ApartInv'
  OBVIOUS
<1>t. req \in [Worker -> ReqState] /\ NULL \notin Token
  BY SessionsAssumption DEF SInv, TypeOK, ReqState
<1>1. missed' = {}
  <2>1. ASSUME NEW w \in Worker, MarkRotated(w) PROVE missed' = missed
    BY <2>1 DEF MarkRotated, ApartInv, RotatesUnrotated
  <2> QED
    BY <2>1 DEF ApartInv, Next, Step, Tick, Crash, CheckSlug, Provision, Login, Present, Look,
                DecideLogout, DecideRefresh, Issue, Answer, RevokeFamily, vars
<1>2. CASE UNCHANGED vars \/ Tick
  <2>1. req' = req /\ tokens' = tokens
    BY <1>2 DEF vars, Tick
  <2> QED
    BY <1>1, <2>1 DEF ApartInv
<1>3. ASSUME NEW w \in Worker, Step(w) \/ Crash(w)
      PROVE  ApartInv'
  <2>1. /\ \A v \in Worker \ {w} : req'[v] = req[v]
        /\ \/ Look(w)
           \/ DecideRefresh(w) /\ GoOn(w, "rotating") /\ ~IsSpent(req[w].seen)
           \/ req'[w].pc \notin {"looked", "rotating"}
    <3>1. MarkRotated(w) => req'[w].pc = "issuing"
      BY <1>t DEF MarkRotated, ReqState
    <3>2. Login(w) => req'[w].pc = "issuing"
      BY <1>t DEF Login, Idle
    <3>3. Provision(w) /\ ~Taken(req[w].slug) => req'[w].pc = "issuing"
      BY <1>t DEF Provision, ReqState
    <3> QED
      BY <1>3, <3>1, <3>2, <3>3, Becomes
  <2>2. \A v \in Worker : MarkRotated(v) => req'[v].pc = "issuing"
    BY <1>t DEF MarkRotated, ReqState
  <2>3. RotatesUnrotated(req'[w], tokens')
    <3>1. CASE req'[w].pc \notin {"looked", "rotating"}
      BY <3>1 DEF RotatesUnrotated
    <3>2. CASE Look(w)
      <4>1. /\ req'[w].pc = "looked" /\ req'[w].token = req[w].token
            /\ req'[w].seen = tokens[req[w].token] /\ tokens' = tokens
        BY <3>2, <1>t DEF Look, ReqState
      <4> QED
        BY <4>1 DEF RotatesUnrotated, IsSpent
    <3>3. CASE DecideRefresh(w) /\ GoOn(w, "rotating") /\ ~IsSpent(req[w].seen)
      <4>1. /\ req'[w].pc = "rotating" /\ req'[w].token = req[w].token
            /\ req'[w].op = req[w].op /\ tokens' = tokens
        BY <3>3, <1>t DEF DecideRefresh, GoOn, ReqState
      <4>2. req[w].op = "refresh" /\ req[w].pc = "looked"
        BY <3>3 DEF DecideRefresh
      <4> QED
        BY <3>3, <4>1, <4>2 DEF ApartInv, RotatesUnrotated
    <3> QED
      BY <2>1, <3>1, <3>2, <3>3
  <2>4. ASSUME NEW v \in Worker \ {w} PROVE RotatesUnrotated(req'[v], tokens')
    <3>1. CASE \E u \in Worker : MarkRotated(u) /\ u = v
      <4>1. req'[v].pc = "issuing"
        BY <2>2, <3>1
      <4> QED
        BY <4>1 DEF RotatesUnrotated
    <3>2. CASE \A u \in Worker : MarkRotated(u) => u # v
      BY <2>1, <3>2, OthersUnrotated
    <3> QED
      BY <3>1, <3>2
  <2> QED
    BY <1>1, <2>3, <2>4 DEF ApartInv
<1> QED
  BY <1>2, <1>3 DEF Next

\* Every family is a chain: of its tokens and the refreshes under way, one at most
\* can go on.
EveryFamilyIsAChain == \A f \in Token : \A x, y \in Tips(f) : x = y

\* The row count of markRotated, which the use case does not see, matters only
\* when two requests refresh one token at the same time: otherwise no refresh
\* ever misses its row, and no family ever branches.
THEOREM RefreshesApartKeepChains == Spec /\ []RefreshesApart => []EveryFamilyIsAChain
<1>1. Init => ApartInv
  BY DEF Init, ApartInv, RotatesUnrotated, Idle
<1>2. ApartInv /\ FamilyIsAChain => EveryFamilyIsAChain
  BY DEF ApartInv, FamilyIsAChain, EveryFamilyIsAChain
<1>3. Spec => []SInv /\ [][Next]_vars /\ []FamilyIsAChain
  BY SInvAlways, FamiliesAreChains, PTL DEF Spec
<1>4. Spec /\ []RefreshesApart => []ApartInv
  BY <1>1, <1>3, ApartStep, PTL DEF Spec
<1> QED
  BY <1>2, <1>3, <1>4, PTL

-----------------------------------------------------------------------------
(* The organization of a family.                                           *)

\* The tokens of a family are all of one organization, which is there.
FamiliesHaveOneHome ==
  \A t \in Token : tokens[t] # NULL =>
    /\ organizations[tokens[t].org] # NULL
    /\ \A u \in FamilyOf(tokens[t].family) : tokens[u].org = tokens[t].org

HomeTable(tk, orgs) ==
  \A t \in Token : tk[t] # NULL =>
    orgs[tk[t].org] # NULL /\ tk[t].org = tk[tk[t].family].org

\* So is the request that carries a family on.
HomeReq(r, tk, orgs) ==
  /\ r.pc = "looked" => r.seen.org = tk[r.token].org
  /\ r.pc \in {"rotating", "issuing"} =>
       orgs[r.org] # NULL /\ (r.family # NULL => r.org = tk[r.family].org)

HomeInv ==
  /\ HomeTable(tokens, organizations)
  /\ \A w \in Worker : HomeReq(req[w], tokens, organizations)

\* Organizations are never forgotten.
OrgsKept(orgs, orgs2) == \A o \in Org : orgs[o] # NULL => orgs2[o] # NULL

LEMMA StepKeepsOrgs ==
  ASSUME SInv, [Next]_vars
  PROVE  OrgsKept(organizations, organizations')
<1>1. ASSUME NEW w \in Worker, Provision(w)
      PROVE  OrgsKept(organizations, organizations')
  BY <1>1 DEF Provision, OrgsKept, SInv, TypeOK
<1> QED
  BY <1>1 DEF OrgsKept, Next, Step, Tick, Crash, CheckSlug, Login, Present, Look, DecideLogout,
              DecideRefresh, MarkRotated, Issue, Answer, RevokeFamily, vars

LEMMA KeptTable ==
  ASSUME NEW tk \in Table, NEW tk2 \in Table, NEW orgs, NEW orgs2,
         Keeps(tk, tk2), OrgsKept(orgs, orgs2), Rooted(tk), HomeTable(tk, orgs),
         NEW t \in Token, tk[t] # NULL
  PROVE  /\ orgs2[tk2[t].org] # NULL
         /\ tk2[t].org = tk2[tk2[t].family].org
<1>1. tk[t].org \in Org /\ tk[t].family \in Token /\ tk[tk[t].family] # NULL
  BY DEF Table, Row, Rooted
<1> QED
  BY <1>1 DEF Keeps, OrgsKept, HomeTable

LEMMA KeptReq ==
  ASSUME NEW tk \in Table, NEW tk2 \in Table, NEW orgs, NEW orgs2,
         Keeps(tk, tk2), OrgsKept(orgs, orgs2),
         NEW r \in ReqState, ReqOK(r, tk), HomeReq(r, tk, orgs)
  PROVE  HomeReq(r, tk2, orgs2)
<1>1. ASSUME r.pc = "looked" PROVE r.seen.org = tk2[r.token].org
  <2>1. r.token \in Token /\ tk[r.token] # NULL
    BY <1>1 DEF ReqState, ReqOK
  <2> QED
    BY <1>1, <2>1 DEF HomeReq, Keeps
<1>2. ASSUME r.pc \in {"rotating", "issuing"}
      PROVE  orgs2[r.org] # NULL /\ (r.family # NULL => r.org = tk2[r.family].org)
  <2>1. r.org \in Org
    BY <1>2 DEF ReqState, ReqOK
  <2>2. r.family # NULL => r.family \in Token /\ tk[r.family] # NULL
    BY DEF ReqState, ReqOK
  <2> QED
    BY <1>2, <2>1, <2>2 DEF HomeReq, OrgsKept, Keeps
<1> QED
  BY <1>1, <1>2 DEF HomeReq

LEMMA HomeStep == SInv /\ SInv' /\ HomeInv /\ [Next]_vars => HomeInv'
<1> SUFFICES ASSUME SInv, SInv', HomeInv, [Next]_vars
             PROVE  HomeInv'
  OBVIOUS
<1>t. /\ req \in [Worker -> ReqState] /\ tokens \in Table /\ tokens' \in Table
      /\ Rooted(tokens) /\ HomeTable(tokens, organizations)
      /\ organizations \in [Org -> Slug \cup {NULL}]
      /\ \A w \in Worker : /\ req[w] \in ReqState /\ ReqOK(req[w], tokens)
                           /\ HomeReq(req[w], tokens, organizations)
      /\ NULL \notin Token \cup Org \cup Slug
  BY SessionsAssumption DEF SInv, TypeOK, ReqState, Table, HomeInv
<1>k. Keeps(tokens, tokens') /\ OrgsKept(organizations, organizations')
  BY StepKeeps, StepKeepsOrgs
<1>1. \A w \in Worker : HomeReq(req[w], tokens', organizations')
  BY <1>t, <1>k, KeptReq
<1>2. \A t \in Token : tokens[t] # NULL =>
        /\ organizations'[tokens'[t].org] # NULL
        /\ tokens'[t].org = tokens'[tokens'[t].family].org
  BY <1>t, <1>k, KeptTable
<1>3. HomeTable(tokens', organizations')
  <2>1. ASSUME NEW w \in Worker, Issue(w) PROVE HomeTable(tokens', organizations')
    <3>1. PICK n \in Token :
            /\ tokens[n] = NULL
            /\ tokens' = [tokens EXCEPT ![n] =
                 [org |-> req[w].org,
                  family |-> IF req[w].family = NULL THEN n ELSE req[w].family,
                  expiresAt |-> clock + Ttl, rotatedAt |-> NULL, revokedAt |-> NULL]]
      BY <2>1 DEF Issue
    <3>2. /\ tokens'[n].org = req[w].org
          /\ tokens'[n].family = IF req[w].family = NULL THEN n ELSE req[w].family
          /\ \A u \in Token \ {n} : tokens'[u] = tokens[u]
      BY <1>t, <3>1 DEF Table
    <3>3. req[w].pc = "issuing" /\ HomeReq(req[w], tokens', organizations')
      BY <2>1, <1>1 DEF Issue
    <3>4. /\ organizations'[tokens'[n].org] # NULL
          /\ tokens'[n].org = tokens'[tokens'[n].family].org
      BY <3>2, <3>3 DEF HomeReq
    <3> QED
      BY <1>2, <3>2, <3>4 DEF HomeTable
  <2>2. ASSUME \A t \in Token : tokens'[t] # NULL => tokens[t] # NULL
        PROVE  HomeTable(tokens', organizations')
    BY <1>2, <2>2 DEF HomeTable
  <2>3. ASSUME NEW w \in Worker, MarkRotated(w)
        PROVE  \A t \in Token : tokens'[t] # NULL => tokens[t] # NULL
    <3>1. req[w].token \in Token /\ tokens[req[w].token] # NULL
      BY <2>3, <1>t DEF MarkRotated, ReqOK, ReqState
    <3> QED
      BY <2>3, <3>1, <1>t DEF MarkRotated, Table
  <2>4. ASSUME NEW w \in Worker, RevokeFamily(w)
        PROVE  \A t \in Token : tokens'[t] # NULL => tokens[t] # NULL
    BY <2>4 DEF RevokeFamily, FamilyOf
  <2>5. CASE tokens' = tokens
    BY <2>2, <2>5
  <2> QED
    BY <2>1, <2>2, <2>3, <2>4, <2>5
       DEF Next, Step, Tick, Crash, CheckSlug, Provision, Login, Present, Look, DecideLogout,
           DecideRefresh, Answer, vars
<1>4. CASE UNCHANGED vars \/ Tick
  <2>1. req' = req
    BY <1>4 DEF vars, Tick
  <2> QED
    BY <1>1, <1>3, <2>1 DEF HomeInv
<1>5. ASSUME NEW w \in Worker, Step(w) \/ Crash(w)
      PROVE  HomeInv'
  <2>1. HomeReq(req'[w], tokens', organizations')
    <3>1. CASE Look(w)
      <4>1. /\ req'[w].pc = "looked" /\ req'[w].seen = tokens[req[w].token]
            /\ req'[w].token = req[w].token /\ tokens' = tokens
        BY <3>1, <1>t DEF Look, ReqState
      <4> QED
        BY <4>1 DEF HomeReq
    <3>2. CASE DecideRefresh(w) /\ GoOn(w, "rotating")
      <4>1. /\ req'[w].pc = "rotating" /\ req'[w].org = req[w].seen.org
            /\ req'[w].family = req[w].seen.family
            /\ tokens' = tokens /\ organizations' = organizations
        BY <3>2, <1>t DEF DecideRefresh, GoOn, ReqState
      <4>2. /\ req[w].pc = "looked" /\ req[w].token \in Token /\ tokens[req[w].token] # NULL
            /\ req[w].seen.family = tokens[req[w].token].family
            /\ req[w].seen.org = tokens[req[w].token].org
        BY <3>2, <1>t DEF DecideRefresh, ReqOK, ReqState, HomeReq
      <4>3. /\ organizations[req[w].seen.org] # NULL
            /\ req[w].seen.org = tokens[req[w].seen.family].org
        BY <4>2, <1>t DEF HomeTable
      <4> QED
        BY <4>1, <4>3 DEF HomeReq
    <3>3. CASE Provision(w) /\ ~Taken(req[w].slug)
      <4>1. PICK o \in Org :
              /\ organizations' = [organizations EXCEPT ![o] = req[w].slug]
              /\ req' = [req EXCEPT ![w].pc = "issuing", ![w].slug = NULL, ![w].org = o]
        BY <3>3 DEF Provision
      <4>2. req[w].pc = "checked" /\ req[w].slug # NULL /\ req[w].family = NULL
        BY <3>3, <1>t DEF Provision, ReqOK
      <4>3. organizations'[o] # NULL
        BY <4>1, <4>2, <1>t
      <4>4. req'[w] = [req[w] EXCEPT !.pc = "issuing", !.slug = NULL, !.org = o]
        BY <4>1, <1>t
      <4> DEFINE p == [req[w] EXCEPT !.pc = "issuing", !.slug = NULL, !.org = o]
      <4>5. p.pc = "issuing" /\ p.org = o /\ p.family = req[w].family
        BY <1>t, ProvisionedReq
      <4> HIDE DEF p
      <4>6. req'[w].pc = "issuing" /\ req'[w].org = o /\ req'[w].family = NULL
        BY <4>2, <4>4, <4>5 DEF p
      <4> QED
        BY <4>3, <4>6 DEF HomeReq
    <3>4. CASE Login(w)
      <4>1. PICK o \in Org :
              /\ organizations[o] # NULL /\ organizations' = organizations
              /\ req' = [req EXCEPT ![w] = [Idle EXCEPT !.pc = "issuing", !.op = "login", !.org = o]]
        BY <3>4 DEF Login
      <4>2. req'[w].pc = "issuing" /\ req'[w].org = o /\ req'[w].family = NULL
        BY <4>1, <1>t DEF Idle
      <4> QED
        BY <4>1, <4>2 DEF HomeReq
    <3>5. CASE MarkRotated(w)
      <4>1. /\ req'[w].pc = "issuing" /\ req'[w].org = req[w].org
            /\ req'[w].family = req[w].family /\ req[w].pc = "rotating"
        BY <3>5, <1>t DEF MarkRotated, ReqState
      <4> QED
        BY <4>1, <1>1 DEF HomeReq
    <3>6. CASE req'[w].pc \notin {"looked", "rotating", "issuing"}
      BY <3>6 DEF HomeReq
    <3> QED
      BY <1>5, <3>1, <3>2, <3>3, <3>4, <3>5, <3>6, Becomes
  <2>2. \A v \in Worker \ {w} : req'[v] = req[v]
    BY <1>5, Becomes
  <2> QED
    BY <1>1, <1>3, <2>1, <2>2 DEF HomeInv
<1> QED
  BY <1>4, <1>5 DEF Next

\* Whatever requests interleave or die, a family stays with the organization it
\* was opened for, and no session is of an organization that was not provisioned:
\* refresh copies tenantId from the token it found, never from the request.
THEOREM FamiliesStayHome == Spec => []FamiliesHaveOneHome
<1>1. Init => HomeInv
  BY DEF Init, HomeInv, HomeTable, HomeReq, Idle
<1>2. SInv /\ HomeInv => FamiliesHaveOneHome
  <2> SUFFICES ASSUME SInv, HomeInv, NEW t \in Token, tokens[t] # NULL
               PROVE  /\ organizations[tokens[t].org] # NULL
                      /\ \A u \in FamilyOf(tokens[t].family) : tokens[u].org = tokens[t].org
    BY DEF FamiliesHaveOneHome
  <2>1. \A u \in FamilyOf(tokens[t].family) :
          u \in Token /\ tokens[u] # NULL /\ tokens[u].family = tokens[t].family
    BY DEF FamilyOf
  <2> QED
    BY <2>1 DEF HomeInv, HomeTable
<1> QED
  BY <1>1, <1>2, SInvInit, SInvStep, HomeStep, PTL DEF Spec
=============================================================================
