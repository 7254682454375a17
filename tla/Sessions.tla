------------------------------ MODULE Sessions ------------------------------
(***************************************************************************)
(* Registration, login, refresh and logout.  Unlike the ticket use cases,  *)
(* these have no transaction around them: each repository call is a        *)
(* transaction of its own, so requests interleave between any two of them. *)
(*                                                                         *)
(* An organization comes with its owner and the owner's membership, which  *)
(* no operation removes.  A family is named after its first token, which   *)
(* the code does with a uuid of its own.  Passwords and e-mails are left   *)
(* out: a request that fails on them changes nothing.                      *)
(***************************************************************************)
EXTENDS Integers, FiniteSets

CONSTANTS
  Worker,    \* concurrent request contexts
  Slug,
  Org,       \* tenant ids (uuids)
  Token,     \* bound: ids of the refresh tokens of a behaviour (uuids)
  NULL,      \* the SQL null
  Ttl,       \* JWT_REFRESH_TTL
  MaxTime,   \* bound: last clock reading
  MaxFaults  \* bound: crashes and failed queries of a behaviour

Row == [org : Org, family : Token, expiresAt : Nat,
        rotatedAt : Nat \cup {NULL}, revokedAt : Nat \cup {NULL}]

ASSUME SessionsAssumption ==
  /\ NULL \notin Nat \cup Slug \cup Org \cup Token \cup Row
  /\ Worker \cap Token = {}
  /\ Ttl \in Nat \ {0}
  /\ MaxTime \in Nat /\ MaxFaults \in Nat

VARIABLES
  organizations,  \* slug of each organization, NULL when absent
  tokens,         \* refresh_tokens, NULL when absent
  held,           \* tokens clients have received, and may present again
  missed,         \* history: families in which markRotated found no row to mark
  req,            \* the request of each worker
  clock,
  faults

vars == <<organizations, tokens, held, missed, req, clock, faults>>

\* A worker forgets what its request no longer needs.
Idle == [pc |-> "idle", op |-> "none", slug |-> NULL, org |-> NULL, token |-> NULL,
         seen |-> NULL, family |-> NULL, now |-> 0]

TypeOK ==
  /\ organizations \in [Org -> Slug \cup {NULL}]
  /\ tokens \in [Token -> Row \cup {NULL}]
  /\ held \subseteq Token
  /\ missed \subseteq Token
  /\ req \in [Worker ->
       [pc     : {"idle", "checked", "presented", "looked", "rotating", "revoking",
                  "issuing", "answering"},
        op     : {"none", "register", "login", "refresh", "logout"},
        slug   : Slug \cup {NULL},
        org    : Org \cup {NULL},
        token  : Token \cup {NULL},
        seen   : Row \cup {NULL},
        family : Token \cup {NULL},
        now    : Nat]]
  /\ clock \in 0..MaxTime
  /\ faults \in 0..MaxFaults

Init ==
  /\ organizations = [o \in Org |-> NULL]
  /\ tokens = [t \in Token |-> NULL]
  /\ held = {}
  /\ missed = {}
  /\ req = [w \in Worker |-> Idle]
  /\ clock = 0
  /\ faults = 0

-----------------------------------------------------------------------------
(* The refresh token.                                                      *)

IsSpent(row) == row.rotatedAt # NULL \/ row.revokedAt # NULL

IsExpired(row, now) == now >= row.expiresAt

FamilyOf(f) == {t \in Token : tokens[t] # NULL /\ tokens[t].family = f}

-----------------------------------------------------------------------------
(* Registration and login.                                                 *)

Taken(s) == \E o \in Org : organizations[o] = s

\* RegisterOrganization: existsBySlug; a slug in use ends the request.
CheckSlug(w) ==
  /\ req[w].pc = "idle"
  /\ \E s \in Slug : /\ ~Taken(s)
                     /\ req' = [req EXCEPT ![w] = [Idle EXCEPT !.pc = "checked",
                                                    !.op = "register", !.slug = s]]
  /\ UNCHANGED <<organizations, tokens, held, missed, clock, faults>>

\* A mutant: the slug has no unique index.
ProvisionAnyway(w) ==
  /\ req[w].pc = "checked"
  /\ \E o \in Org : /\ organizations[o] = NULL
                    /\ organizations' = [organizations EXCEPT ![o] = req[w].slug]
                    /\ req' = [req EXCEPT ![w].pc = "issuing", ![w].slug = NULL, ![w].org = o]
  /\ UNCHANGED <<tokens, held, missed, clock, faults>>

\* provision: organization, owner and membership at once.  The unique index on
\* the slug makes the transaction fail when another registration came first.
Provision(w) ==
  /\ req[w].pc = "checked"
  /\ IF Taken(req[w].slug)
       THEN /\ req' = [req EXCEPT ![w] = Idle]
            /\ UNCHANGED organizations
       ELSE \E o \in Org : /\ organizations[o] = NULL
                           /\ organizations' = [organizations EXCEPT ![o] = req[w].slug]
                           /\ req' = [req EXCEPT ![w].pc = "issuing", ![w].slug = NULL, ![w].org = o]
  /\ UNCHANGED <<tokens, held, missed, clock, faults>>

\* Login, up to the issue of a session: it only reads what never changes.
Login(w) ==
  /\ req[w].pc = "idle"
  /\ \E o \in Org : /\ organizations[o] # NULL
                    /\ req' = [req EXCEPT ![w] = [Idle EXCEPT !.pc = "issuing",
                                                   !.op = "login", !.org = o]]
  /\ UNCHANGED <<organizations, tokens, held, missed, clock, faults>>

-----------------------------------------------------------------------------
(* Refresh and logout.                                                     *)

\* verifyRefreshToken: the signature holds and the token has not expired.
Present(w) ==
  /\ req[w].pc = "idle"
  /\ \E t \in held, op \in {"refresh", "logout"} :
       /\ ~IsExpired(tokens[t], clock)
       /\ req' = [req EXCEPT ![w] = [Idle EXCEPT !.pc = "presented", !.op = op, !.token = t]]
  /\ UNCHANGED <<organizations, tokens, held, missed, clock, faults>>

\* findByHash.
Look(w) ==
  /\ req[w].pc = "presented"
  /\ req' = [req EXCEPT ![w].pc = "looked", ![w].seen = tokens[req[w].token]]
  /\ UNCHANGED <<organizations, tokens, held, missed, clock, faults>>

\* The request goes on to pc with the copy of the token it has read.
GoOn(w, pc) ==
  LET seen == req[w].seen
  IN  req' = [req EXCEPT ![w] = [@ EXCEPT !.pc = pc, !.seen = NULL, !.org = seen.org,
                                          !.family = seen.family, !.now = clock]]

\* Logout revokes the family of the token, spent or not.
DecideLogout(w) ==
  /\ req[w].pc = "looked"
  /\ req[w].op = "logout"
  /\ GoOn(w, "revoking")
  /\ UNCHANGED <<organizations, tokens, held, missed, clock, faults>>

\* A mutant: a spent token is rotated like any other.
DecideRefreshOfAny(w) ==
  LET seen == req[w].seen
  IN  /\ req[w].pc = "looked"
      /\ req[w].op = "refresh"
      /\ \/ ~IsExpired(seen, clock) /\ GoOn(w, "rotating")
         \/ IsExpired(seen, clock) /\ req' = [req EXCEPT ![w] = Idle]
      /\ UNCHANGED <<organizations, tokens, held, missed, clock, faults>>

\* RefreshTokens: the reuse of a spent token revokes the family, an expired one
\* is refused.  The decision is about the copy that was read.
DecideRefresh(w) ==
  LET seen == req[w].seen
  IN  /\ req[w].pc = "looked"
      /\ req[w].op = "refresh"
      /\ \/ IsSpent(seen) /\ GoOn(w, "revoking")
         \/ ~IsSpent(seen) /\ ~IsExpired(seen, clock) /\ GoOn(w, "rotating")
         \/ ~IsSpent(seen) /\ IsExpired(seen, clock) /\ req' = [req EXCEPT ![w] = Idle]
      /\ UNCHANGED <<organizations, tokens, held, missed, clock, faults>>

\* A mutant: the update finds no row, because its condition is wrong.
MarkNothing(w) ==
  /\ req[w].pc = "rotating"
  /\ req' = [req EXCEPT ![w].pc = "issuing", ![w].token = NULL, ![w].now = 0]
  /\ UNCHANGED <<organizations, tokens, held, missed, clock, faults>>

\* markRotated: an update WHERE rotated_at IS NULL, whose row count the use case
\* does not see.  It goes on to issue whether or not it marked the token.
MarkRotated(w) ==
  LET t == req[w].token
  IN  /\ req[w].pc = "rotating"
      /\ IF tokens[t].rotatedAt = NULL
           THEN /\ tokens' = [tokens EXCEPT ![t].rotatedAt = req[w].now]
                /\ UNCHANGED missed
           ELSE /\ missed' = missed \cup {req[w].family}
                /\ UNCHANGED tokens
      /\ req' = [req EXCEPT ![w].pc = "issuing", ![w].token = NULL, ![w].now = 0]
      /\ UNCHANGED <<organizations, held, clock, faults>>

\* A mutant: every session opens a family of its own.
IssueNewFamily(w) ==
  /\ req[w].pc = "issuing"
  /\ \E n \in Token :
       /\ tokens[n] = NULL
       /\ tokens' = [tokens EXCEPT ![n] =
            [org |-> req[w].org, family |-> n, expiresAt |-> clock + Ttl,
             rotatedAt |-> NULL, revokedAt |-> NULL]]
       /\ req' = [req EXCEPT ![w] = [Idle EXCEPT !.pc = "answering", !.token = n]]
  /\ UNCHANGED <<organizations, held, missed, clock, faults>>

\* SessionIssuer.issue: a new family, or the next token of the family.
Issue(w) ==
  /\ req[w].pc = "issuing"
  /\ \E n \in Token :
       /\ tokens[n] = NULL
       /\ tokens' = [tokens EXCEPT ![n] =
            [org |-> req[w].org,
             family |-> IF req[w].family = NULL THEN n ELSE req[w].family,
             expiresAt |-> clock + Ttl, rotatedAt |-> NULL, revokedAt |-> NULL]]
       /\ req' = [req EXCEPT ![w] = [Idle EXCEPT !.pc = "answering", !.token = n]]
  /\ UNCHANGED <<organizations, held, missed, clock, faults>>

\* respondWithSession: the token reaches the client.
Answer(w) ==
  /\ req[w].pc = "answering"
  /\ held' = held \cup {req[w].token}
  /\ req' = [req EXCEPT ![w] = Idle]
  /\ UNCHANGED <<organizations, tokens, missed, clock, faults>>

\* revokeFamily: the tokens of the family that are there now.
RevokeFamily(w) ==
  /\ req[w].pc = "revoking"
  /\ tokens' = [t \in Token |-> IF t \in FamilyOf(req[w].family) /\ tokens[t].revokedAt = NULL
                                  THEN [tokens[t] EXCEPT !.revokedAt = req[w].now]
                                  ELSE tokens[t]]
  /\ req' = [req EXCEPT ![w] = Idle]
  /\ UNCHANGED <<organizations, held, missed, clock, faults>>

\* The process dies, a query fails or the answer is lost: what was committed stays.
Crash(w) ==
  /\ req[w].pc # "idle"
  /\ faults < MaxFaults
  /\ faults' = faults + 1
  /\ req' = [req EXCEPT ![w] = Idle]
  /\ UNCHANGED <<organizations, tokens, held, missed, clock>>

Tick ==
  /\ clock < MaxTime
  /\ clock' = clock + 1
  /\ UNCHANGED <<organizations, tokens, held, missed, req, faults>>

-----------------------------------------------------------------------------
Step(w) ==
  \/ CheckSlug(w) \/ Provision(w) \/ Login(w)
  \/ Present(w) \/ Look(w) \/ DecideLogout(w) \/ DecideRefresh(w)
  \/ MarkRotated(w) \/ Issue(w) \/ Answer(w) \/ RevokeFamily(w)

Next == Tick \/ \E w \in Worker : Step(w) \/ Crash(w)

Spec == Init /\ [][Next]_vars

-----------------------------------------------------------------------------
(* Safety.                                                                 *)

\* Two registrations that both found the slug free do not both get it.
OneOrganizationPerSlug ==
  \A o, p \in Org : organizations[o] # NULL /\ organizations[o] = organizations[p] => o = p

\* Where a family may go on: the tokens that were never rotated, and the
\* refreshes that rotated one and have not saved its successor yet.
Tips(f) == {t \in FamilyOf(f) : tokens[t].rotatedAt = NULL}
             \cup {w \in Worker : req[w].pc = "issuing" /\ req[w].family = f}

\* A family is a chain: one token at a time can be rotated, except where two
\* refreshes of one token overlapped, which is exactly where markRotated found
\* no row.
FamilyIsAChain ==
  \A f \in Token \ missed : \A x, y \in Tips(f) : x = y

\* Without a crash no family comes to a dead end: a token is rotated only
\* by a request that goes on to issue its successor.
FamilyGoesOn ==
  faults = 0 => \A f \in Token : FamilyOf(f) # {} => Tips(f) # {}

-----------------------------------------------------------------------------
(* Action properties.                                                      *)

\* No token of the family can be rotated, and no refresh is under way that read
\* one before it was spent.
Closed(f) ==
  /\ FamilyOf(f) # {}
  /\ \A t \in FamilyOf(f) : IsSpent(tokens[t])
  /\ \A w \in Worker :
       /\ req[w].pc \in {"rotating", "issuing"} => req[w].family # f
       /\ req[w].pc = "looked" /\ req[w].seen.family = f => IsSpent(req[w].seen)

\* A family revoked by a logout or by the reuse of a token never comes back to
\* life, except by a refresh that was under way when it was revoked.
ClosedForGood == [][\A f \in Token : Closed(f) => Closed(f)']_vars

\* Tokens are never forgotten, and the instants of their rotation and revocation
\* are those of the first request that marked them, whichever requests repeat it.
MarksAreFinal ==
  [][\A t \in Token : tokens[t] # NULL =>
       /\ tokens'[t] # NULL
       /\ \A field \in {"org", "family", "expiresAt"} : tokens'[t][field] = tokens[t][field]
       /\ \A field \in {"rotatedAt", "revokedAt"} :
            tokens[t][field] # NULL => tokens'[t][field] = tokens[t][field]]_vars
=============================================================================
