-------------------------------- MODULE Identity --------------------------------
(***************************************************************************)
(* Accounts and tokens (modules/identity): first logins of ERP users,          *)
(* registration of external students, guests, the rotation of refresh tokens,  *)
(* and the in-process cache of roles (core/cache.py).                          *)
(*                                                                         *)
(* A request is one transaction: the account, its role and its token are       *)
(* committed together by get_db.  Two requests may create the same account:     *)
(* the unique indexes on email and erp_user_id make the second INSERT wait for   *)
(* the first transaction and fail if that one commits.                         *)
(***************************************************************************)
EXTENDS Integers, Sequences, FiniteSets, SequencesExt, TLC

CONSTANTS
  Persons,     \* ERP users
  Visitors,    \* external students
  Guests,      \* guest sessions
  Mail,        \* the email address of each of them
  OwnMail,     \* the address made up for an ERP user who logs in by token
  Workers,     \* requests that may be in flight
  MaxRequests, \* bound: requests
  MaxEvents    \* bound: expiries, sync of a user, crashes, seeding

ASSUME IdentityAssumption ==
  /\ DOMAIN Mail = Persons \cup Visitors \cup Guests /\ DOMAIN OwnMail = Persons
  /\ IsFiniteSet(Workers)
  /\ Persons \cap Visitors = {} /\ Guests \cap (Persons \cup Visitors) = {}
  /\ \A g \in Guests : \A q \in (DOMAIN Mail) \ {g} : Mail[q] # Mail[g]
  /\ \A q \in DOMAIN Mail : Mail[q] # "none"          \* "none" stands for no address
  /\ \A p \in Persons : OwnMail[p] # "none"
  /\ {MaxRequests, MaxEvents} \subseteq Nat

Everyone == Persons \cup Visitors \cup Guests

VARIABLES
  users,     \* the committed rows of users, with the roles of user_roles
  tokens,    \* refresh_tokens, each with the roles of the access token it came with
  roles      \* the role a new account gets: not there, seeded later, there from the start
VARIABLES
  cache,     \* _role_permission_cache for that role: what it has, and the request
             \* in flight whose session loaded it
  work,      \* the requests
  lost,      \* history variable: such a request was rolled back
  spent      \* how much of the bounds is used

vars == <<users, tokens, roles, cache, work, lost, spent>>

NoAccount == [status |-> "none", role |-> FALSE, from |-> "nowhere", mail |-> "none"]

NoSession == "no session"

Cache(role, session) == [role |-> role, session |-> session]
Unset == Cache("unset", NoSession)

Idle == [step  |-> "idle",
         kind  |-> "none",    \* token, credentials: logins through the ERP; register; login; guest
         who   |-> "none",
         new   |-> FALSE,     \* the account was inserted by this transaction
         role  |-> FALSE,     \* and its role
         token |-> 0]         \* the refresh token presented

Init ==
  /\ users = [p \in Everyone |-> NoAccount]
  /\ tokens = <<>>
  /\ roles \in {"absent", "present"}
  /\ cache = Unset
  /\ work = [w \in Workers |-> Idle]
  /\ lost = FALSE
  /\ spent = [requests |-> 0, events |-> 0]

-----------------------------------------------------------------------------
(* Creating an account.                                                      *)

Exists(p) == users[p].status # "none"

\* The email of the row a request inserts.
Address(w) == IF work[w].kind = "token" THEN OwnMail[work[w].who] ELSE Mail[work[w].who]

Taken(mail) == \E q \in Everyone : users[q].mail = mail

\* Another transaction has inserted a row with the same email or ERP id.
Held(w, p, mail) ==
  \E v \in Workers \ {w} : work[v].new /\ (work[v].who = p \/ Address(v) = mail)

Created(w) == [status |-> "ACTIVE", role |-> work[w].role, from |-> "login",
               mail |-> Address(w)]

Goes(w, step) == work' = [work EXCEPT ![w].step = step]

Ask(w, kind, p) ==
  /\ work[w].step = "idle"
  /\ spent.requests < MaxRequests
  /\ spent' = [spent EXCEPT !.requests = @ + 1]
  /\ work' = [work EXCEPT ![w] = [Idle EXCEPT !.step = "look up", !.kind = kind, !.who = p]]
  /\ UNCHANGED <<users, tokens, roles, cache, lost>>

\* The ERP has vouched for the person.
ErpLogin(w) == \E p \in Persons, kind \in {"token", "credentials"} : Ask(w, kind, p)

Register(w) == \E v \in Visitors : Ask(w, "register", v)

LocalLogin(w) == \E v \in Visitors : Ask(w, "login", v)

\* A guest session is a new account each time, under a random address.
Guest(w) == \E g \in Guests : /\ ~Exists(g)
                              /\ \A v \in Workers : work[v].who # g
                              /\ Ask(w, "guest", g)

\* get_by_erp_user_id, get_by_email.  A login through an ERP token does not look
\* at the status of the account.
LookUp(w) ==
  /\ work[w].step = "look up"
  /\ LET p     == work[w].who
         kind  == work[w].kind
     IN Goes(w, CASE kind = "token"       -> IF Exists(p) THEN "issue" ELSE "insert"
                  [] kind = "credentials" -> IF ~Exists(p) THEN "insert"
                                             ELSE IF users[p].status = "ACTIVE" THEN "issue"
                                             ELSE "refused"
                  [] kind = "register"    -> IF Taken(Mail[p]) THEN "refused" ELSE "insert"
                  [] kind = "guest"       -> "insert"
                  [] kind = "login"       -> IF users[p].status = "ACTIVE" THEN "issue"
                                             ELSE "refused")
  /\ UNCHANGED <<users, tokens, roles, cache, lost, spent>>

\* The INSERT: it waits while another transaction holds the key.
Insert(w) ==
  /\ work[w].step = "insert"
  /\ ~Held(w, work[w].who, Address(w))
  /\ IF Exists(work[w].who) \/ Taken(Address(w))
     THEN Goes(w, "again")
     ELSE work' = [work EXCEPT ![w].step = IF work[w].kind = "guest" THEN "issue" ELSE "role",
                               ![w].new  = TRUE]
  /\ UNCHANGED <<users, tokens, roles, cache, lost, spent>>

LookAgainUnrolled(w) ==              \* mutant: the session is not rolled back first
  /\ work[w].step = "again"
  /\ Goes(w, IF work[w].kind = "register" THEN "refused" ELSE "failed")
  /\ UNCHANGED <<users, tokens, roles, cache, lost, spent>>

\* After IntegrityError: the transaction is rolled back and the row of the other
\* request is read; without one the error is raised again.
LookAgain(w) ==
  /\ work[w].step = "again"
  /\ Goes(w, IF work[w].kind = "register" THEN "refused"
             ELSE IF Exists(work[w].who) THEN "issue" ELSE "failed")
  /\ UNCHANGED <<users, tokens, roles, cache, lost, spent>>

\* RoleRepository.get_by_name through get_or_set: a hit, what was found even if
\* that was nothing.  It is the object of another session: after the rollback of
\* that one its id cannot be read, and the request fails.
RoleCached(w) ==
  /\ work[w].step = "role"
  /\ cache # Unset
  /\ work' = [work EXCEPT
       ![w].step = IF cache.role = "expired" THEN "failed" ELSE "issue",
       ![w].role = cache.role = "found"]
  /\ UNCHANGED <<users, tokens, roles, cache, lost, spent>>

\* Or a miss: the query,
RoleQueried(w) ==
  /\ work[w].step = "role"
  /\ cache = Unset
  /\ work' = [work EXCEPT ![w].step = "keep", ![w].role = roles # "absent"]
  /\ UNCHANGED <<users, tokens, roles, cache, lost, spent>>

\* and then the store.
RoleKept(w) ==
  /\ work[w].step = "keep"
  /\ cache' = IF work[w].role THEN Cache("found", w) ELSE Cache("nothing", NoSession)
  /\ Goes(w, "issue")
  /\ UNCHANGED <<users, tokens, roles, lost, spent>>

NewToken(w, p, parent) ==
  [who |-> p, parent |-> parent, revoked |-> FALSE, expired |-> FALSE,
   role |-> users[p].role \/ work[w].role]

\* A commit expires nothing (expire_on_commit), and the session is closed after it.
Released(w) == IF cache.session = w THEN Cache(cache.role, NoSession) ELSE cache

IssueRoleless(w) ==                   \* mutant: the role is added after the commit
  /\ work[w].step = "issue"
  /\ LET p == work[w].who
     IN /\ tokens' = Append(tokens, [NewToken(w, p, 0) EXCEPT !.role = users[p].role])
        /\ users' = IF ~work[w].new THEN users
                    ELSE [users EXCEPT ![p] = Created(w)]
  /\ cache' = Released(w)
  /\ Goes(w, "answered")
  /\ UNCHANGED <<roles, lost, spent>>

\* issue_tokens, which reads the roles of the account, and the commit.  A guest gets
\* no refresh token.
Issue(w) ==
  /\ work[w].step = "issue"
  /\ LET p == work[w].who
     IN /\ tokens' = IF work[w].kind = "guest" THEN tokens
                     ELSE Append(tokens, NewToken(w, p, 0))
        /\ users' = IF ~work[w].new THEN users
                    ELSE [users EXCEPT ![p] = Created(w)]
  /\ cache' = Released(w)
  /\ Goes(w, "answered")
  /\ UNCHANGED <<roles, lost, spent>>

-----------------------------------------------------------------------------
(* Refresh and logout.                                                       *)

Valid(t) == ~tokens[t].revoked /\ ~tokens[t].expired

\* The token is found and is valid; the user's status is not looked at.
Present(w, kind) ==
  /\ work[w].step = "idle"
  /\ spent.requests < MaxRequests
  /\ spent' = [spent EXCEPT !.requests = @ + 1]
  /\ \E t \in DOMAIN tokens :
       /\ Valid(t)
       /\ work' = [work EXCEPT ![w] = [Idle EXCEPT !.step = kind, !.kind = kind,
                                                   !.who = tokens[t].who, !.token = t]]
  /\ UNCHANGED <<users, tokens, roles, cache, lost>>

Refresh(w) == Present(w, "rotate")

Logout(w) == Present(w, "revoke")

RotateUnrevoked(w) ==                 \* mutant: the revocation is not flushed
  /\ work[w].step = "rotate"
  /\ tokens' = Append(tokens, NewToken(w, work[w].who, work[w].token))
  /\ Goes(w, "answered")
  /\ UNCHANGED <<users, roles, cache, lost, spent>>

\* The old token is revoked, a new one is issued; one commit.
Rotate(w) ==
  /\ work[w].step = "rotate"
  /\ tokens' = Append([tokens EXCEPT ![work[w].token].revoked = TRUE],
                      NewToken(w, work[w].who, work[w].token))
  /\ Goes(w, "answered")
  /\ UNCHANGED <<users, roles, cache, lost, spent>>

Revoke(w) ==
  /\ work[w].step = "revoke"
  /\ tokens' = [tokens EXCEPT ![work[w].token].revoked = TRUE]
  /\ Goes(w, "answered")
  /\ UNCHANGED <<users, roles, cache, lost, spent>>

Done(w) ==
  /\ work[w].step \in {"answered", "refused", "failed"}
  /\ work' = [work EXCEPT ![w] = Idle]
  /\ UNCHANGED <<users, tokens, roles, cache, lost, spent>>

-----------------------------------------------------------------------------
(* What else happens.                                                        *)

Event == /\ spent.events < MaxEvents
         /\ spent' = [spent EXCEPT !.events = @ + 1]

\* The ERP sync creates an account without a role, or changes its status.
SyncUser ==
  /\ Event
  /\ \E p \in Persons :
       /\ \A w \in Workers :
            ~(work[w].new /\ (work[w].who = p \/ (~Exists(p) /\ Address(w) = Mail[p])))
       /\ IF Exists(p)
          THEN \E status \in {"ACTIVE", "INACTIVE"} :
                 users' = [users EXCEPT ![p].status = status]
          ELSE /\ ~Taken(Mail[p])
               /\ users' = [users EXCEPT ![p] = [status |-> "ACTIVE", role |-> FALSE,
                                                 from |-> "sync", mail |-> Mail[p]]]
  /\ UNCHANGED <<tokens, roles, cache, work, lost>>

\* scripts/seed_accounts.py and the seed data put the roles there.
Seed ==
  /\ Event
  /\ roles = "absent"
  /\ roles' = "late"
  /\ UNCHANGED <<users, tokens, cache, work, lost>>

\* Sixty seconds have passed.
CacheExpires ==
  /\ Event
  /\ cache # Unset
  /\ cache' = Unset
  /\ UNCHANGED <<users, tokens, roles, work, lost>>

TokenExpires ==
  /\ Event
  /\ \E t \in DOMAIN tokens :
       /\ ~tokens[t].expired
       /\ tokens' = [tokens EXCEPT ![t].expired = TRUE]
  /\ UNCHANGED <<users, roles, cache, work, lost>>

\* The connection of a request breaks: its transaction is rolled back, and what its
\* session loaded is expired, also the role in the cache.
Break(w) ==
  /\ Event
  /\ work[w].step # "idle"
  /\ work' = [work EXCEPT ![w] = Idle]
  /\ cache' = IF cache.session = w THEN Cache("expired", NoSession) ELSE cache
  /\ lost' = (lost \/ cache.session = w)
  /\ UNCHANGED <<users, tokens, roles>>

Step(w) ==
  \/ LookUp(w) \/ Insert(w) \/ LookAgain(w) \/ RoleCached(w) \/ RoleQueried(w) \/ RoleKept(w)
  \/ Issue(w) \/ Rotate(w) \/ Revoke(w) \/ Done(w)

\* The bound on requests is reached.
Quiet ==
  /\ spent.requests = MaxRequests
  /\ \A w \in Workers : work[w].step = "idle"
  /\ UNCHANGED vars

Next ==
  \/ \E w \in Workers :
       ErpLogin(w) \/ Register(w) \/ LocalLogin(w) \/ Guest(w)
                      \/ Refresh(w) \/ Logout(w) \/ Step(w) \/ Break(w)
  \/ SyncUser \/ Seed \/ CacheExpires \/ TokenExpires \/ Quiet

Spec == Init /\ [][Next]_vars

-----------------------------------------------------------------------------
(* Properties.                                                               *)

\* Where the roles were there from the start, every token of an account that a
\* login or a registration created carries the account's role, for the winner and
\* the loser of a race for the account alike (upsert_erp_user,
\* login_erp_with_credentials, issue_tokens).  An account that the ERP sync
\* created never gets one.
TokenCarriesRole ==
  \A t \in DOMAIN tokens :
    roles = "present" /\ users[tokens[t].who].from = "login" => tokens[t].role

\* "Old one revoked, new one issued" (refresh): a token is good for one exchange,
\* except that every request that presented it before the first of them committed
\* makes one more.  So it never has more successors than there are requests at a
\* time, however often it is presented and whatever breaks off; one at a time, one.
ExchangesBounded ==
  \A t \in DOMAIN tokens :
    Cardinality({c \in DOMAIN tokens : tokens[c].parent = t}) <= Cardinality(Workers)

\* A login or registration fails for two reasons only: someone else's account has
\* its email, and its INSERT was refused, or it has inserted its account and finds in
\* the cache the role object of a request that was rolled back.  Losing the race for
\* one's own first login is not an error (upsert_erp_user, get_by_name).
LoginFailsForReason ==
  \A w \in Workers : work[w].step = "failed" =>
    IF work[w].new THEN lost
    ELSE \E q \in Everyone \ {work[w].who} : users[q].mail = Address(w)

=============================================================================
