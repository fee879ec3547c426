----------------------------- MODULE IdentityProofs -----------------------------
(***************************************************************************)
(* Proofs about module Identity, for any number of persons, visitors, guests   *)
(* and requests in flight.                                                     *)
(***************************************************************************)
EXTENDS Identity, SequenceTheorems, FiniteSetTheorems, TLAPS

Steps == {"idle", "look up", "insert", "again", "role", "keep", "issue", "rotate", "revoke",
          "answered", "refused", "failed"}

Kinds == {"none", "token", "credentials", "register", "login", "guest", "rotate", "revoke"}

Addresses == {Mail[q] : q \in DOMAIN Mail} \cup {OwnMail[p] : p \in Persons}

Account == [status : {"none", "ACTIVE", "INACTIVE"}, role : BOOLEAN,
            from : {"nowhere", "login", "sync"}, mail : Addresses \cup {"none"}]

Token == [who : Persons \cup Visitors, parent : Nat, revoked : BOOLEAN,
          expired : BOOLEAN, role : BOOLEAN]

Role == [role : {"unset", "found", "nothing", "expired"}, session : Workers \cup {NoSession}]

Request == [step : Steps, kind : Kinds, who : Everyone \cup {"none"}, new : BOOLEAN,
            role : BOOLEAN, token : Nat]

\* Whose account a request is about, and the token it has found.
Asks(w) ==
  /\ work[w].step = "idle" <=> work[w].kind = "none"
  /\ work[w].kind \in {"token", "credentials"} => work[w].who \in Persons
  /\ work[w].kind \in {"register", "login"} => work[w].who \in Visitors
  /\ work[w].kind = "guest" => work[w].who \in Guests
  /\ work[w].kind \in {"rotate", "revoke"} =>
       /\ work[w].token \in DOMAIN tokens
       /\ work[w].who = tokens[work[w].token].who
       /\ work[w].step \in {"rotate", "revoke", "answered"}
  /\ work[w].step \in {"rotate", "revoke"} => work[w].kind = work[w].step

TypeInv ==
  /\ users \in [Everyone -> Account]
  /\ tokens \in Seq(Token)
  /\ roles \in {"absent", "late", "present"}
  /\ cache \in Role /\ (cache.role = "unset" => cache = Unset)
  /\ lost \in BOOLEAN
  /\ work \in [Workers -> Request]
  /\ \A w \in Workers : Asks(w)

-----------------------------------------------------------------------------
(* Types.                                                                    *)

\* A worker without a request.
LEMMA IdleTyped == Idle \in Request /\ Idle.step = "idle" /\ Idle.kind = "none" /\ ~Idle.new
BY DEF Idle, Request, Steps, Kinds

\* Nothing is wrong at the start.
LEMMA InitType == Init => TypeInv
<1> SUFFICES ASSUME Init PROVE TypeInv
  OBVIOUS
<1>1. NoAccount \in Account
  BY DEF NoAccount, Account
<1>2. Unset \in Role
  BY DEF Unset, Cache, Role
<1>3. /\ users \in [Everyone -> Account] /\ tokens \in Seq(Token)
      /\ roles \in {"absent", "late", "present"} /\ work \in [Workers -> Request]
  BY <1>1, IdleTyped DEF Init
<1>5. lost \in BOOLEAN
  BY DEF Init
<1>4. \A w \in Workers : Asks(w)
  BY IdleTyped DEF Init, Asks
<1> QED
  BY <1>2, <1>3, <1>4, <1>5 DEF Init, TypeInv

\* The address a request inserts its row under.
LEMMA AddressTyped ==
  ASSUME TypeInv, NEW w \in Workers, work[w].step # "idle",
         work[w].kind \notin {"rotate", "revoke"}
  PROVE  Address(w) \in Addresses /\ Address(w) # "none" /\ work[w].who \in Everyone
BY IdentityAssumption DEF TypeInv, Asks, Address, Addresses, Everyone, Request, Kinds

\* The tokens that are there stay, with the account they are for, what they were
\* exchanged for, and their role; one that was revoked stays revoked.
Kept ==
  /\ DOMAIN tokens \subseteq DOMAIN tokens'
  /\ \A t \in DOMAIN tokens :
       /\ tokens'[t].who = tokens[t].who /\ tokens'[t].parent = tokens[t].parent
       /\ tokens'[t].role = tokens[t].role
       /\ tokens[t].revoked => tokens'[t].revoked

\* An account and its role stay, as do the address and the origin of the account.
Lasting ==
  \A p \in Everyone :
    Exists(p) => /\ users'[p].status # "none" /\ users'[p].mail = users[p].mail
                 /\ users'[p].from = users[p].from /\ users'[p].role = users[p].role

\* What a login, a registration, a guest and the two uses of a token ask for.
Asked(w) ==
  \E kind \in Kinds, p \in Everyone :
    /\ Ask(w, kind, p)
    /\ \/ kind \in {"token", "credentials"} /\ p \in Persons
       \/ kind \in {"register", "login"} /\ p \in Visitors
       \/ kind = "guest" /\ p \in Guests

\* Every step is one of these.
LEMMA OneStep ==
  ASSUME [Next]_vars
  PROVE  \/ \E w \in Workers :
              \/ Asked(w) \/ LookUp(w) \/ Insert(w) \/ LookAgain(w)
              \/ RoleCached(w) \/ RoleQueried(w) \/ RoleKept(w) \/ Issue(w)
              \/ Present(w, "rotate") \/ Present(w, "revoke") \/ Rotate(w) \/ Revoke(w)
              \/ Done(w) \/ Break(w)
         \/ SyncUser \/ Seed \/ CacheExpires \/ TokenExpires \/ UNCHANGED vars
<1>1. ASSUME NEW w, ErpLogin(w) \/ Register(w) \/ LocalLogin(w) \/ Guest(w)
      PROVE  Asked(w)
  BY <1>1 DEF ErpLogin, Register, LocalLogin, Guest, Asked, Kinds, Everyone
<1> QED BY <1>1 DEF Next, Step, Refresh, Logout, Quiet

\* A transaction has inserted its account and not yet committed.
Inserting(w) == work[w].new /\ work[w].step \in {"role", "keep", "issue"}

\* Nobody inserts an account that is there, or one that another request inserts;
\* a request that did not insert an account, and every token, has one.
AccountInv ==
  /\ \A w \in Workers :
       /\ work[w].new => work[w].step \in {"role", "keep", "issue", "answered", "failed"}
       /\ work[w].step \in {"role", "keep"} => work[w].new /\ work[w].kind # "guest"
       /\ Inserting(w) =>
            /\ ~Exists(work[w].who)
            /\ \A v \in Workers \ {w} : Inserting(v) => work[v].who # work[w].who
       /\ work[w].step = "issue" /\ ~work[w].new => Exists(work[w].who)
  /\ \A t \in DOMAIN tokens : Exists(tokens[t].who)

\* Where the roles were there from the start, the cache never says otherwise, and the
\* role is in the request before it is in the account, and there before it is in a token.
RoleInv ==
  /\ roles = "present" =>
       /\ cache.role # "nothing"
       /\ \A w \in Workers :
            Inserting(w) /\ work[w].step # "role" /\ work[w].kind # "guest" => work[w].role
       /\ \A p \in Persons \cup Visitors : users[p].from = "login" => users[p].role
  /\ TokenCarriesRole

\* Whose address stood in the way of an INSERT still has it, and only the rollback of
\* a request has made the cached role unreadable.
MailInv ==
  /\ cache.role = "expired" => lost
  /\ \A p \in Everyone : users[p].mail # "none" => Exists(p)
  /\ \A w \in Workers : work[w].step = "again" =>
       Exists(work[w].who) \/ \E q \in Everyone \ {work[w].who} : users[q].mail = Address(w)
  /\ LoginFailsForReason

-----------------------------------------------------------------------------
(* What one step does to the request that takes it.                          *)

Moves(w, step, new, role) ==
  /\ \A v \in Workers \ {w} : work'[v] = work[v]
  /\ work'[w].step = step /\ work'[w].new = new /\ work'[w].role = role
  /\ work'[w].kind = work[w].kind /\ work'[w].who = work[w].who
  /\ work'[w].token = work[w].token

\* A request that only goes to another step.
LEMMA GoesOn ==
  ASSUME TypeInv, NEW w \in Workers, NEW step \in Steps, Goes(w, step)
  PROVE  work' \in [Workers -> Request] /\ Moves(w, step, work[w].new, work[w].role)
BY DEF TypeInv, Goes, Moves, Request

\* A request that takes its account or its role along.
LEMMA GoesWith ==
  ASSUME TypeInv, NEW w \in Workers, NEW step \in Steps, NEW new \in BOOLEAN,
         NEW role \in BOOLEAN,
         \/ work' = [work EXCEPT ![w].step = step, ![w].new = new] /\ role = work[w].role
         \/ work' = [work EXCEPT ![w].step = step, ![w].role = role] /\ new = work[w].new
  PROVE  work' \in [Workers -> Request] /\ Moves(w, step, new, role)
<1>1. work \in [Workers -> Request] /\ work[w] \in Request
  BY DEF TypeInv
<1>2. PICK r : /\ work' = [work EXCEPT ![w] = r]
               /\ \/ r = [[work[w] EXCEPT !.step = step] EXCEPT !.new = new] /\ role = work[w].role
                  \/ r = [[work[w] EXCEPT !.step = step] EXCEPT !.role = role] /\ new = work[w].new
  <2>1. CASE work' = [work EXCEPT ![w].step = step, ![w].new = new] /\ role = work[w].role
    <3> DEFINE r == [[work[w] EXCEPT !.step = step] EXCEPT !.new = new]
    <3>1. work' = [work EXCEPT ![w] = r]
      BY <1>1, <2>1
    <3> QED BY <2>1, <3>1
  <2>2. CASE work' = [work EXCEPT ![w].step = step, ![w].role = role] /\ new = work[w].new
    <3> DEFINE r == [[work[w] EXCEPT !.step = step] EXCEPT !.role = role]
    <3>1. work' = [work EXCEPT ![w] = r]
      BY <1>1, <2>2
    <3> QED BY <2>2, <3>1
  <2> QED BY <2>1, <2>2
<1>3. /\ r \in Request /\ r.step = step /\ r.new = new /\ r.role = role
      /\ r.kind = work[w].kind /\ r.who = work[w].who /\ r.token = work[w].token
  BY <1>1, <1>2 DEF Request
<1> QED BY <1>1, <1>2, <1>3 DEF Moves

\* The steps of a request that looks for, inserts or takes an account, before it
\* answers.
LEMMA BeforeAnswer ==
  ASSUME TypeInv, NEW w \in Workers
  PROVE  /\ LookUp(w) =>
              \E step \in {"issue", "insert", "refused"} :
                /\ Moves(w, step, work[w].new, work[w].role)
                /\ step = "issue" => Exists(work[w].who)
         /\ Insert(w) =>
              \/ /\ Moves(w, "again", work[w].new, work[w].role)
                 /\ Exists(work[w].who) \/ Taken(Address(w))
              \/ /\ Moves(w, IF work[w].kind = "guest" THEN "issue" ELSE "role",
                           TRUE, work[w].role)
                 /\ ~Exists(work[w].who) /\ ~Held(w, work[w].who, Address(w))
         /\ LookAgain(w) =>
              \E step \in {"issue", "failed", "refused"} :
                /\ Moves(w, step, work[w].new, work[w].role)
                /\ step = "issue" => Exists(work[w].who)
                /\ step = "failed" => ~Exists(work[w].who)
         /\ RoleCached(w) =>
              Moves(w, IF cache.role = "expired" THEN "failed" ELSE "issue",
                    work[w].new, cache.role = "found")
         /\ RoleQueried(w) => Moves(w, "keep", work[w].new, roles # "absent")
         /\ RoleKept(w) => Moves(w, "issue", work[w].new, work[w].role)
         /\ \/ LookUp(w) \/ Insert(w) \/ LookAgain(w) \/ RoleCached(w) \/ RoleQueried(w)
            \/ RoleKept(w) \/ Issue(w) \/ Rotate(w) \/ Revoke(w)
            => work' \in [Workers -> Request]
         /\ Issue(w) \/ Rotate(w) \/ Revoke(w) =>
              Moves(w, "answered", work[w].new, work[w].role)
<1> USE DEF Steps
<1>1. /\ work[w] \in Request
      /\ work[w].step # "idle" => work[w].kind # "none"
      /\ work[w].step \notin {"idle", "rotate", "revoke", "answered"} =>
           work[w].kind \in {"token", "credentials", "register", "login", "guest"}
  BY DEF TypeInv, Asks, Request, Kinds
<1>2. work[w].new \in BOOLEAN /\ work[w].role \in BOOLEAN
  BY <1>1 DEF Request
<1>3. ASSUME LookUp(w)
      PROVE  \E step \in {"issue", "insert", "refused"} :
               /\ Goes(w, step) /\ (step = "issue" => Exists(work[w].who))
  BY <1>1, <1>3 DEF LookUp, Exists
<1>4. ASSUME LookAgain(w)
      PROVE  \E step \in {"issue", "failed", "refused"} :
               /\ Goes(w, step)
               /\ (step = "issue" => Exists(work[w].who))
               /\ (step = "failed" => ~Exists(work[w].who))
  BY <1>4 DEF LookAgain
<1>5. ASSUME Insert(w), ~Goes(w, "again")
      PROVE  /\ ~Exists(work[w].who) /\ ~Held(w, work[w].who, Address(w))
             /\ work' = [work EXCEPT ![w].step = IF work[w].kind = "guest" THEN "issue"
                                                 ELSE "role", ![w].new = TRUE]
  BY <1>5 DEF Insert
<1>6. ASSUME Insert(w), Goes(w, "again")
      PROVE  Exists(work[w].who) \/ Taken(Address(w))
  <2>1. work'[w].step = "again"
    BY <1>6 DEF Goes, TypeInv
  <2>2. (IF work[w].kind = "guest" THEN "issue" ELSE "role") # "again"
    OBVIOUS
  <2>3. SUFFICES ASSUME ~(Exists(work[w].who) \/ Taken(Address(w))) PROVE FALSE
    OBVIOUS
  <2>4. work' = [work EXCEPT ![w].step = IF work[w].kind = "guest" THEN "issue" ELSE "role",
                             ![w].new  = TRUE]
    BY <1>6, <2>3 DEF Insert
  <2>5. work'[w].step = IF work[w].kind = "guest" THEN "issue" ELSE "role"
    BY <1>1, <2>4 DEF TypeInv, Request
  <2> QED BY <2>1, <2>2, <2>5
<1> DEFINE Typed == work' \in [Workers -> Request]
<1>7. ASSUME LookUp(w)
      PROVE  Typed /\ \E step \in {"issue", "insert", "refused"} :
                        /\ Moves(w, step, work[w].new, work[w].role)
                        /\ step = "issue" => Exists(work[w].who)
  BY <1>3, <1>7, GoesOn
<1>8. ASSUME LookAgain(w)
      PROVE  Typed /\ \E step \in {"issue", "failed", "refused"} :
                        /\ Moves(w, step, work[w].new, work[w].role)
                        /\ step = "issue" => Exists(work[w].who)
                        /\ step = "failed" => ~Exists(work[w].who)
  BY <1>4, <1>8, GoesOn
<1>9. ASSUME Insert(w)
      PROVE  /\ Typed
             /\ \/ /\ Moves(w, "again", work[w].new, work[w].role)
                   /\ Exists(work[w].who) \/ Taken(Address(w))
                \/ /\ Moves(w, IF work[w].kind = "guest" THEN "issue" ELSE "role",
                             TRUE, work[w].role)
                   /\ ~Exists(work[w].who) /\ ~Held(w, work[w].who, Address(w))
  <2>1. CASE Goes(w, "again")
    BY <1>6, <1>9, <2>1, GoesOn
  <2>2. CASE ~Goes(w, "again")
    BY ZenonT(120), <1>2, <1>5, <1>9, <2>2, GoesWith
  <2> QED BY <2>1, <2>2
<1>10. /\ RoleCached(w) =>
            Typed /\ Moves(w, IF cache.role = "expired" THEN "failed" ELSE "issue",
                           work[w].new, cache.role = "found")
       /\ RoleQueried(w) => Typed /\ Moves(w, "keep", work[w].new, roles # "absent")
  BY ZenonT(60), <1>2, GoesWith DEF RoleCached, RoleQueried
<1>11. RoleKept(w) => Typed /\ Moves(w, "issue", work[w].new, work[w].role)
  BY GoesOn DEF RoleKept
<1>12. Issue(w) \/ Rotate(w) \/ Revoke(w) =>
         Typed /\ Moves(w, "answered", work[w].new, work[w].role)
  BY GoesOn DEF Issue, Rotate, Revoke
<1> QED BY <1>7, <1>8, <1>9, <1>10, <1>11, <1>12

\* A request that begins, or ends, or whose connection breaks.
LEMMA BeginsOrEnds ==
  ASSUME TypeInv, NEW w \in Workers
  PROVE  /\ Asked(w) =>
              /\ work[w].step = "idle" /\ work'[w].step = "look up" /\ ~work'[w].new
              /\ \/ work'[w].kind \in {"token", "credentials"} /\ work'[w].who \in Persons
                 \/ work'[w].kind \in {"register", "login"} /\ work'[w].who \in Visitors
                 \/ work'[w].kind = "guest" /\ work'[w].who \in Guests
              /\ UNCHANGED <<users, tokens, roles, cache, lost>>
         /\ \A kind \in {"rotate", "revoke"} : Present(w, kind) =>
              /\ work[w].step = "idle" /\ work'[w].step = kind /\ work'[w].kind = kind
              /\ ~work'[w].new /\ ~work'[w].role /\ work'[w].token \in DOMAIN tokens
              /\ work'[w].who = tokens[work'[w].token].who
              /\ UNCHANGED <<users, tokens, roles, cache, lost>>
         /\ Done(w) \/ Break(w) => work'[w] = Idle /\ UNCHANGED <<users, tokens, roles>>
         /\ Done(w) => UNCHANGED <<cache, lost>>
         /\ Break(w) =>
              \/ UNCHANGED <<cache, lost>>
              \/ lost' /\ cache' = Cache("expired", NoSession)
         /\ Asked(w) \/ Present(w, "rotate") \/ Present(w, "revoke") \/ Done(w) \/ Break(w) =>
              /\ work' \in [Workers -> Request]
              /\ \A v \in Workers \ {w} : work'[v] = work[v]
<1>1. work \in [Workers -> Request] /\ tokens \in Seq(Token)
  BY DEF TypeInv
<1>2. ASSUME Asked(w)
      PROVE  /\ work[w].step = "idle" /\ work'[w].step = "look up" /\ ~work'[w].new
             /\ \/ work'[w].kind \in {"token", "credentials"} /\ work'[w].who \in Persons
                \/ work'[w].kind \in {"register", "login"} /\ work'[w].who \in Visitors
                \/ work'[w].kind = "guest" /\ work'[w].who \in Guests
             /\ UNCHANGED <<users, tokens, roles, cache, lost>>
             /\ work' \in [Workers -> Request]
             /\ \A v \in Workers \ {w} : work'[v] = work[v]
  <2>1. PICK kind \in Kinds, p \in Everyone :
          /\ Ask(w, kind, p)
          /\ \/ kind \in {"token", "credentials"} /\ p \in Persons
             \/ kind \in {"register", "login"} /\ p \in Visitors
             \/ kind = "guest" /\ p \in Guests
    BY <1>2 DEF Asked
  <2> DEFINE r == [Idle EXCEPT !.step = "look up", !.kind = kind, !.who = p]
  <2>2. r \in Request /\ r.step = "look up" /\ ~r.new /\ r.kind = kind /\ r.who = p
    BY IdleTyped DEF Request, Steps
  <2>3. work' = [work EXCEPT ![w] = r] /\ work[w].step = "idle"
        /\ UNCHANGED <<users, tokens, roles, cache, lost>>
    BY <2>1 DEF Ask
  <2> HIDE DEF r
  <2>4. work'[w] = r /\ work' \in [Workers -> Request]
        /\ \A v \in Workers \ {w} : work'[v] = work[v]
    BY <1>1, <2>2, <2>3
  <2> QED BY <2>1, <2>2, <2>3, <2>4
<1>3. ASSUME NEW kind \in {"rotate", "revoke"}, Present(w, kind)
      PROVE  /\ work[w].step = "idle" /\ work'[w].step = kind /\ work'[w].kind = kind
             /\ ~work'[w].new /\ ~work'[w].role /\ work'[w].token \in DOMAIN tokens
             /\ work'[w].who = tokens[work'[w].token].who
             /\ UNCHANGED <<users, tokens, roles, cache, lost>>
             /\ work' \in [Workers -> Request]
             /\ \A v \in Workers \ {w} : work'[v] = work[v]
  <2>1. PICK t \in DOMAIN tokens :
          work' = [work EXCEPT ![w] = [Idle EXCEPT !.step = kind, !.kind = kind,
                                                   !.who = tokens[t].who, !.token = t]]
    BY <1>3 DEF Present
  <2> DEFINE r == [Idle EXCEPT !.step = kind, !.kind = kind, !.who = tokens[t].who, !.token = t]
  <2>2. t \in Nat /\ tokens[t] \in Token
    BY <1>1, ElementOfSeq, LenProperties
  <2>3. tokens[t].who \in Everyone
    BY <2>2 DEF Token, Everyone
  <2>4. /\ r \in Request /\ r.step = kind /\ ~r.new /\ ~r.role /\ r.kind = kind /\ r.token = t
        /\ r.who = tokens[t].who
    BY <2>2, <2>3, IdleTyped DEF Request, Steps, Kinds, Idle
  <2>5. work' = [work EXCEPT ![w] = r] /\ work[w].step = "idle"
        /\ UNCHANGED <<users, tokens, roles, cache, lost>>
    BY <1>3, <2>1 DEF Present
  <2> HIDE DEF r
  <2>6. work'[w] = r /\ work' \in [Workers -> Request]
        /\ \A v \in Workers \ {w} : work'[v] = work[v]
    BY <1>1, <2>4, <2>5
  <2> QED BY <2>4, <2>5, <2>6
<1>4. ASSUME Done(w) \/ Break(w)
      PROVE  /\ work'[w] = Idle /\ UNCHANGED <<users, tokens, roles>>
             /\ Done(w) => UNCHANGED <<cache, lost>>
             /\ Break(w) =>
                  \/ UNCHANGED <<cache, lost>>
                  \/ lost' /\ cache' = Cache("expired", NoSession)
             /\ work' \in [Workers -> Request]
             /\ \A v \in Workers \ {w} : work'[v] = work[v]
  <2>1. Done(w) => work' = [work EXCEPT ![w] = Idle]
                   /\ UNCHANGED <<users, tokens, roles, cache, lost>>
    BY DEF Done
  <2>2. Break(w) => /\ work' = [work EXCEPT ![w] = Idle] /\ UNCHANGED <<users, tokens, roles>>
                    /\ \/ UNCHANGED <<cache, lost>>
                       \/ lost' /\ cache' = Cache("expired", NoSession)
    <3>1. CASE cache.session = w
      BY <3>1 DEF Break
    <3>2. CASE cache.session # w
      <4>1. Break(w) => lost' = (lost \/ FALSE) /\ cache' = cache
        BY <3>2 DEF Break
      <4> QED BY <3>2, <4>1 DEF Break, TypeInv
    <3> QED BY <3>1, <3>2
  <2> QED BY <1>1, <1>4, <2>1, <2>2, IdleTyped
<1> QED BY <1>2, <1>3, <1>4

-----------------------------------------------------------------------------
(* The tokens.                                                               *)

\* What a step writes to a token that is there.
Marks(s) ==
  /\ s \in Seq(Token) /\ Len(s) = Len(tokens)
  /\ \A t \in DOMAIN tokens :
       /\ s[t].who = tokens[t].who /\ s[t].parent = tokens[t].parent
       /\ s[t].role = tokens[t].role
       /\ tokens[t].revoked => s[t].revoked

\* Revoking a token, or its expiry, leaves everything else of it alone.
LEMMA MarksKeep ==
  ASSUME TypeInv, NEW i \in DOMAIN tokens
  PROVE  /\ Marks(tokens)
         /\ Marks([tokens EXCEPT ![i].revoked = TRUE])
         /\ [tokens EXCEPT ![i].revoked = TRUE][i].revoked
         /\ Marks([tokens EXCEPT ![i].expired = TRUE])
<1>1. tokens \in Seq(Token) /\ i \in 1 .. Len(tokens) /\ tokens[i] \in Token
  BY ElementOfSeq, LenProperties DEF TypeInv
<1> DEFINE r == [tokens[i] EXCEPT !.revoked = TRUE]
           e == [tokens[i] EXCEPT !.expired = TRUE]
<1>2. /\ r \in Token /\ r.who = tokens[i].who /\ r.parent = tokens[i].parent
      /\ r.role = tokens[i].role /\ r.revoked
      /\ e \in Token /\ e.who = tokens[i].who /\ e.parent = tokens[i].parent
      /\ e.role = tokens[i].role /\ e.revoked = tokens[i].revoked
  BY <1>1 DEF Token
<1>3. /\ [tokens EXCEPT ![i].revoked = TRUE] = [tokens EXCEPT ![i] = r]
      /\ [tokens EXCEPT ![i].expired = TRUE] = [tokens EXCEPT ![i] = e]
  OBVIOUS
<1> HIDE DEF r, e
<1>4. \A x \in Token : /\ [tokens EXCEPT ![i] = x] \in Seq(Token)
                       /\ Len([tokens EXCEPT ![i] = x]) = Len(tokens)
                       /\ [tokens EXCEPT ![i] = x][i] = x
                       /\ \A t \in DOMAIN tokens \ {i} :
                            [tokens EXCEPT ![i] = x][t] = tokens[t]
  BY <1>1, ExceptSeq, LenProperties
<1> QED BY <1>1, <1>2, <1>3, <1>4 DEF Marks

\* A token that is issued comes after those that are there.
LEMMA Issued ==
  ASSUME TypeInv, NEW s, Marks(s), NEW e \in Token, tokens' = Append(s, e)
  PROVE  /\ tokens' \in Seq(Token) /\ Len(tokens') = Len(tokens) + 1
         /\ DOMAIN tokens' = DOMAIN tokens \cup {Len(tokens) + 1}
         /\ tokens'[Len(tokens) + 1] = e
         /\ \A t \in DOMAIN tokens : tokens'[t] = s[t]
<1>1. s \in Seq(Token) /\ Len(s) = Len(tokens) /\ DOMAIN s = 1 .. Len(s) /\ Len(s) \in Nat
      /\ DOMAIN tokens = 1 .. Len(tokens)
  BY LenProperties DEF Marks, TypeInv
<1>2. /\ tokens' \in Seq(Token) /\ Len(tokens') = Len(s) + 1 /\ tokens'[Len(s) + 1] = e
      /\ \A t \in 1 .. Len(s) : tokens'[t] = s[t]
  BY <1>1, AppendProperties
<1>3. DOMAIN tokens' = 1 .. Len(tokens')
  BY <1>2, LenProperties
<1> QED BY <1>1, <1>2, <1>3

\* The token a request is given has the columns of the table.
LEMMA NewTokenTyped ==
  ASSUME TypeInv, NEW w \in Workers, NEW parent \in Nat,
         work[w].step # "idle", work[w].kind # "guest"
  PROVE  /\ NewToken(w, work[w].who, parent) \in Token
         /\ work[w].who \in Persons \cup Visitors
<1>1. /\ work[w] \in Request /\ tokens \in Seq(Token)
      /\ Asks(w) /\ users \in [Everyone -> Account]
  BY DEF TypeInv
<1>2. work[w].kind \in Kinds \ {"none", "guest"}
  BY <1>1 DEF Asks, Request
<1>3. work[w].who \in Persons \cup Visitors
  <2>1. CASE work[w].kind \in {"rotate", "revoke"}
    <3>1. tokens[work[w].token] \in Token /\ work[w].who = tokens[work[w].token].who
      BY <1>1, <2>1, ElementOfSeq, LenProperties DEF Asks
    <3> QED BY <3>1 DEF Token
  <2>2. CASE work[w].kind \notin {"rotate", "revoke"}
    BY <1>1, <1>2, <2>2 DEF Asks, Kinds
  <2> QED BY <2>1, <2>2
<1>4. users[work[w].who].role \in BOOLEAN /\ work[w].role \in BOOLEAN
  BY <1>1, <1>3 DEF Everyone, Account, Request
<1> QED BY <1>3, <1>4 DEF NewToken, Token

\* What each step does to the tokens.
LEMMA TokensAfter ==
  ASSUME TypeInv, NEW w \in Workers
  PROVE  /\ Issue(w) /\ work[w].kind = "guest" => tokens' = tokens
         /\ Issue(w) /\ work[w].kind # "guest" =>
              /\ tokens' = Append(tokens, NewToken(w, work[w].who, 0))
              /\ NewToken(w, work[w].who, 0) \in Token /\ work[w].step = "issue"
         /\ Rotate(w) =>
              /\ work[w].token \in DOMAIN tokens /\ work[w].step = "rotate"
              /\ tokens' = Append([tokens EXCEPT ![work[w].token].revoked = TRUE],
                                  NewToken(w, work[w].who, work[w].token))
              /\ NewToken(w, work[w].who, work[w].token) \in Token
         /\ Revoke(w) =>
              /\ work[w].token \in DOMAIN tokens
              /\ tokens' = [tokens EXCEPT ![work[w].token].revoked = TRUE]
         /\ Issue(w) \/ Rotate(w) \/ Revoke(w) => UNCHANGED roles
         /\ Rotate(w) \/ Revoke(w) => UNCHANGED users
         /\ Issue(w) => users' = IF ~work[w].new THEN users
                                 ELSE [users EXCEPT ![work[w].who] = Created(w)]
<1>1. work[w].step \in {"rotate", "revoke"} =>
        work[w].token \in DOMAIN tokens /\ work[w].kind # "guest"
  BY DEF TypeInv, Asks
<1>2. work[w].token \in Nat
  BY DEF TypeInv, Request
<1>3. ASSUME work[w].step \in {"issue", "rotate"}, work[w].kind # "guest"
      PROVE  \A parent \in Nat : NewToken(w, work[w].who, parent) \in Token
  BY <1>3, NewTokenTyped
<1> QED BY <1>1, <1>2, <1>3 DEF Issue, Rotate, Revoke

\* The account a login, a registration or a guest is given.
LEMMA CreatedTyped ==
  ASSUME TypeInv, NEW w \in Workers, work[w].step # "idle",
         work[w].kind \notin {"rotate", "revoke"}
  PROVE  Created(w) \in Account
<1>1. Address(w) \in Addresses /\ work[w].role \in BOOLEAN
  BY AddressTyped DEF TypeInv, Request
<1> QED BY <1>1 DEF Created, Account

\* One step takes no token away, and changes nothing in one but that it is spent.
LEMMA TokensKept ==
  ASSUME TypeInv, [Next]_vars
  PROVE  tokens' \in Seq(Token) /\ Kept
<1>1. tokens \in Seq(Token) /\ \A w \in Workers : work[w].token \in Nat
  BY DEF TypeInv, Request
<1>2. tokens' = tokens => tokens' \in Seq(Token) /\ Kept
  BY <1>1 DEF Kept
<1>3. ASSUME NEW w \in Workers, Issue(w) PROVE tokens' \in Seq(Token) /\ Kept
  <2>1. CASE work[w].kind = "guest"
    BY <1>2, <1>3, <2>1, TokensAfter
  <2>2. CASE work[w].kind # "guest"
    <3>1. Marks(tokens)
      BY <1>1 DEF Marks
    <3> QED BY ZenonT(120), <1>3, <2>2, <3>1, TokensAfter, Issued DEF Kept, Marks
  <2> QED BY <2>1, <2>2
<1>4. ASSUME NEW w \in Workers, Rotate(w) PROVE tokens' \in Seq(Token) /\ Kept
  <2> DEFINE s == [tokens EXCEPT ![work[w].token].revoked = TRUE]
             e == NewToken(w, work[w].who, work[w].token)
  <2>1. Marks(s) /\ e \in Token /\ tokens' = Append(s, e)
    BY <1>4, TokensAfter, MarksKeep
  <2> HIDE DEF s, e
  <2> QED BY <2>1, Issued DEF Kept, Marks
<1>5. ASSUME NEW s, Marks(s), tokens' = s PROVE tokens' \in Seq(Token) /\ Kept
  BY <1>1, <1>5, LenProperties DEF Marks, Kept
<1>6. ASSUME NEW w \in Workers, Revoke(w) PROVE tokens' \in Seq(Token) /\ Kept
  BY <1>5, <1>6, TokensAfter, MarksKeep
<1>7. ASSUME TokenExpires PROVE tokens' \in Seq(Token) /\ Kept
  BY <1>5, <1>7, MarksKeep DEF TokenExpires
<1>8. ASSUME NEW w \in Workers,
             \/ Asked(w) \/ LookUp(w) \/ Insert(w) \/ LookAgain(w)
             \/ RoleCached(w) \/ RoleQueried(w) \/ RoleKept(w)
             \/ Present(w, "rotate") \/ Present(w, "revoke") \/ Done(w) \/ Break(w)
      PROVE  tokens' = tokens
  BY <1>8, BeginsOrEnds DEF LookUp, Insert, LookAgain, RoleCached, RoleQueried, RoleKept
<1>9. SyncUser \/ Seed \/ CacheExpires \/ UNCHANGED vars => tokens' = tokens
  BY DEF SyncUser, Seed, CacheExpires, vars
<1> QED BY <1>2, <1>3, <1>4, <1>6, <1>7, <1>8, <1>9, OneStep

\* The request that a new token is given to.
GivenTo(t, w) ==
  /\ work[w].step # "idle" /\ work[w].kind # "guest"
  /\ Issue(w) \/ Rotate(w)
  /\ \E parent \in Nat : tokens'[t] = NewToken(w, work[w].who, parent)

\* A token that was not there is given to a request that logs in or exchanges one.
LEMMA NewTokens ==
  ASSUME TypeInv, [Next]_vars, NEW t \in DOMAIN tokens', t \notin DOMAIN tokens
  PROVE  \E w \in Workers : GivenTo(t, w)
<1>1. tokens \in Seq(Token) /\ \A w \in Workers : Asks(w)
  BY DEF TypeInv
<1>2. ASSUME NEW w \in Workers, Issue(w), work[w].kind # "guest" PROVE GivenTo(t, w)
  <2>1. Marks(tokens)
    BY <1>1 DEF Marks
  <2>2. tokens'[t] = NewToken(w, work[w].who, 0)
    BY <1>2, <2>1, TokensAfter, Issued
  <2> QED BY <1>2, <2>2, TokensAfter DEF GivenTo
<1>3. ASSUME NEW w \in Workers, Rotate(w) PROVE GivenTo(t, w)
  <2> DEFINE s == [tokens EXCEPT ![work[w].token].revoked = TRUE]
             e == NewToken(w, work[w].who, work[w].token)
  <2>1. /\ Marks(s) /\ e \in Token /\ tokens' = Append(s, e)
        /\ work[w].step = "rotate" /\ work[w].kind = "rotate" /\ work[w].token \in Nat
    BY <1>1, <1>3, TokensAfter, MarksKeep DEF Asks, TypeInv, Request
  <2> HIDE DEF s, e
  <2>2. tokens'[t] = e
    BY <2>1, Issued
  <2> QED BY <1>3, <2>1, <2>2 DEF GivenTo, e
<1>4. ASSUME ~ \E w \in Workers : (Issue(w) /\ work[w].kind # "guest") \/ Rotate(w)
      PROVE  DOMAIN tokens' = DOMAIN tokens
  <2>1. ASSUME NEW s, Marks(s), tokens' = s PROVE DOMAIN tokens' = DOMAIN tokens
    BY <1>1, <2>1, LenProperties DEF Marks
  <2>2. ASSUME NEW w \in Workers, Revoke(w) PROVE DOMAIN tokens' = DOMAIN tokens
    BY <2>1, <2>2, TokensAfter, MarksKeep
  <2>3. ASSUME TokenExpires PROVE DOMAIN tokens' = DOMAIN tokens
    BY <2>1, <2>3, MarksKeep DEF TokenExpires
  <2>4. ASSUME NEW w \in Workers,
               \/ Asked(w) \/ LookUp(w) \/ Insert(w) \/ LookAgain(w)
               \/ RoleCached(w) \/ RoleQueried(w) \/ RoleKept(w)
               \/ Present(w, "rotate") \/ Present(w, "revoke") \/ Done(w) \/ Break(w)
        PROVE  tokens' = tokens
    BY <2>4, BeginsOrEnds DEF LookUp, Insert, LookAgain, RoleCached, RoleQueried, RoleKept
  <2>5. SyncUser \/ Seed \/ CacheExpires \/ UNCHANGED vars => tokens' = tokens
    BY DEF SyncUser, Seed, CacheExpires, vars
  <2> QED BY <1>4, <2>2, <2>3, <2>4, <2>5, OneStep, TokensAfter
<1> QED BY <1>2, <1>3, <1>4

\* One step keeps the types.
LEMMA StepType ==
  ASSUME TypeInv, [Next]_vars
  PROVE  TypeInv'
<1>1. /\ users \in [Everyone -> Account]
      /\ roles \in {"absent", "late", "present"}
      /\ cache \in Role /\ (cache.role = "unset" => cache = Unset) /\ lost \in BOOLEAN
      /\ work \in [Workers -> Request] /\ \A w \in Workers : Asks(w)
  BY DEF TypeInv
<1>2. tokens' \in Seq(Token) /\ Kept
  BY TokensKept
<1>3. \A v \in Workers : work'[v] = work[v] => Asks(v)'
  BY <1>1, <1>2 DEF Asks, Kept
<1> DEFINE Known == /\ cache' \in Role /\ (cache'.role = "unset" => cache' = Unset)
                    /\ lost' \in BOOLEAN
           Fine == /\ users' \in [Everyone -> Account]
                   /\ roles' \in {"absent", "late", "present"}
                   /\ Known
                   /\ work' \in [Workers -> Request]
<1>4. ASSUME NEW w \in Workers,
             \/ LookUp(w) \/ Insert(w) \/ LookAgain(w)
             \/ RoleCached(w) \/ RoleQueried(w) \/ RoleKept(w) \/ Issue(w)
      PROVE  Fine /\ Asks(w)' /\ \A v \in Workers \ {w} : work'[v] = work[v]
  <2>1. work[w].step \notin {"idle", "rotate", "revoke", "answered"}
    BY <1>4 DEF LookUp, Insert, LookAgain, RoleCached, RoleQueried, RoleKept, Issue
  <2>2. work[w].kind \notin {"rotate", "revoke", "none"}
    BY <1>1, <2>1 DEF Asks
  <2>3. \E step \in Steps \ {"idle", "look up", "rotate", "revoke"} : \E new, role :
          Moves(w, step, new, role)
    BY <1>4, BeforeAnswer DEF Steps
  <2>4. Asks(w)' /\ \A v \in Workers \ {w} : work'[v] = work[v]
    BY <1>1, <2>2, <2>3 DEF Asks, Moves
  <2>5. users' \in [Everyone -> Account]
    <3>1. CASE Issue(w)
      <4>1. Created(w) \in Account
        BY <2>1, <2>2, CreatedTyped
      <4>2. users' = users \/ users' = [users EXCEPT ![work[w].who] = Created(w)]
        BY <3>1 DEF Issue
      <4> QED BY <1>1, <4>1, <4>2
    <3>2. CASE ~Issue(w)
      BY <1>1, <1>4, <3>2 DEF LookUp, Insert, LookAgain, RoleCached, RoleQueried, RoleKept
    <3> QED BY <3>1, <3>2
  <2>6. UNCHANGED <<roles, lost>>
    BY <1>4 DEF LookUp, Insert, LookAgain, RoleCached, RoleQueried, RoleKept, Issue
  <2>7. Known
    <3>1. CASE Issue(w)
      <4>1. cache' = cache \/ cache' = Cache(cache.role, NoSession)
        BY <3>1 DEF Issue, Released
      <4> QED BY <1>1, <2>6, <4>1 DEF Cache, Unset, Role
    <3>2. CASE RoleKept(w)
      <4>1. cache' = Cache("found", w) \/ cache' = Cache("nothing", NoSession)
        BY <3>2 DEF RoleKept
      <4> QED BY <1>1, <2>6, <4>1 DEF Cache, Role
    <3>3. CASE ~Issue(w) /\ ~RoleKept(w)
      BY <1>1, <1>4, <2>6, <3>3 DEF LookUp, Insert, LookAgain, RoleCached, RoleQueried
    <3> QED BY <3>1, <3>2, <3>3
  <2> HIDE DEF Known
  <2> QED BY <1>1, <1>4, <2>4, <2>5, <2>6, <2>7, BeforeAnswer
<1>5. ASSUME NEW w \in Workers, Rotate(w) \/ Revoke(w)
      PROVE  Fine /\ Asks(w)' /\ \A v \in Workers \ {w} : work'[v] = work[v]
  <2>1. work[w].step \in {"rotate", "revoke"} /\ UNCHANGED <<users, roles, cache, lost>>
    BY <1>5 DEF Rotate, Revoke
  <2>2. Moves(w, "answered", work[w].new, work[w].role) /\ work' \in [Workers -> Request]
    BY <1>5, BeforeAnswer
  <2>3. Asks(w)'
    BY <1>1, <1>2, <2>1, <2>2 DEF Asks, Moves, Kept
  <2> QED BY <1>1, <2>1, <2>2, <2>3 DEF Moves
<1>6. ASSUME NEW w \in Workers,
             \/ Asked(w) \/ Present(w, "rotate") \/ Present(w, "revoke")
             \/ Done(w) \/ Break(w)
      PROVE  Fine /\ Asks(w)' /\ \A v \in Workers \ {w} : work'[v] = work[v]
  <2>1. UNCHANGED <<users, tokens, roles>> /\ work' \in [Workers -> Request]
        /\ \A v \in Workers \ {w} : work'[v] = work[v]
    BY <1>6, BeginsOrEnds
  <2>3. UNCHANGED <<cache, lost>> \/ (lost' /\ cache' = Cache("expired", NoSession))
    BY <1>6, BeginsOrEnds
  <2>4. Known
    <3>1. Cache("expired", NoSession) \in Role /\ Cache("expired", NoSession).role # "unset"
      BY DEF Cache, Role
    <3> QED BY <1>1, <2>3, <3>1
  <2>2. Asks(w)'
    BY <1>6, <2>1, BeginsOrEnds, IdleTyped DEF Asks
  <2> QED BY <1>1, <2>1, <2>2, <2>4
<1>7. ASSUME SyncUser PROVE Fine /\ work' = work
  <2>1. UNCHANGED <<tokens, roles, cache, work, lost>>
    BY <1>7 DEF SyncUser
  <2>2. PICK p \in Persons :
          \/ \E status \in {"ACTIVE", "INACTIVE"} : users' = [users EXCEPT ![p].status = status]
          \/ users' = [users EXCEPT ![p] = [status |-> "ACTIVE", role |-> FALSE,
                                            from |-> "sync", mail |-> Mail[p]]]
    BY <1>7 DEF SyncUser
  <2>3. p \in Everyone /\ Mail[p] \in Addresses /\ users[p] \in Account
    BY <1>1, <2>2, IdentityAssumption DEF Everyone, Addresses
  <2>4. \A status \in {"ACTIVE", "INACTIVE"} :
          [users[p] EXCEPT !.status = status] \in Account
    BY <2>3 DEF Account
  <2>5. [status |-> "ACTIVE", role |-> FALSE, from |-> "sync", mail |-> Mail[p]] \in Account
    BY <2>3 DEF Account
  <2> QED BY <1>1, <2>1, <2>2, <2>3, <2>4, <2>5
<1>8. ASSUME Seed \/ CacheExpires \/ TokenExpires \/ UNCHANGED vars
      PROVE  Fine /\ work' = work
  <2>1. Unset \in Role
    BY DEF Unset, Cache, Role
  <2> QED BY <1>1, <1>8, <2>1 DEF Seed, CacheExpires, TokenExpires, vars
<1>9. Fine /\ \A v \in Workers : Asks(v)'
  <2>1. CASE \E w \in Workers :
               Fine /\ Asks(w)' /\ \A v \in Workers \ {w} : work'[v] = work[v]
    BY <1>3, <2>1
  <2>2. CASE Fine /\ work' = work
    BY <1>3, <2>2
  <2> QED BY <1>4, <1>5, <1>6, <1>7, <1>8, <2>1, <2>2, OneStep
<1> QED BY <1>2, <1>9 DEF TypeInv

\* The types and columns of the state are right.
LEMMA TypeInvHolds == Spec => []TypeInv
BY InitType, StepType, PTL DEF Spec

-----------------------------------------------------------------------------
(* A token is exchanged at most once by each request that holds it.          *)

Children(t) == {c \in DOMAIN tokens : tokens[c].parent = t}

Holders(t) == {w \in Workers : work[w].step = "rotate" /\ work[w].token = t}

Room(t) == Cardinality(Children(t)) + Cardinality(Holders(t)) <= Cardinality(Workers)

\* What a token was exchanged for is there; only a revoked token has been exchanged;
\* and each of its exchanges, made or still to be made, has used up one request.
ExchangeInv ==
  /\ \A t \in DOMAIN tokens :
       tokens[t].parent = 0 \/ tokens[t].parent \in DOMAIN tokens
  /\ \A t \in DOMAIN tokens : ~tokens[t].revoked => Children(t) = {}
  /\ \A t \in DOMAIN tokens : Room(t)

\* The exchanges of a token and the requests that hold it are finitely many.
LEMMA Countable ==
  ASSUME NEW s \in Seq(Token), NEW c \in SUBSET DOMAIN s, NEW h \in SUBSET Workers
  PROVE  /\ IsFiniteSet(c) /\ Cardinality(c) \in Nat
         /\ IsFiniteSet(h) /\ Cardinality(h) \in Nat
         /\ Cardinality(Workers) \in Nat
         /\ Cardinality(h) <= Cardinality(Workers)
<1>1. IsFiniteSet(Workers)
  BY IdentityAssumption
<1>2. IsFiniteSet(DOMAIN s)
  BY LenProperties, FS_Interval
<1>3. IsFiniteSet(c) /\ IsFiniteSet(h) /\ Cardinality(h) <= Cardinality(Workers)
  BY <1>1, <1>2, FS_Subset
<1> QED BY <1>1, <1>3, FS_CardinalityType

\* An exchange revokes the token it is for and uses up the request that makes it; a
\* request gets hold of a token only while it is not revoked.
LEMMA StepExchange ==
  ASSUME TypeInv, ExchangeInv, [Next]_vars
  PROVE  ExchangeInv'
<1>1. /\ tokens \in Seq(Token) /\ tokens' \in Seq(Token) /\ Kept /\ TypeInv'
      /\ DOMAIN tokens = 1 .. Len(tokens) /\ DOMAIN tokens' = 1 .. Len(tokens')
      /\ Len(tokens) \in Nat /\ Len(tokens') \in Nat
  BY TokensKept, StepType, LenProperties DEF TypeInv
<1>2. \A t : /\ Cardinality(Children(t)) \in Nat /\ Cardinality(Holders(t)) \in Nat
             /\ IsFiniteSet(Children(t)) /\ IsFiniteSet(Holders(t))
             /\ Cardinality(Workers) \in Nat
             /\ Cardinality(Holders(t)') \in Nat /\ Cardinality(Children(t)') \in Nat
             /\ Cardinality(Holders(t)') <= Cardinality(Workers)
  <2>1. \A t : /\ Children(t) \in SUBSET DOMAIN tokens /\ Holders(t) \in SUBSET Workers
               /\ Children(t)' \in SUBSET DOMAIN tokens'
               /\ Holders(t)' \in SUBSET Workers
    BY DEF Children, Holders
  <2> QED BY <1>1, <2>1, Countable
<1>3. ASSUME NEW t, Children(t)' = {} PROVE Room(t)'
  <2>1. Cardinality(Children(t)') = 0
    BY <1>3, FS_EmptySet
  <2> QED BY <1>2, <2>1 DEF Room
<1>4. ASSUME NEW t \in DOMAIN tokens, Children(t)' = Children(t),
             \/ Holders(t)' \subseteq Holders(t)
             \/ ~tokens[t].revoked
      PROVE  Room(t)'
  <2>1. CASE Holders(t)' \subseteq Holders(t)
    <3>1. Cardinality(Holders(t)') <= Cardinality(Holders(t))
      BY <1>2, <2>1, FS_Subset
    <3> QED BY <1>2, <1>4, <3>1 DEF Room, ExchangeInv
  <2>2. CASE ~tokens[t].revoked
    BY <1>3, <1>4, <2>2 DEF ExchangeInv
  <2> QED BY <1>4, <2>1, <2>2
<1>5. ASSUME NEW c \in DOMAIN tokens', NEW t \in DOMAIN tokens' \ DOMAIN tokens,
             \A d \in DOMAIN tokens' \ DOMAIN tokens :
               tokens'[d].parent = 0 \/ tokens'[d].parent \in DOMAIN tokens
      PROVE  tokens'[c].parent # t
  <2>1. t # 0
    BY <1>1
  <2>2. CASE c \in DOMAIN tokens
    BY <1>1, <1>5, <2>1, <2>2 DEF Kept, ExchangeInv
  <2> QED BY <1>5, <2>1, <2>2
<1>6. \* Every other worker holds what it held.
      ASSUME NEW w \in Workers, \A v \in Workers \ {w} : work'[v] = work[v],
             work'[w].step # "rotate", NEW t
      PROVE  Holders(t)' = Holders(t) \ {w}
  BY <1>6 DEF Holders
<1>7. CASE \E w \in Workers : Rotate(w)
  <2>1. PICK w \in Workers : Rotate(w)
    BY <1>7
  <2>14. PICK i : i = work[w].token
    OBVIOUS
  <2>15. PICK n : n = Len(tokens) + 1
    OBVIOUS
  <2> DEFINE s == [tokens EXCEPT ![i].revoked = TRUE]
             e == NewToken(w, work[w].who, i)
  <2>2. /\ Marks(s) /\ e \in Token /\ tokens' = Append(s, e) /\ work[w].step = "rotate"
        /\ i \in DOMAIN tokens /\ s[i].revoked
    BY <2>1, <2>14, TokensAfter, MarksKeep
  <2>3. e.parent = i
    BY DEF NewToken
  <2> HIDE DEF s, e
  <2>4. /\ DOMAIN tokens' = DOMAIN tokens \cup {n} /\ tokens'[n] = e /\ n \notin DOMAIN tokens
        /\ \A t \in DOMAIN tokens : tokens'[t] = s[t]
    BY <1>1, <2>2, <2>15, Issued
  <2>5. \A t : Children(t)' = IF t = i THEN Children(t) \cup {n} ELSE Children(t)
    BY <1>1, <2>3, <2>4 DEF Children, Kept
  <2>6. \A t \in DOMAIN tokens : Holders(t)' = Holders(t) \ {w}
    <3>1. Moves(w, "answered", work[w].new, work[w].role)
      BY <2>1, BeforeAnswer
    <3> QED BY <1>6, <3>1 DEF Moves
  <2>7. Room(i)'
    <3>1. n \notin Children(i) /\ w \in Holders(i)
      BY <2>2, <2>4, <2>14 DEF Children, Holders
    <3>2. Cardinality(Children(i)') = Cardinality(Children(i)) + 1
      <4>1. Children(i)' = Children(i) \cup {n}
        BY <2>5
      <4>2. Cardinality(Children(i) \cup {n}) = Cardinality(Children(i)) + 1
        BY <1>2, <3>1, FS_AddElement
      <4> QED BY <4>1, <4>2
    <3>3. Cardinality(Holders(i)') = Cardinality(Holders(i)) - 1
      <4>1. Holders(i)' = Holders(i) \ {w}
        BY <2>2, <2>6
      <4>2. Cardinality(Holders(i) \ {w}) = Cardinality(Holders(i)) - 1
        BY <1>2, <3>1, FS_RemoveElement
      <4> QED BY <4>1, <4>2
    <3>4. Room(i)
      BY <2>2 DEF ExchangeInv
    <3> QED BY <1>2, <3>2, <3>3, <3>4 DEF Room
  <2>8. \A t \in DOMAIN tokens \ {i} : Room(t)'
    BY <1>4, <2>5, <2>6
  <2>9. Children(n)' = {}
    <3>1. \A d \in DOMAIN tokens' \ DOMAIN tokens : tokens'[d].parent \in DOMAIN tokens
      BY <2>2, <2>3, <2>4
    <3>2. \A c \in DOMAIN tokens' : tokens'[c].parent # n
      BY <1>5, <2>4, <3>1
    <3> QED BY <3>2 DEF Children
  <2>10. Room(n)'
    BY <1>3, <2>9
  <2>11. \A t \in DOMAIN tokens' : ~tokens'[t].revoked => Children(t)' = {}
    <3>1. tokens'[i].revoked
      BY <2>2, <2>4
    <3>2. \A t \in DOMAIN tokens \ {i} : ~tokens'[t].revoked => Children(t)' = {}
      BY <1>1, <2>5 DEF Kept, ExchangeInv
    <3> QED BY <2>4, <2>9, <3>1, <3>2
  <2>12. \A t \in DOMAIN tokens' :
           tokens'[t].parent = 0 \/ tokens'[t].parent \in DOMAIN tokens'
    BY <1>1, <2>2, <2>3, <2>4 DEF Kept, ExchangeInv
  <2>13. ASSUME NEW t \in DOMAIN tokens' PROVE Room(t)'
    <3>1. CASE t \in DOMAIN tokens \ {i}
      BY <2>8, <3>1
    <3>2. CASE t = i
      BY <2>7, <3>2
    <3>3. CASE t = n
      BY <2>10, <3>3
    <3> QED BY <2>4, <3>1, <3>2, <3>3
  <2> QED BY <2>11, <2>12, <2>13 DEF ExchangeInv
<1>8. CASE ~ \E w \in Workers : Rotate(w)
  <2>1. ASSUME NEW c \in DOMAIN tokens' \ DOMAIN tokens PROVE tokens'[c].parent = 0
    <3>1. PICK w \in Workers : Issue(w) /\ work[w].kind # "guest"
      BY <1>8, <2>1, NewTokens DEF GivenTo
    <3> DEFINE e == NewToken(w, work[w].who, 0)
    <3>2. Marks(tokens) /\ e \in Token /\ tokens' = Append(tokens, e)
      BY <1>1, <3>1, TokensAfter DEF Marks
    <3>3. e.parent = 0
      BY DEF NewToken
    <3> HIDE DEF e
    <3> QED BY <2>1, <3>2, <3>3, Issued
  <2>2. ASSUME NEW t \in DOMAIN tokens PROVE Children(t)' = Children(t)
    <3>1. t # 0
      BY <1>1
    <3> QED BY <1>1, <2>1, <3>1 DEF Children, Kept
  <2>3. ASSUME NEW t \in DOMAIN tokens
        PROVE  Holders(t)' \subseteq Holders(t) \/ ~tokens[t].revoked
    <3>1. ASSUME NEW w \in Workers,
                 \/ Asked(w) \/ LookUp(w) \/ Insert(w) \/ LookAgain(w)
                 \/ RoleCached(w) \/ RoleQueried(w) \/ RoleKept(w) \/ Issue(w)
                 \/ Present(w, "revoke") \/ Revoke(w) \/ Done(w) \/ Break(w)
          PROVE  Holders(t)' = Holders(t) \ {w}
      <4>1. /\ \A v \in Workers \ {w} : work'[v] = work[v]
            /\ work'[w].step # "rotate"
        BY <3>1, BeforeAnswer, BeginsOrEnds, IdleTyped DEF Moves
      <4> QED BY <1>6, <4>1
    <3>2. ASSUME NEW w \in Workers, Present(w, "rotate")
          PROVE  Holders(t)' \subseteq Holders(t) \/ ~tokens[t].revoked
      <4>1. PICK i \in DOMAIN tokens :
              /\ Valid(i)
              /\ work' = [work EXCEPT ![w] = [Idle EXCEPT !.step = "rotate", !.kind = "rotate",
                                               !.who = tokens[i].who, !.token = i]]
        BY <3>2 DEF Present
      <4>2. work'[w].token = i /\ \A v \in Workers \ {w} : work'[v] = work[v]
        BY <4>1 DEF TypeInv, Idle
      <4>3. CASE i = t
        BY <4>1, <4>3 DEF Valid
      <4>4. CASE i # t
        BY <4>2, <4>4 DEF Holders
      <4> QED BY <4>3, <4>4
    <3>3. SyncUser \/ Seed \/ CacheExpires \/ TokenExpires \/ UNCHANGED vars =>
            Holders(t)' = Holders(t)
      BY DEF SyncUser, Seed, CacheExpires, TokenExpires, vars, Holders
    <3> QED BY <1>8, <3>1, <3>2, <3>3, OneStep
  <2>4. ASSUME NEW t \in DOMAIN tokens' \ DOMAIN tokens PROVE Children(t)' = {}
    BY <1>5, <2>1, <2>4 DEF Children
  <2>5. \A t \in DOMAIN tokens' : Room(t)'
    BY <1>3, <1>4, <2>2, <2>3, <2>4
  <2>6. \A t \in DOMAIN tokens' : ~tokens'[t].revoked => Children(t)' = {}
    BY <1>1, <2>2, <2>4 DEF Kept, ExchangeInv
  <2>7. \A t \in DOMAIN tokens' :
          tokens'[t].parent = 0 \/ tokens'[t].parent \in DOMAIN tokens'
    BY <1>1, <2>1 DEF Kept, ExchangeInv
  <2> QED BY <2>5, <2>6, <2>7 DEF ExchangeInv
<1> QED BY <1>7, <1>8

\* However often a token is presented, and by however many requests at once, it is
\* exchanged at most once for each request that can be in flight (refresh).
THEOREM ExchangesAreBounded == Spec => []ExchangesBounded
<1>1. Init => ExchangeInv
  BY DEF Init, ExchangeInv
<1>2. TypeInv /\ ExchangeInv /\ [Next]_vars => ExchangeInv'
  BY StepExchange
<1>3. TypeInv /\ ExchangeInv => ExchangesBounded
  <2> SUFFICES ASSUME TypeInv, ExchangeInv, NEW t \in DOMAIN tokens
               PROVE  Cardinality(Children(t)) <= Cardinality(Workers)
    BY DEF ExchangesBounded, Children
  <2>1. /\ Cardinality(Children(t)) \in Nat /\ Cardinality(Holders(t)) \in Nat
        /\ Cardinality(Workers) \in Nat
    <3>1. Children(t) \in SUBSET DOMAIN tokens /\ Holders(t) \in SUBSET Workers
      BY DEF Children, Holders
    <3> QED BY <3>1, Countable DEF TypeInv
  <2> QED BY <2>1 DEF ExchangeInv, Room
<1> QED BY <1>1, <1>2, <1>3, TypeInvHolds, PTL DEF Spec

-----------------------------------------------------------------------------
(* Accounts: nobody inserts one over another.                                *)

\* A commit inserts the account of the request that inserted it; the sync of a user
\* inserts one that is not there or changes the status of one that is; no other step
\* writes an account.
LEMMA UsersAfter ==
  ASSUME TypeInv, AccountInv, [Next]_vars
  PROVE  /\ Lasting
         /\ \A p \in Everyone : ~Exists(p) /\ users'[p] # users[p] =>
              \/ \E w \in Workers : /\ Issue(w) /\ Inserting(w) /\ work[w].who = p
                                   /\ users'[p] = Created(w)
              \/ /\ p \in Persons /\ users'[p].from = "sync"
                 /\ users'[p].mail = Mail[p] /\ users'[p].status = "ACTIVE"
                 /\ \A w \in Workers : ~(work[w].new /\ work[w].who = p)
<1>1. users \in [Everyone -> Account]
  BY DEF TypeInv
<1>2. UNCHANGED users => Lasting /\ \A p \in Everyone : users'[p] = users[p]
  BY DEF Lasting, Exists
<1>3. ASSUME NEW w \in Workers, Issue(w), users' # users
      PROVE  /\ work[w].new /\ work[w].step = "issue" /\ ~Exists(work[w].who)
             /\ users' = [users EXCEPT ![work[w].who] = Created(w)]
  BY <1>3 DEF Issue, AccountInv, Inserting
<1>4. CASE SyncUser
  <2>1. PICK p \in Persons :
          /\ \A w \in Workers : ~(work[w].new /\ work[w].who = p)
          /\ \/ /\ Exists(p)
                /\ \E status \in {"ACTIVE", "INACTIVE"} :
                     users' = [users EXCEPT ![p].status = status]
             \/ /\ ~Exists(p)
                /\ users' = [users EXCEPT ![p] = [status |-> "ACTIVE", role |-> FALSE,
                                                  from |-> "sync", mail |-> Mail[p]]]
    BY <1>4 DEF SyncUser
  <2>2. p \in Everyone
    BY DEF Everyone
  <2>3. \A status \in {"ACTIVE", "INACTIVE"} :
          LET r == [users[p] EXCEPT !.status = status]
          IN  r.status = status /\ r.mail = users[p].mail /\ r.from = users[p].from
              /\ r.role = users[p].role
    BY <1>1, <2>2 DEF Account
  <2>4. \A q \in Everyone : q # p => users'[q] = users[q]
    BY <1>1, <2>1
  <2>5. CASE Exists(p)
    <3>1. /\ users'[p].status # "none" /\ users'[p].mail = users[p].mail
          /\ users'[p].from = users[p].from /\ users'[p].role = users[p].role
      BY <1>1, <2>1, <2>2, <2>3, <2>5
    <3> QED BY <2>4, <2>5, <3>1 DEF Lasting, Exists
  <2>6. CASE ~Exists(p)
    <3>1. users'[p] = [status |-> "ACTIVE", role |-> FALSE, from |-> "sync", mail |-> Mail[p]]
      BY <1>1, <2>1, <2>2, <2>6
    <3>2. /\ users'[p].from = "sync" /\ users'[p].mail = Mail[p]
          /\ users'[p].status = "ACTIVE"
      BY <3>1
    <3> QED BY <2>1, <2>4, <2>6, <3>2 DEF Lasting, Exists
  <2> QED BY <2>5, <2>6
<1>5. CASE \E w \in Workers : Issue(w)
  <2>1. PICK w \in Workers : Issue(w)
    BY <1>5
  <2>2. CASE users' = users
    BY <1>2, <2>2
  <2>3. CASE users' # users
    <3>1. /\ Inserting(w) /\ ~Exists(work[w].who)
          /\ users' = [users EXCEPT ![work[w].who] = Created(w)]
      BY <1>3, <2>1, <2>3 DEF Inserting
    <3>2. \A p \in Everyone : p # work[w].who => users'[p] = users[p]
      BY <1>1, <3>1
    <3>3. \A p \in Everyone : p = work[w].who => users'[p] = Created(w)
      BY <1>1, <3>1
    <3> QED BY <2>1, <3>1, <3>2, <3>3 DEF Lasting, Exists
  <2> QED BY <2>2, <2>3
<1>6. CASE ~SyncUser /\ ~(\E w \in Workers : Issue(w))
  <2>1. UNCHANGED users
    BY <1>6, OneStep, BeginsOrEnds
       DEF LookUp, Insert, LookAgain, RoleCached, RoleQueried, RoleKept, Rotate, Revoke, Seed,
           CacheExpires, TokenExpires, vars
  <2> QED BY <1>2, <2>1
<1> QED BY <1>4, <1>5, <1>6

\* Any other request is still what it was to the accounts.
Settled(v) ==
  /\ work[v].new => work[v].step \in {"role", "keep", "issue", "answered", "failed"}
  /\ work[v].step \in {"role", "keep"} => work[v].new /\ work[v].kind # "guest"
  /\ work[v].step = "issue" /\ ~work[v].new => Exists(work[v].who)

\* One step inserts no account twice.
LEMMA StepAccount ==
  ASSUME TypeInv, AccountInv, [Next]_vars
  PROVE  AccountInv'
<1>1. /\ users \in [Everyone -> Account] /\ tokens \in Seq(Token)
      /\ work \in [Workers -> Request] /\ \A w \in Workers : Asks(w) /\ Settled(w)
  BY DEF TypeInv, AccountInv, Settled
<1>2. \A v \in Workers : work[v].step # "idle" => work[v].who \in Everyone
  <2>1. ASSUME NEW v \in Workers, work[v].step # "idle" PROVE work[v].who \in Everyone
    <3>1. CASE work[v].kind \in {"rotate", "revoke"}
      <4>1. tokens[work[v].token] \in Token /\ work[v].who = tokens[work[v].token].who
        BY <1>1, <3>1, ElementOfSeq, LenProperties DEF Asks
      <4> QED BY <4>1 DEF Token, Everyone
    <3>2. CASE work[v].kind \notin {"rotate", "revoke"}
      BY <2>1, <3>2, AddressTyped
    <3> QED BY <3>1, <3>2
  <2> QED BY <2>1
<1>3. Lasting
  BY UsersAfter
<1>4. \A p \in Everyone : Exists(p) => Exists(p)'
  BY <1>3 DEF Lasting, Exists
<1>5. \A v \in Workers : work'[v] = work[v] => Settled(v)'
  BY <1>1, <1>2, <1>4 DEF Settled
<1>6. \A v \in Workers : ~work'[v].new /\ work'[v].step \notin {"role", "keep", "issue"}
        => Settled(v)'
  BY DEF Settled
<1>7. \A v \in Workers : Settled(v)'
  <2>1. ASSUME NEW w \in Workers,
               \/ LookUp(w) \/ Insert(w) \/ LookAgain(w)
               \/ RoleCached(w) \/ RoleQueried(w) \/ RoleKept(w)
               \/ Issue(w) \/ Rotate(w) \/ Revoke(w)
        PROVE  Settled(w)' /\ \A v \in Workers \ {w} : work'[v] = work[v]
    <3>1. work[w].step # "idle" /\ work[w].who \in Everyone
      BY <1>2, <2>1
         DEF LookUp, Insert, LookAgain, RoleCached, RoleQueried, RoleKept, Issue, Rotate, Revoke
    <3>2. work[w].step \in {"look up", "insert", "again", "rotate", "revoke"} => ~work[w].new
      BY <1>1 DEF Settled, TypeInv, Request
    <3>3. CASE LookUp(w)
      <4>1. work[w].step = "look up"
        BY <3>3 DEF LookUp
      <4> QED BY <1>4, <3>1, <3>2, <3>3, <4>1, BeforeAnswer DEF Settled, Moves
    <3>4. CASE Insert(w)
      <4>1. work[w].step = "insert"
        BY <3>4 DEF Insert
      <4> QED BY <1>4, <3>1, <3>2, <3>4, <4>1, BeforeAnswer DEF Settled, Moves
    <3>5. CASE LookAgain(w)
      <4>1. work[w].step = "again"
        BY <3>5 DEF LookAgain
      <4> QED BY <1>4, <3>1, <3>2, <3>5, <4>1, BeforeAnswer DEF Settled, Moves
    <3>6. CASE RoleCached(w) \/ RoleQueried(w) \/ RoleKept(w)
      <4>1. work[w].new /\ work[w].kind # "guest"
        BY <1>1, <3>6 DEF RoleCached, RoleQueried, RoleKept, Settled
      <4> QED BY <3>6, <4>1, BeforeAnswer DEF Settled, Moves
    <3>7. CASE Issue(w) \/ Rotate(w) \/ Revoke(w)
      BY <3>7, BeforeAnswer DEF Settled, Moves
    <3> QED BY <2>1, <3>3, <3>4, <3>5, <3>6, <3>7
  <2>2. ASSUME NEW w \in Workers,
               \/ Asked(w) \/ Present(w, "rotate") \/ Present(w, "revoke")
               \/ Done(w) \/ Break(w)
        PROVE  Settled(w)' /\ \A v \in Workers \ {w} : work'[v] = work[v]
    BY <1>6, <2>2, BeginsOrEnds, IdleTyped
  <2>3. SyncUser \/ Seed \/ CacheExpires \/ TokenExpires \/ UNCHANGED vars => work' = work
    BY DEF SyncUser, Seed, CacheExpires, TokenExpires, vars
  <2> QED BY <1>5, <2>1, <2>2, <2>3, OneStep
<1>8. ASSUME NEW v \in Workers, Inserting(v)'
      PROVE  /\ work'[v].who = work[v].who /\ work[v].who \in Everyone
             /\ \/ Inserting(v) /\ ~Issue(v)
                \/ /\ UNCHANGED users /\ ~Exists(work[v].who)
                   /\ ~Held(v, work[v].who, Address(v))
                   /\ \A u \in Workers \ {v} : work'[u] = work[u]
  <2>1. work'[v].new /\ work'[v].step \in {"role", "keep", "issue"}
    BY <1>8 DEF Inserting
  <2>2. CASE \E w \in Workers \ {v} : \A u \in Workers \ {w} : work'[u] = work[u]
    <3>1. work'[v] = work[v]
      BY <2>2
    <3>2. Inserting(v) /\ work[v].step # "idle"
      BY <2>1, <3>1 DEF Inserting
    <3>3. ~Issue(v)
      BY <2>1, <3>1, BeforeAnswer DEF Issue, Moves
    <3> QED BY <1>2, <3>1, <3>2, <3>3
  <2>3. CASE work' = work
    <3>1. Inserting(v) /\ work[v].step # "idle"
      BY <2>1, <2>3 DEF Inserting
    <3>2. ~Issue(v)
      BY <2>1, <2>3, BeforeAnswer DEF Issue, Moves
    <3> QED BY <1>2, <2>3, <3>1, <3>2
  <2>4. CASE \/ LookUp(v) \/ LookAgain(v) \/ RoleCached(v) \/ RoleQueried(v) \/ RoleKept(v)
    <3>1. work[v].step \in {"look up", "again", "role", "keep"}
      BY <2>4 DEF LookUp, LookAgain, RoleCached, RoleQueried, RoleKept
    <3>2. work'[v].new = work[v].new /\ work'[v].who = work[v].who
      BY <2>4, BeforeAnswer DEF Moves
    <3>3. ~Issue(v)
      BY <3>1 DEF Issue
    <3> QED BY <1>1, <1>2, <2>1, <3>1, <3>2, <3>3 DEF Inserting, Settled
  <2>5. CASE Insert(v)
    <3>1. work[v].step = "insert" /\ UNCHANGED users
      BY <2>5 DEF Insert
    <3>2. ~work[v].new
      BY <1>1, <3>1 DEF Settled, TypeInv, Request
    <3> QED BY <1>2, <2>1, <2>5, <3>1, <3>2, BeforeAnswer DEF Moves
  <2>6. CASE \/ Issue(v) \/ Rotate(v) \/ Revoke(v) \/ Asked(v) \/ Present(v, "rotate")
             \/ Present(v, "revoke") \/ Done(v) \/ Break(v)
    BY <2>1, <2>6, BeforeAnswer, BeginsOrEnds, IdleTyped DEF Moves
  <2>7. ASSUME NEW w \in Workers \ {v},
               \/ Asked(w) \/ LookUp(w) \/ Insert(w) \/ LookAgain(w)
               \/ RoleCached(w) \/ RoleQueried(w) \/ RoleKept(w) \/ Issue(w)
               \/ Present(w, "rotate") \/ Present(w, "revoke") \/ Rotate(w) \/ Revoke(w)
               \/ Done(w) \/ Break(w)
        PROVE  \A u \in Workers \ {w} : work'[u] = work[u]
    BY <2>7, BeforeAnswer, BeginsOrEnds DEF Moves
  <2>8. SyncUser \/ Seed \/ CacheExpires \/ TokenExpires \/ UNCHANGED vars => work' = work
    BY DEF SyncUser, Seed, CacheExpires, TokenExpires, vars
  <2> QED BY <2>2, <2>3, <2>4, <2>5, <2>6, <2>7, <2>8, OneStep
<1>9. ASSUME NEW v \in Workers, Inserting(v)'
      PROVE  /\ ~Exists(work[v].who)'
             /\ \A u \in Workers \ {v} : Inserting(u)' => work'[u].who # work'[v].who
  <2>1. ~Exists(work[v].who)
    BY <1>8, <1>9 DEF AccountInv
  <2>2. ~Exists(work[v].who)'
    <3>1. CASE users'[work[v].who] = users[work[v].who]
      BY <1>8, <1>9, <2>1, <3>1 DEF Exists
    <3>2. CASE users'[work[v].who] # users[work[v].who]
      <4>1. Inserting(v) /\ ~Issue(v) /\ work[v].who \in Everyone
        BY <1>8, <1>9, <3>2
      <4>2. ASSUME NEW w \in Workers, Issue(w), Inserting(w), work[w].who = work[v].who
            PROVE  FALSE
        BY <4>1, <4>2 DEF AccountInv
      <4>3. work[v].new
        BY <4>1 DEF Inserting
      <4> QED BY <2>1, <3>2, <4>1, <4>2, <4>3, UsersAfter
    <3> QED BY <3>1, <3>2
  <2>3. ASSUME NEW u \in Workers \ {v}, Inserting(u)' PROVE work'[u].who # work'[v].who
    <3>1. CASE Inserting(v) /\ Inserting(u)
      BY <1>8, <1>9, <2>3, <3>1 DEF AccountInv
    <3>2. CASE ~Inserting(v)
      BY <1>8, <1>9, <2>3, <3>2 DEF Held, Inserting
    <3>3. CASE ~Inserting(u)
      BY <1>8, <1>9, <2>3, <3>3 DEF Held, Inserting
    <3> QED BY <3>1, <3>2, <3>3
  <2> QED BY <2>2, <2>3
<1>10. ASSUME NEW t \in DOMAIN tokens' PROVE Exists(tokens[t].who)'
  <2>1. CASE t \in DOMAIN tokens
    <3>1. tokens[t] \in Token
      BY <1>1, <2>1, ElementOfSeq, LenProperties
    <3>2. tokens[t].who \in Everyone
      BY <3>1 DEF Token, Everyone
    <3>3. Exists(tokens[t].who) /\ tokens'[t].who = tokens[t].who
      BY <2>1, TokensKept DEF AccountInv, Kept
    <3> QED BY <1>3, <3>2, <3>3 DEF Lasting, Exists
  <2>2. CASE t \notin DOMAIN tokens
    <3>1. PICK w \in Workers : GivenTo(t, w)
      BY <2>2, NewTokens
    <3>2. work[w].who \in Everyone /\ tokens'[t].who = work[w].who
      BY <1>2, <3>1 DEF GivenTo, NewToken
    <3>3. CASE Rotate(w)
      <4>1. Exists(work[w].who) /\ UNCHANGED users
        BY <1>1, <3>3, TokensAfter DEF AccountInv, Asks
      <4> QED BY <3>2, <4>1 DEF Exists
    <3>4. CASE Issue(w) /\ work[w].new
      <4>1. users' = [users EXCEPT ![work[w].who] = Created(w)]
        BY <3>4, TokensAfter
      <4>2. users'[work[w].who] = Created(w)
        BY <1>1, <3>2, <4>1
      <4> QED BY <3>2, <4>2 DEF Created, Exists
    <3>5. CASE Issue(w) /\ ~work[w].new
      <4>1. work[w].step = "issue"
        BY <3>5 DEF Issue
      <4> QED BY <1>1, <1>3, <3>2, <3>5, <4>1 DEF Settled, Lasting, Exists
    <3> QED BY <3>1, <3>3, <3>4, <3>5 DEF GivenTo
  <2> QED BY <2>1, <2>2
<1> QED BY <1>7, <1>9, <1>10 DEF AccountInv, Settled

\* Whoever inserts an account, it was not there.
LEMMA AccountInvHolds == Spec => [](TypeInv /\ AccountInv)
<1>1. Init => AccountInv
  BY IdleTyped DEF Init, AccountInv, Inserting
<1>2. TypeInv /\ AccountInv /\ [Next]_vars => AccountInv'
  BY StepAccount
<1> QED BY <1>1, <1>2, TypeInvHolds, PTL DEF Spec

-----------------------------------------------------------------------------
(* Every token of an account carries its role.                               *)

\* Only a request that has looked the role up stores it in the cache, and only the
\* rollback of a request makes what is there unreadable.
LEMMA CacheAfter ==
  ASSUME TypeInv, [Next]_vars
  PROVE  /\ lost => lost'
         /\ \/ cache'.role \in {cache.role, "unset"}
            \/ cache'.role = "expired" /\ lost'
            \/ \E w \in Workers : RoleKept(w)
<1>1. ASSUME NEW w \in Workers, Issue(w) PROVE cache'.role = cache.role /\ UNCHANGED lost
  <2>1. cache' = Released(w) /\ UNCHANGED lost
    BY <1>1 DEF Issue
  <2> QED BY <2>1 DEF Released, Cache
<1>2. ASSUME NEW w \in Workers, Break(w)
      PROVE  UNCHANGED <<cache, lost>> \/ (cache'.role = "expired" /\ lost')
  <2>1. UNCHANGED <<cache, lost>> \/ (lost' /\ cache' = Cache("expired", NoSession))
    BY <1>2, BeginsOrEnds
  <2>2. Cache("expired", NoSession).role = "expired"
    BY DEF Cache
  <2> QED BY <2>1, <2>2
<1>3. ASSUME CacheExpires PROVE cache'.role = "unset" /\ UNCHANGED lost
  BY <1>3 DEF CacheExpires, Unset, Cache
<1>4. ASSUME NEW w \in Workers,
             \/ Asked(w) \/ LookUp(w) \/ Insert(w) \/ LookAgain(w)
             \/ RoleCached(w) \/ RoleQueried(w) \/ Present(w, "rotate")
             \/ Present(w, "revoke") \/ Rotate(w) \/ Revoke(w) \/ Done(w)
      PROVE  UNCHANGED <<cache, lost>>
  BY <1>4, BeginsOrEnds
     DEF LookUp, Insert, LookAgain, RoleCached, RoleQueried, Rotate, Revoke
<1>5. SyncUser \/ Seed \/ TokenExpires \/ UNCHANGED vars => UNCHANGED <<cache, lost>>
  BY DEF SyncUser, Seed, TokenExpires, vars
<1>6. ASSUME NEW w \in Workers, RoleKept(w) PROVE UNCHANGED lost
  BY <1>6 DEF RoleKept
<1> QED BY <1>1, <1>2, <1>3, <1>4, <1>5, <1>6, OneStep

\* One step, where the roles were there from the start.
LEMMA StepRole ==
  ASSUME TypeInv, AccountInv, RoleInv, [Next]_vars
  PROVE  RoleInv'
<1>1. /\ users \in [Everyone -> Account] /\ tokens \in Seq(Token)
      /\ work \in [Workers -> Request] /\ \A w \in Workers : Asks(w)
  BY DEF TypeInv
<1>2. roles' = "present" => roles = "present"
  BY OneStep, BeginsOrEnds
     DEF LookUp, Insert, LookAgain, RoleCached, RoleQueried, RoleKept, Issue, Rotate, Revoke,
         SyncUser, Seed, CacheExpires, TokenExpires, vars
<1> SUFFICES ASSUME roles = "present" PROVE RoleInv'
  BY <1>2 DEF RoleInv, TokenCarriesRole
<1> DEFINE Carries(v) ==
             Inserting(v) /\ work[v].step # "role" /\ work[v].kind # "guest" => work[v].role
           CarriesAfter(v) ==
             /\ work'[v].new /\ work'[v].step \in {"keep", "issue"} /\ work'[v].kind # "guest"
             => work'[v].role
<1>3. /\ cache.role # "nothing" /\ \A v \in Workers : Carries(v)
      /\ \A p \in Persons \cup Visitors : users[p].from = "login" => users[p].role
      /\ \A t \in DOMAIN tokens : users[tokens[t].who].from = "login" => tokens[t].role
  BY DEF RoleInv, TokenCarriesRole
<1>4. cache'.role # "nothing"
  <2>1. ASSUME NEW w \in Workers, RoleKept(w) PROVE cache'.role # "nothing"
    <3>1. /\ work[w].step = "keep"
          /\ cache'.role = IF work[w].role THEN "found" ELSE "nothing"
      BY <2>1 DEF RoleKept, Cache
    <3>2. work[w].new /\ work[w].kind # "guest"
      BY <3>1 DEF AccountInv
    <3>3. work[w].role
      BY <1>3, <3>1, <3>2 DEF Inserting
    <3> QED BY <3>1, <3>3
  <2>2. CASE \E w \in Workers : RoleKept(w)
    BY <2>1, <2>2
  <2>3. CASE ~ \E w \in Workers : RoleKept(w)
    BY <1>3, <2>3, CacheAfter
  <2> QED BY <2>2, <2>3
<1>5. \A v \in Workers : work'[v] = work[v] => CarriesAfter(v)
  BY <1>3 DEF Inserting
<1>6. \A v \in Workers : CarriesAfter(v)
  <2>1. ASSUME NEW w \in Workers,
               \/ LookUp(w) \/ Insert(w) \/ LookAgain(w)
               \/ RoleCached(w) \/ RoleQueried(w) \/ RoleKept(w)
               \/ Issue(w) \/ Rotate(w) \/ Revoke(w)
        PROVE  CarriesAfter(w) /\ \A v \in Workers \ {w} : work'[v] = work[v]
    <3>1. CASE LookUp(w) \/ LookAgain(w)
      <4>1. ~work[w].new
        BY <3>1 DEF LookUp, LookAgain, AccountInv, TypeInv, Request
      <4> QED BY <3>1, <4>1, BeforeAnswer DEF Moves
    <3>2. CASE Insert(w)
      BY <3>2, BeforeAnswer DEF Moves
    <3>3. CASE RoleCached(w)
      <4>1. cache.role = "found" \/ cache.role = "expired"
        BY <1>3, <3>3 DEF RoleCached, TypeInv, Role
      <4> QED BY <3>3, <4>1, BeforeAnswer DEF Moves
    <3>4. CASE RoleQueried(w)
      BY <3>4, BeforeAnswer DEF Moves
    <3>5. CASE RoleKept(w)
      <4>1. work[w].step = "keep"
        BY <3>5 DEF RoleKept
      <4> QED BY ZenonT(60), <1>3, <3>5, <4>1, BeforeAnswer DEF Moves, Inserting
    <3>6. CASE Issue(w) \/ Rotate(w) \/ Revoke(w)
      BY <3>6, BeforeAnswer DEF Moves
    <3> QED BY <2>1, <3>1, <3>2, <3>3, <3>4, <3>5, <3>6
  <2>2. ASSUME NEW w \in Workers,
               \/ Asked(w) \/ Present(w, "rotate") \/ Present(w, "revoke")
               \/ Done(w) \/ Break(w)
        PROVE  CarriesAfter(w) /\ \A v \in Workers \ {w} : work'[v] = work[v]
    BY <2>2, BeginsOrEnds, IdleTyped
  <2>3. SyncUser \/ Seed \/ CacheExpires \/ TokenExpires \/ UNCHANGED vars => work' = work
    BY DEF SyncUser, Seed, CacheExpires, TokenExpires, vars
  <2> HIDE DEF CarriesAfter
  <2> QED BY <1>5, <2>1, <2>2, <2>3, OneStep
<1>7. ASSUME NEW p \in Persons \cup Visitors, users'[p].from = "login"
      PROVE  users'[p].role
  <2>1. p \in Everyone
    BY DEF Everyone
  <2>2. CASE Exists(p)
    BY <1>3, <1>7, <2>1, <2>2, UsersAfter DEF Lasting
  <2>3. CASE users'[p] = users[p]
    BY <1>3, <1>7, <2>3
  <2>4. CASE ~Exists(p) /\ users'[p] # users[p]
    <3>1. PICK w \in Workers : /\ Issue(w) /\ Inserting(w) /\ work[w].who = p
                              /\ users'[p] = Created(w)
      BY <1>7, <2>1, <2>4, UsersAfter
    <3>2. work[w].kind # "guest"
      BY <1>1, <3>1, IdentityAssumption DEF Asks
    <3>3. work[w].role
      BY <1>3, <3>1, <3>2 DEF Issue
    <3> QED BY <3>1, <3>3 DEF Created
  <2> QED BY <2>2, <2>3, <2>4
<1>8. ASSUME NEW t \in DOMAIN tokens', users'[tokens'[t].who].from = "login"
      PROVE  tokens'[t].role
  <2>1. CASE t \in DOMAIN tokens
    <3>1. tokens[t] \in Token /\ Exists(tokens[t].who) /\ tokens'[t].who = tokens[t].who
          /\ tokens'[t].role = tokens[t].role
      BY <1>1, <2>1, TokensKept, ElementOfSeq, LenProperties DEF AccountInv, Kept
    <3>2. tokens[t].who \in Everyone
      BY <3>1 DEF Token, Everyone
    <3> QED BY <1>3, <1>8, <2>1, <3>1, <3>2, UsersAfter DEF Lasting
  <2>2. CASE t \notin DOMAIN tokens
    <3>1. PICK w \in Workers : GivenTo(t, w)
      BY <2>2, NewTokens
    <3>2. PICK parent \in Nat : tokens'[t] = NewToken(w, work[w].who, parent)
      BY <3>1 DEF GivenTo
    <3>3. /\ tokens'[t].who = work[w].who
          /\ tokens'[t].role = (users[work[w].who].role \/ work[w].role)
      BY <3>2 DEF NewToken
    <3>4. work[w].who \in Persons \cup Visitors
      BY <3>1, NewTokenTyped DEF GivenTo
    <3>5. work[w].who \in Everyone
      BY <3>4 DEF Everyone
    <3>6. CASE Issue(w) /\ work[w].new
      <4>1. work[w].step = "issue" /\ work[w].kind # "guest"
        BY <3>1, <3>6 DEF Issue, GivenTo
      <4>2. work[w].role
        BY <1>3, <3>6, <4>1 DEF Inserting
      <4> QED BY <3>3, <4>2
    <3>7. CASE ~(Issue(w) /\ work[w].new)
      <4>1. UNCHANGED users
        BY <3>1, <3>7, TokensAfter DEF GivenTo
      <4> QED BY <1>3, <1>8, <3>3, <3>4, <4>1
    <3> QED BY <3>6, <3>7
  <2> QED BY <2>1, <2>2
<1>9. \A v \in Workers : Carries(v)'
  BY <1>6 DEF Inserting
<1> QED BY <1>4, <1>7, <1>8, <1>9 DEF RoleInv, TokenCarriesRole

\* Where the roles were there from the start, every token of an account that a login
\* or a registration created carries its role, whoever won the race for the account
\* and whatever the cache held (upsert_erp_user, issue_tokens).
THEOREM TokensCarryRole == Spec => []TokenCarriesRole
<1>1. Init => RoleInv
  <2> SUFFICES ASSUME Init PROVE RoleInv
    OBVIOUS
  <2>1. \A p \in Everyone : users[p].from = "nowhere"
    BY DEF Init, NoAccount
  <2>2. cache.role # "nothing"
    BY DEF Init, Unset, Cache
  <2> QED BY <2>1, <2>2, IdleTyped DEF Init, RoleInv, Inserting, TokenCarriesRole, Everyone
<1>2. TypeInv /\ AccountInv /\ RoleInv /\ [Next]_vars => RoleInv'
  BY StepRole
<1>3. RoleInv => TokenCarriesRole
  BY DEF RoleInv
<1> QED BY <1>1, <1>2, <1>3, AccountInvHolds, PTL DEF Spec

-----------------------------------------------------------------------------
(* A login fails for someone else's address, or for a cached role.            *)

\* One step; no account loses its address.
LEMMA StepMail ==
  ASSUME TypeInv, AccountInv, MailInv, [Next]_vars
  PROVE  MailInv'
<1>1. /\ users \in [Everyone -> Account]
      /\ work \in [Workers -> Request] /\ \A w \in Workers : Asks(w)
  BY DEF TypeInv
<1> DEFINE Blocked(v) ==
             \E q \in Everyone \ {work[v].who} : users[q].mail = Address(v)
           BlockedAfter(v) ==
             \E q \in Everyone \ {work[v].who} : users'[q].mail = Address(v)
           Fine(v) == /\ work[v].step = "again" => Exists(work[v].who) \/ Blocked(v)
                      /\ work[v].step = "failed" => IF work[v].new THEN lost ELSE Blocked(v)
<1>2. \A v \in Workers : Fine(v)
  BY DEF MailInv, LoginFailsForReason
<1>3. /\ \A p \in Everyone : users[p].mail # "none" => Exists(p)
      /\ cache.role = "expired" => lost
  BY DEF MailInv
<1>4. ASSUME NEW v \in Workers, work[v].step \in {"insert", "again", "failed"}
      PROVE  /\ Address(v) # "none" /\ work[v].who \in Everyone
             /\ Blocked(v) => BlockedAfter(v)
  <2>1. Address(v) # "none" /\ work[v].who \in Everyone
    <3>1. work[v].kind \notin {"rotate", "revoke"}
      BY <1>1, <1>4 DEF Asks
    <3> QED BY <1>4, <3>1, AddressTyped
  <2>2. ASSUME NEW q \in Everyone \ {work[v].who}, users[q].mail = Address(v)
        PROVE  users'[q].mail = Address(v)
    BY <1>3, <2>1, <2>2, UsersAfter DEF Lasting
  <2> QED BY <2>1, <2>2
<1>5. ASSUME NEW v \in Workers, work'[v].who = work[v].who, work'[v].kind = work[v].kind,
             work[v].step \in {"insert", "again", "failed"},
             work'[v].step = "again" => Exists(work[v].who) \/ Blocked(v),
             work'[v].new = work[v].new,
             work'[v].step = "failed" => IF work[v].new THEN lost ELSE Blocked(v)
      PROVE  Fine(v)'
  <2>1. Address(v)' = Address(v)
    BY <1>5 DEF Address
  <2>2. Blocked(v) => Blocked(v)'
    BY <1>4, <1>5, <2>1
  <2>3. Exists(work[v].who) => Exists(work[v].who)'
    BY <1>4, <1>5, UsersAfter DEF Lasting, Exists
  <2> HIDE DEF Blocked
  <2>4. work'[v].step = "again" => Exists(work[v].who)' \/ Blocked(v)'
    BY <1>5, <2>2, <2>3
  <2>5. work'[v].step = "failed" => IF work'[v].new THEN lost' ELSE Blocked(v)'
    BY <1>5, <2>2, CacheAfter
  <2> QED BY <2>4, <2>5
<1>6. \A v \in Workers : work'[v].step \notin {"again", "failed"} => Fine(v)'
  OBVIOUS
<1>7. \A v \in Workers : work'[v] = work[v] => Fine(v)'
  <2>1. ASSUME NEW v \in Workers, work'[v] = work[v], work[v].step \in {"again", "failed"}
        PROVE  Fine(v)'
    BY <1>2, <1>5, <2>1
  <2> QED BY <1>6, <2>1
<1>8. \A v \in Workers : Fine(v)'
  <2>1. ASSUME NEW w \in Workers,
               \/ LookUp(w) \/ Insert(w) \/ LookAgain(w)
               \/ RoleCached(w) \/ RoleQueried(w) \/ RoleKept(w)
               \/ Issue(w) \/ Rotate(w) \/ Revoke(w)
        PROVE  Fine(w)' /\ \A v \in Workers \ {w} : work'[v] = work[v]
    <3> HIDE DEF Fine
    <3>1. CASE Insert(w)
      <4>1. work[w].step = "insert"
        BY <3>1 DEF Insert
      <4>2. Taken(Address(w)) => Exists(work[w].who) \/ Blocked(w)
        BY <1>3, <1>4, <4>1 DEF Taken
      <4> HIDE DEF Blocked
      <4> QED BY <1>5, <1>6, <3>1, <4>1, <4>2, BeforeAnswer DEF Moves
    <3>2. CASE LookAgain(w)
      <4>1. /\ work[w].step = "again" /\ (Exists(work[w].who) \/ Blocked(w))
            /\ ~work[w].new
        BY <1>1, <1>2, <3>2 DEF LookAgain, Fine, AccountInv, Request
      <4> HIDE DEF Blocked
      <4> QED BY <1>5, <1>6, <3>2, <4>1, BeforeAnswer DEF Moves
    <3>3. CASE RoleCached(w)
      <4>1. work[w].new /\ UNCHANGED lost
        BY <3>3 DEF RoleCached, AccountInv
      <4>2. work'[w].new /\ work'[w].step # "again"
        BY <3>3, <4>1, BeforeAnswer DEF Moves
      <4>3. work'[w].step = "failed" => lost
        BY <1>3, <3>3, BeforeAnswer DEF Moves
      <4>4. work'[w].step = "failed" => lost'
        BY <4>1, <4>3
      <4>5. Fine(w)'
        BY <4>2, <4>4 DEF Fine
      <4> QED BY <3>3, <4>5, BeforeAnswer DEF Moves
    <3>4. CASE ~Insert(w) /\ ~LookAgain(w) /\ ~RoleCached(w)
      BY <1>6, <2>1, <3>4, BeforeAnswer DEF Moves
    <3> QED BY <2>1, <3>1, <3>2, <3>3, <3>4, BeforeAnswer DEF Moves
  <2>2. ASSUME NEW w \in Workers,
               \/ Asked(w) \/ Present(w, "rotate") \/ Present(w, "revoke")
               \/ Done(w) \/ Break(w)
        PROVE  Fine(w)' /\ \A v \in Workers \ {w} : work'[v] = work[v]
    BY <1>6, <2>2, BeginsOrEnds, IdleTyped
  <2>3. SyncUser \/ Seed \/ CacheExpires \/ TokenExpires \/ UNCHANGED vars => work' = work
    BY DEF SyncUser, Seed, CacheExpires, TokenExpires, vars
  <2> HIDE DEF Fine
  <2> QED BY <1>7, <2>1, <2>2, <2>3, OneStep
<1>9. ASSUME NEW p \in Everyone, users'[p].mail # "none" PROVE Exists(p)'
  <2>1. CASE users'[p] = users[p]
    BY <1>3, <1>9, <2>1 DEF Exists
  <2>2. CASE users'[p] # users[p]
    <3>1. CASE Exists(p)
      BY <3>1, UsersAfter DEF Lasting, Exists
    <3>2. CASE ~Exists(p)
      <4>1. (\E w \in Workers : users'[p] = Created(w)) \/ users'[p].status = "ACTIVE"
        BY <2>2, <3>2, UsersAfter
      <4>2. \A w : Created(w).status = "ACTIVE"
        BY DEF Created
      <4>3. users'[p].status = "ACTIVE"
        BY <4>1, <4>2
      <4> QED BY <4>3 DEF Exists
    <3> QED BY <3>1, <3>2
  <2> QED BY <2>1, <2>2
<1>10. cache'.role = "expired" => lost'
  <2>1. ASSUME NEW w \in Workers, RoleKept(w) PROVE cache'.role # "expired"
    BY <2>1 DEF RoleKept, Cache
  <2> QED BY <1>3, <2>1, CacheAfter
<1> QED BY <1>8, <1>9, <1>10 DEF MailInv, LoginFailsForReason

\* A login or a registration fails only when someone else's account has its email, or
\* when the role in the cache was loaded by a request that was rolled back: to lose the
\* race for one's own first login is no error (upsert_erp_user, get_by_name).
THEOREM FailsForReason == Spec => []LoginFailsForReason
<1>1. Init => MailInv
  BY IdleTyped DEF Init, MailInv, LoginFailsForReason, NoAccount, Unset, Cache
<1>2. TypeInv /\ AccountInv /\ MailInv /\ [Next]_vars => MailInv'
  BY StepMail
<1>3. MailInv => LoginFailsForReason
  BY DEF MailInv
<1> QED BY <1>1, <1>2, <1>3, AccountInvHolds, PTL DEF Spec

=============================================================================
