------------------------- MODULE IdentityResolution -------------------------
(***************************************************************************)
(* Who a request is made for: security.py's resolve_identity with the two  *)
(* look-ups of omnius_client.py, for one user of the Omnius service.  The  *)
(* active organization and the user's role in it are read from the Omnius  *)
(* database through a cache in Redis, which all server processes share;    *)
(* each process has a pool of its own for the database.                    *)
(*                                                                         *)
(* The user's organizations are 1 .. MaxOrg, and the user switches from    *)
(* one to the next; None says that there is none, or that the look-up      *)
(* failed; Derived is the organization made up from the token's subject.   *)
(***************************************************************************)
EXTENDS Naturals

CONSTANTS
    Requests, \* requests; each is made at most once
    Proc,     \* Proc[r]: the server process that handles r
    Tokens,   \* the tokens they come with: [uid, trusted, claim]
    MaxOrg,   \* bound on the organizations, and so on the switches
    OrgRole,  \* OrgRole[o]: the user's role in o, or None
    TTL,      \* _CACHE_TTL_SECONDS, in ticks of the clock
    MaxLag,   \* bound on the ticks from a query to the write of its result
    Faults    \* which stores may fail: a subset of {"redis", "omnius"}

None == 0
Derived == MaxOrg + 1
Orgs == 1 .. Derived

ASSUME IdentityAssumption ==
    /\ MaxOrg \in Nat \ {0} /\ TTL \in Nat \ {0} /\ MaxLag \in Nat
    /\ Tokens \subseteq [uid : BOOLEAN, trusted : BOOLEAN, claim : {None} \cup Orgs]
    /\ DOMAIN OrgRole = Orgs /\ DOMAIN Proc = Requests
    /\ Faults \subseteq {"redis", "omnius"}

Procs == {Proc[r] : r \in Requests}
\* A key of Redis: it lasts through ttl - 1 more ticks, and is absent at 0.
Entry(V) == [value : V, ttl : 0 .. TTL + 1]
Roles == {OrgRole[o] : o \in Orgs} \cup {None}

VARIABLES
    active,     \* user_active_org in the Omnius database
    orgCache,   \* the cached active organization
    roleCache,  \* roleCache[o]: the cached role in o
    pool,       \* pool[p]: _pool has been created
    cooling,    \* cooling[p]: the last failure of p is within the cool-down
    pc, what,   \* where r is, and whether it looks up the "org" or the "role"
    token,      \* token[r]
    held, wait, \* the result r holds to be cached, and since how many ticks
    live, org, role, \* what r found, and took for its organization and role
    gone        \* history: ticks since o was the active organization

vars == <<active, orgCache, roleCache, pool, cooling, pc, what, token, held,
          wait, live, org, role, gone>>
stores == <<active, orgCache, roleCache, pool, cooling>>

Old == TTL + MaxLag

TypeOK ==
    /\ active \in 0 .. MaxOrg
    /\ orgCache \in Entry(0 .. MaxOrg)
    /\ roleCache \in [Orgs -> Entry(Roles)]
    /\ pool \in [Procs -> BOOLEAN] /\ cooling \in [Procs -> BOOLEAN]
    /\ pc \in [Requests -> {"idle", "cache", "pool", "connect", "query", "store", "done"}]
    /\ what \in [Requests -> {"org", "role"}]
    /\ token \in [Requests -> Tokens]
    /\ held \in [Requests -> (0 .. MaxOrg) \cup Roles]
    /\ wait \in [Requests -> 0 .. MaxLag]
    /\ live \in [Requests -> 0 .. MaxOrg]
    /\ org \in [Requests -> {None} \cup Orgs]
    /\ role \in [Requests -> Roles]
    /\ gone \in [1 .. MaxOrg -> 0 .. Old + 1]

Init ==
    /\ active \in {0, 1}
    /\ orgCache = [value |-> None, ttl |-> 0]
    /\ roleCache = [o \in Orgs |-> [value |-> None, ttl |-> 0]]
    /\ pool = [p \in Procs |-> FALSE] /\ cooling = [p \in Procs |-> FALSE]
    /\ pc = [r \in Requests |-> "idle"]
    /\ what = [r \in Requests |-> "org"]
    /\ token \in [Requests -> Tokens]
    /\ held = [r \in Requests |-> None]
    /\ wait = [r \in Requests |-> 0]
    /\ live = [r \in Requests |-> None]
    /\ org = [r \in Requests |-> None]
    /\ role = [r \in Requests |-> None]
    /\ gone = [o \in 1 .. MaxOrg |-> IF o = active THEN 0 ELSE Old + 1]

-----------------------------------------------------------------------------
(* The world. *)

\* The user switches, in the Omnius service.
Switch ==
    /\ active < MaxOrg
    /\ active' = active + 1
    /\ gone'   = [gone EXCEPT ![active + 1] = 0]
    /\ UNCHANGED <<orgCache, roleCache, pool, cooling, pc, what, token, held, wait,
                   live, org, role>>

Aged(e) == [e EXCEPT !.ttl = IF @ = 0 THEN 0 ELSE @ - 1]

\* A tick of the clock: keys of Redis expire.
Tick ==
    /\ \A r \in Requests : pc[r] = "store" => wait[r] < MaxLag
    /\ orgCache'  = Aged(orgCache)
    /\ roleCache' = [o \in Orgs |-> Aged(roleCache[o])]
    /\ wait' = [r \in Requests |-> IF pc[r] = "store" THEN wait[r] + 1 ELSE 0]
    /\ gone' = [o \in 1 .. MaxOrg |->
                   IF o = active THEN 0
                   ELSE IF gone[o] > Old THEN Old + 1 ELSE gone[o] + 1]
    /\ UNCHANGED <<active, pool, cooling, pc, what, token, held, live, org, role>>

\* _FAIL_COOLDOWN_SECONDS have passed in p.
CoolDown(p) ==
    /\ cooling[p]
    /\ cooling' = [cooling EXCEPT ![p] = FALSE]
    /\ UNCHANGED <<active, orgCache, roleCache, pool, pc, what, token, held, wait,
                   live, org, role, gone>>

-----------------------------------------------------------------------------
(* What a look-up returns, and how resolve_identity goes on with it. *)

Claimed(t) == IF t.trusted THEN t.claim ELSE None

\* The organization: the active one, else a trusted claim, else the derived.
Choose(t, o) ==
    IF o # None THEN o ELSE IF Claimed(t) # None THEN Claimed(t) ELSE Derived

\* The look-up of r ends with value v: after the organization the role is
\* looked up, and after that r knows whom it is for.
Return(r, v) ==
    IF what[r] = "org"
    THEN /\ live' = [live EXCEPT ![r] = v]
         /\ org'  = [org EXCEPT ![r] = Choose(token[r], v)]
         /\ what' = [what EXCEPT ![r] = "role"]
         /\ pc'   = [pc EXCEPT ![r] = "cache"]
         /\ UNCHANGED role
    ELSE /\ role' = [role EXCEPT ![r] = v]
         /\ pc'   = [pc EXCEPT ![r] = "done"]
         /\ UNCHANGED <<live, org, what>>

Goto(r, label) ==
    /\ pc' = [pc EXCEPT ![r] = label]
    /\ UNCHANGED <<what, live, org, role>>

\* resolve_identity: without a numeric uid nothing is looked up.
Begin(r) ==
    /\ pc[r] = "idle"
    /\ IF token[r].uid
       THEN Goto(r, "cache")
       ELSE /\ pc'  = [pc EXCEPT ![r] = "done"]
            /\ org' = [org EXCEPT ![r] = Choose(token[r], None)]
            /\ UNCHANGED <<what, live, role>>
    /\ UNCHANGED <<stores, token, held, wait, gone>>

-----------------------------------------------------------------------------
(* get_active_org_id and get_org_role. *)

\* Mutation: the key of the cached role names the user only.
RoleKeyOfUser(r) == Derived

\* The key of the cached role names the organization and the user.
RoleKey(r) == org[r]

Cached(r) == IF what[r] = "org" THEN orgCache ELSE roleCache[RoleKey(r)]

\* Mutation: an error of Redis is not caught.
ReadCacheUncaught(r) ==
    /\ pc[r] = "cache"
    /\ \/ /\ Cached(r).ttl > 0
          /\ Return(r, Cached(r).value)
       \/ /\ Cached(r).ttl = 0
          /\ Goto(r, "pool")
       \/ /\ "redis" \in Faults
          /\ Goto(r, "idle")
    /\ UNCHANGED <<stores, token, held, wait, gone>>

\* A hit, a miss, or an error, which is a miss.
ReadCache(r) ==
    /\ pc[r] = "cache"
    /\ \/ /\ Cached(r).ttl > 0
          /\ Return(r, Cached(r).value)
       \/ /\ Cached(r).ttl = 0 \/ "redis" \in Faults
          /\ Goto(r, "pool")
    /\ UNCHANGED <<stores, token, held, wait, gone>>

\* _get_pool, up to create_pool.
GetPool(r) ==
    /\ pc[r] = "pool"
    /\ IF pool[Proc[r]] THEN Goto(r, "query")
       ELSE IF cooling[Proc[r]] THEN Return(r, None)
       ELSE Goto(r, "connect")
    /\ UNCHANGED <<stores, token, held, wait, gone>>

\* create_pool: whoever comes last sets _pool.
Connect(r) ==
    /\ pc[r] = "connect"
    /\ \/ /\ pool' = [pool EXCEPT ![Proc[r]] = TRUE]
          /\ Goto(r, "query")
          /\ UNCHANGED cooling
       \/ /\ "omnius" \in Faults
          /\ cooling' = [cooling EXCEPT ![Proc[r]] = TRUE]
          /\ Return(r, None)
          /\ UNCHANGED pool
    /\ UNCHANGED <<active, orgCache, roleCache, token, held, wait, gone>>

\* fetchval.  A failure is not cached, and starts no cool-down.
Query(r) ==
    /\ pc[r] = "query"
    /\ \/ /\ held' = [held EXCEPT ![r] = IF what[r] = "org" THEN active ELSE OrgRole[org[r]]]
          /\ wait' = [wait EXCEPT ![r] = 0]
          /\ Goto(r, "store")
       \/ /\ "omnius" \in Faults
          /\ Return(r, None)
          /\ UNCHANGED <<held, wait>>
    /\ UNCHANGED <<stores, token, gone>>

\* Mutation: the key outlives the bound.
FreshLonger(v) == [value |-> v, ttl |-> TTL + 2]

Fresh(v) == [value |-> v, ttl |-> TTL + 1]

\* SET with EX.
Cache(r) ==
    IF what[r] = "org"
    THEN /\ orgCache' = Fresh(held[r])
         /\ UNCHANGED roleCache
    ELSE /\ roleCache' = [roleCache EXCEPT ![RoleKey(r)] = Fresh(held[r])]
         /\ UNCHANGED orgCache

\* Written to the cache, if Redis is there, and returned.
Store(r) ==
    /\ pc[r] = "store"
    /\ \/ Cache(r)
       \/ "redis" \in Faults /\ UNCHANGED <<orgCache, roleCache>>
    /\ Return(r, held[r])
    /\ held' = [held EXCEPT ![r] = None]
    /\ wait' = [wait EXCEPT ![r] = 0]
    /\ UNCHANGED <<active, pool, cooling, token, gone>>

Step(r) == ReadCache(r) \/ GetPool(r) \/ Connect(r) \/ Query(r) \/ Store(r)

Next ==
    \/ Switch \/ Tick
    \/ \E p \in Procs : CoolDown(p)
    \/ \E r \in Requests : Begin(r) \/ Step(r)

Spec == Init /\ [][Next]_vars

\* Every call has a timeout (2 s to connect, 3 s per command).
Timely(r) == WF_vars(Step(r))

FairSpec == Spec /\ \A r \in Requests : Timely(r)

-----------------------------------------------------------------------------
\* A request acts for an organization that the user left longer ago than the
\* cache keeps a key and a look-up may take, or never made active, only when the
\* look-up gave nothing and the token is one whose claim is trusted and names it:
\* what a look-up answers, and whatever a bridged token claims, is never older.
AnswersAreRecent ==
    [][\A r \in Requests :
          /\ org'[r] # org[r]
          /\ org'[r] \in 1 .. MaxOrg /\ gone[org'[r]] > Old
          => live'[r] = None /\ token[r].trusted /\ org'[r] = token[r].claim]_vars

\* The role a request acts with is the user's in the organization it acts for.
RoleIsOfOrg ==
    \A r \in Requests : pc[r] = "done" /\ role[r] # None => role[r] = OrgRole[org[r]]

\* Omnius and Redis may fail in any way: every request gets an identity.
FailsOpen == \A r \in Requests : pc[r] = "cache" ~> pc[r] = "done"
=============================================================================
