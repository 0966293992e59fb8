----------------------- MODULE IdentityResolutionProofs -----------------------
(***************************************************************************)
(* Proofs about IdentityResolution, for any requests, processes and tokens,*)
(* any number of organizations, any roles, any life of a key and any lag,  *)
(* and any faults.                                                         *)
(***************************************************************************)
EXTENDS IdentityResolution, TLAPS

\* What a look-up of r may return: an organization, or nothing, or the role in
\* the organization that r has already taken.
Answer(r, v) ==
    IF what[r] = "org" THEN v \in 0 .. MaxOrg ELSE v \in {None, OrgRole[org[r]]}

(***************************************************************************)
(* The organization of a request is fixed before its role is asked for, so *)
(* that what it holds, and what it puts under the key of that organization,*)
(* is the role in it.                                                      *)
(***************************************************************************)
AskInv(r) ==
    /\ what[r] = "role" => org[r] \in Orgs
    /\ pc[r] = "store" => Answer(r, held[r])
    /\ pc[r] = "store" /\ what[r] = "role" => held[r] = OrgRole[org[r]]
    /\ pc[r] # "done" => role[r] = None
    /\ role[r] # None => role[r] = OrgRole[org[r]]

CacheInv == \A o \in Orgs : roleCache[o].ttl > 0 => roleCache[o].value = OrgRole[o]

Inv == TypeOK /\ CacheInv /\ \A r \in Requests : AskInv(r)

PCs == {"idle", "cache", "pool", "connect", "query", "store", "done"}

USE IdentityAssumption

-----------------------------------------------------------------------------
LEMMA Sets ==
    /\ None \in 0 .. MaxOrg /\ None \in Roles
    /\ Derived \in Orgs /\ 1 .. MaxOrg \subseteq Orgs
    /\ \A o \in Orgs : OrgRole[o] \in Roles
    /\ \A t \in Tokens : \A o \in 0 .. MaxOrg : Choose(t, o) \in Orgs
<1>1. /\ None \in 0 .. MaxOrg /\ None \in Roles
      /\ Derived \in Orgs /\ 1 .. MaxOrg \subseteq Orgs
      /\ \A o \in Orgs : OrgRole[o] \in Roles
  BY DEF None, Roles, Orgs, Derived
<1>2. ASSUME NEW t \in Tokens, NEW o \in 0 .. MaxOrg PROVE Choose(t, o) \in Orgs
  <2>1. t.claim \in {None} \cup Orgs
    OBVIOUS
  <2>2. o # None => o \in Orgs
    BY <1>1 DEF None
  <2>3. QED
    BY <1>1, <2>1, <2>2 DEF Choose, Claimed
<1>3. QED
  BY <1>1, <1>2

\* What a request does to itself when a look-up returns.
LEMMA ReturnEffect ==
    ASSUME Inv, NEW r \in Requests, NEW v, Answer(r, v), pc[r] # "done", Return(r, v)
    PROVE  /\ pc' \in [Requests -> PCs] /\ what' \in [Requests -> {"org", "role"}]
           /\ live' \in [Requests -> 0 .. MaxOrg]
           /\ org' \in [Requests -> {None} \cup Orgs] /\ role' \in [Requests -> Roles]
           /\ \A q \in Requests \ {r} : /\ pc'[q] = pc[q] /\ what'[q] = what[q]
                                        /\ org'[q] = org[q] /\ role'[q] = role[q]
           /\ pc'[r] \in {"cache", "done"}
           /\ what'[r] = "role" => org'[r] \in Orgs
           /\ pc'[r] # "done" => role'[r] = None
           /\ role'[r] # None => role'[r] = OrgRole[org'[r]]
<1>0. TypeOK /\ AskInv(r)
  BY DEF Inv
<1>1. CASE what[r] = "org"
  <2>1. v \in 0 .. MaxOrg /\ Choose(token[r], v) \in Orgs
    BY <1>0, <1>1, Sets DEF Answer, TypeOK
  <2>2. /\ live' = [live EXCEPT ![r] = v] /\ org' = [org EXCEPT ![r] = Choose(token[r], v)]
        /\ what' = [what EXCEPT ![r] = "role"] /\ pc' = [pc EXCEPT ![r] = "cache"]
        /\ role' = role
    BY <1>1 DEF Return
  <2>3. role[r] = None
    BY <1>0 DEF AskInv
  <2>4. QED
    BY <1>0, <2>1, <2>2, <2>3 DEF TypeOK, PCs
<1>2. CASE what[r] = "role"
  <2>1. v \in Roles
    BY <1>0, <1>2, Sets DEF Answer, AskInv
  <2>2. /\ role' = [role EXCEPT ![r] = v] /\ pc' = [pc EXCEPT ![r] = "done"]
        /\ UNCHANGED <<live, org, what>>
    BY <1>2 DEF Return
  <2>3. org[r] \in Orgs /\ v \in {None, OrgRole[org[r]]}
    BY <1>0, <1>2 DEF AskInv, Answer
  <2>4. QED
    BY <1>0, <2>1, <2>2, <2>3 DEF TypeOK, PCs
<1>3. QED
  BY <1>0, <1>1, <1>2 DEF TypeOK

LEMMA GotoEffect ==
    ASSUME Inv, NEW r \in Requests, NEW label \in PCs \ {"done"}, pc[r] # "done", Goto(r, label)
    PROVE  /\ pc' \in [Requests -> PCs]
           /\ UNCHANGED <<what, live, org, role>>
           /\ \A q \in Requests \ {r} : pc'[q] = pc[q]
           /\ pc'[r] = label
BY DEF Inv, TypeOK, Goto, PCs

\* A request keeps what AskInv says of it when only others move.
LEMMA AskKept ==
    ASSUME NEW q \in Requests, AskInv(q),
           pc'[q] = pc[q], what'[q] = what[q], org'[q] = org[q], role'[q] = role[q],
           held'[q] = held[q]
    PROVE  AskInv(q)'
BY DEF AskInv, Answer

\* A request that does not store keeps the others, and itself if it now is
\* anywhere but before a write to the cache.
LEMMA Moves ==
    ASSUME Inv, NEW r \in Requests,
           pc' \in [Requests -> PCs], what' \in [Requests -> {"org", "role"}],
           live' \in [Requests -> 0 .. MaxOrg],
           org' \in [Requests -> {None} \cup Orgs], role' \in [Requests -> Roles],
           \A q \in Requests \ {r} : /\ pc'[q] = pc[q] /\ what'[q] = what[q]
                                     /\ org'[q] = org[q] /\ role'[q] = role[q],
           pool' \in [Procs -> BOOLEAN], cooling' \in [Procs -> BOOLEAN],
           AskInv(r)',
           UNCHANGED <<active, orgCache, roleCache, token, held, wait, gone>>
    PROVE  Inv'
<1>1. TypeOK'
  BY DEF Inv, TypeOK, PCs
<1>2. CacheInv'
  BY DEF Inv, CacheInv
<1>3. \A q \in Requests \ {r} : AskInv(q)'
  BY AskKept DEF Inv
<1>4. QED
  BY <1>1, <1>2, <1>3 DEF Inv

-----------------------------------------------------------------------------
LEMMA InvInit == Init => Inv
<1> SUFFICES ASSUME Init PROVE Inv
  OBVIOUS
<1>1. TypeOK
  <2>1. active \in 0 .. MaxOrg
    BY DEF Init
  <2>2. orgCache \in Entry(0 .. MaxOrg) /\ roleCache \in [Orgs -> Entry(Roles)]
    BY Sets DEF Init, Entry
  <2>3. gone \in [1 .. MaxOrg -> 0 .. Old + 1] /\ wait \in [Requests -> 0 .. MaxLag]
    BY DEF Init, Old
  <2>4. /\ held \in [Requests -> (0 .. MaxOrg) \cup Roles] /\ live \in [Requests -> 0 .. MaxOrg]
        /\ role \in [Requests -> Roles] /\ org \in [Requests -> {None} \cup Orgs]
    BY Sets DEF Init
  <2>5. QED
    BY <2>1, <2>2, <2>3, <2>4 DEF Init, TypeOK
<1>2. CacheInv
  BY DEF Init, CacheInv
<1>3. \A r \in Requests : AskInv(r)
  BY DEF Init, AskInv
<1>4. QED
  BY <1>1, <1>2, <1>3 DEF Inv

LEMMA InvSwitch ==
    ASSUME Inv, Switch
    PROVE  Inv'
<1>1. TypeOK'
  <2>1. active' \in 0 .. MaxOrg /\ gone' \in [1 .. MaxOrg -> 0 .. Old + 1]
    BY DEF Inv, TypeOK, Switch, Old
  <2>2. QED
    BY <2>1 DEF Inv, TypeOK, Switch
<1>2. CacheInv' /\ \A r \in Requests : AskInv(r)'
  BY DEF Inv, Switch, CacheInv, AskInv, Answer
<1>3. QED
  BY <1>1, <1>2 DEF Inv

LEMMA AgedEffect ==
    ASSUME NEW V, NEW e \in Entry(V)
    PROVE  /\ Aged(e) \in Entry(V) /\ Aged(e).value = e.value
           /\ Aged(e).ttl = IF e.ttl = 0 THEN 0 ELSE e.ttl - 1
BY DEF Aged, Entry

LEMMA InvTick ==
    ASSUME Inv, Tick
    PROVE  Inv'
<1>0. TypeOK
  BY DEF Inv
<1>1. \A o \in Orgs : roleCache[o] \in Entry(Roles) /\ roleCache'[o] = Aged(roleCache[o])
  BY <1>0 DEF TypeOK, Tick
<1>2. orgCache' \in Entry(0 .. MaxOrg)
  BY <1>0, AgedEffect DEF TypeOK, Tick
<1>3. roleCache' \in [Orgs -> Entry(Roles)]
  BY <1>1, AgedEffect DEF Tick
<1>4. wait' \in [Requests -> 0 .. MaxLag]
  BY <1>0 DEF TypeOK, Tick
<1>5. gone' \in [1 .. MaxOrg -> 0 .. Old + 1]
  BY <1>0 DEF TypeOK, Tick, Old
<1>6. TypeOK'
  BY <1>0, <1>2, <1>3, <1>4, <1>5 DEF TypeOK, Tick
<1>7. CacheInv'
  <2>1. ASSUME NEW o \in Orgs, roleCache'[o].ttl > 0 PROVE roleCache'[o].value = OrgRole[o]
    <3>1. roleCache'[o].value = roleCache[o].value /\ roleCache[o].ttl # 0
      BY <1>1, <2>1, AgedEffect
    <3>2. roleCache[o].ttl > 0
      BY <1>1, <3>1 DEF Entry
    <3>3. QED
      BY <3>1, <3>2 DEF Inv, CacheInv
  <2>2. QED
    BY <2>1 DEF CacheInv
<1>8. \A r \in Requests : AskInv(r)'
  BY DEF Inv, Tick, AskInv, Answer
<1>9. QED
  BY <1>6, <1>7, <1>8 DEF Inv

LEMMA InvBegin ==
    ASSUME Inv, NEW r \in Requests, Begin(r)
    PROVE  Inv'
<1>0. TypeOK /\ AskInv(r) /\ pc[r] = "idle" /\ UNCHANGED <<stores, token, held, wait, gone>>
  BY DEF Inv, Begin
<1>1. CASE token[r].uid
  <2>1. Goto(r, "cache")
    BY <1>1 DEF Begin
  <2>2. /\ pc' \in [Requests -> PCs] /\ UNCHANGED <<what, live, org, role>>
        /\ \A q \in Requests \ {r} : pc'[q] = pc[q]
        /\ pc'[r] = "cache"
    BY <1>0, <2>1, GotoEffect DEF PCs
  <2>3. AskInv(r)'
    BY <1>0, <2>2 DEF AskInv
  <2>4. QED
    BY <1>0, <2>2, <2>3, Moves DEF TypeOK, stores
<1>2. CASE ~token[r].uid
  <2>1. Choose(token[r], None) \in Orgs
    BY <1>0, Sets DEF TypeOK
  <2>2. /\ pc' = [pc EXCEPT ![r] = "done"] /\ org' = [org EXCEPT ![r] = Choose(token[r], None)]
        /\ UNCHANGED <<what, live, role>>
    BY <1>2 DEF Begin
  <2>3. pc' \in [Requests -> PCs] /\ org' \in [Requests -> {None} \cup Orgs]
    BY <1>0, <2>1, <2>2 DEF TypeOK, PCs
  <2>4. AskInv(r)'
    BY <1>0, <2>1, <2>2 DEF AskInv, TypeOK
  <2>5. \A q \in Requests \ {r} : pc'[q] = pc[q] /\ org'[q] = org[q]
    BY <1>0, <2>2 DEF TypeOK
  <2>6. QED
    BY <1>0, <2>2, <2>3, <2>4, <2>5, Moves DEF TypeOK, stores
<1>3. QED
  BY <1>1, <1>2

\* A step of a look-up that writes neither the cache nor what is to be cached.
LEMMA InvReturn ==
    ASSUME Inv, NEW r \in Requests, pc[r] # "done", NEW v, Answer(r, v), Return(r, v),
           pool' \in [Procs -> BOOLEAN], cooling' \in [Procs -> BOOLEAN],
           UNCHANGED <<active, orgCache, roleCache, token, held, wait, gone>>
    PROVE  Inv'
<1>1. AskInv(r)'
  BY ReturnEffect DEF AskInv
<1>2. QED
  BY <1>1, ReturnEffect, Moves

LEMMA InvGoto ==
    ASSUME Inv, NEW r \in Requests, pc[r] # "done", NEW label \in {"pool", "connect", "query"},
           Goto(r, label), pool' \in [Procs -> BOOLEAN], cooling' \in [Procs -> BOOLEAN],
           UNCHANGED <<active, orgCache, roleCache, token, held, wait, gone>>
    PROVE  Inv'
<1>1. /\ pc' \in [Requests -> PCs] /\ UNCHANGED <<what, live, org, role>>
      /\ \A q \in Requests \ {r} : pc'[q] = pc[q]
      /\ pc'[r] = label
  BY GotoEffect DEF PCs
<1>2. AskInv(r)'
  BY <1>1 DEF Inv, AskInv
<1>3. QED
  BY <1>1, <1>2, Moves DEF Inv, TypeOK

\* A hit of the cache is an answer.
LEMMA CachedAnswers ==
    ASSUME Inv, NEW r \in Requests, Cached(r).ttl > 0
    PROVE  Answer(r, Cached(r).value)
<1>1. CASE what[r] = "org"
  BY <1>1 DEF Inv, TypeOK, Cached, Answer, Entry
<1>2. CASE what[r] = "role"
  <2>1. org[r] \in Orgs /\ Cached(r) = roleCache[org[r]]
    BY <1>2 DEF Inv, AskInv, Cached, RoleKey
  <2>2. QED
    BY <1>2, <2>1 DEF Inv, CacheInv, Answer
<1>3. QED
  BY <1>1, <1>2 DEF Inv, TypeOK

LEMMA NoneAnswers ==
    ASSUME NEW r \in Requests
    PROVE  Answer(r, None)
BY Sets DEF Answer

LEMMA InvQuery ==
    ASSUME Inv, NEW r \in Requests, Query(r)
    PROVE  Inv'
<1>0. TypeOK /\ AskInv(r) /\ pc[r] = "query" /\ UNCHANGED <<stores, token, gone>>
  BY DEF Inv, Query
<1>1. CASE Return(r, None) /\ UNCHANGED <<held, wait>>
  BY <1>0, <1>1, NoneAnswers, InvReturn DEF TypeOK, stores
<1>2. CASE /\ held' = [held EXCEPT ![r] = IF what[r] = "org" THEN active ELSE OrgRole[org[r]]]
           /\ wait' = [wait EXCEPT ![r] = 0]
           /\ Goto(r, "store")
  <2>1. /\ pc' \in [Requests -> PCs] /\ UNCHANGED <<what, live, org, role>>
        /\ \A q \in Requests \ {r} : pc'[q] = pc[q]
        /\ pc'[r] = "store"
    BY <1>0, <1>2, GotoEffect DEF PCs
  <2>2. /\ held' \in [Requests -> (0 .. MaxOrg) \cup Roles]
        /\ held'[r] = IF what[r] = "org" THEN active ELSE OrgRole[org[r]]
        /\ \A q \in Requests \ {r} : held'[q] = held[q]
    BY <1>0, <1>2, Sets DEF TypeOK, AskInv
  <2>3. wait' \in [Requests -> 0 .. MaxLag]
    BY <1>0, <1>2 DEF TypeOK
  <2>4. TypeOK'
    BY <1>0, <2>1, <2>2, <2>3 DEF TypeOK, stores, PCs
  <2>5. AskInv(r)'
    BY <1>0, <2>1, <2>2 DEF AskInv, Answer, TypeOK
  <2>6. \A q \in Requests \ {r} : AskInv(q)'
    BY <2>1, <2>2, AskKept DEF Inv
  <2>7. CacheInv'
    BY <1>0 DEF Inv, CacheInv, stores
  <2>8. QED
    BY <2>4, <2>5, <2>6, <2>7 DEF Inv
<1>3. QED
  BY <1>1, <1>2 DEF Query

LEMMA InvStore ==
    ASSUME Inv, NEW r \in Requests, Store(r)
    PROVE  Inv'
<1>0. TypeOK /\ AskInv(r) /\ pc[r] = "store" /\ UNCHANGED <<active, pool, cooling, token, gone>>
  BY DEF Inv, Store
<1>1. Answer(r, held[r]) /\ Return(r, held[r])
  BY <1>0 DEF AskInv, Store
<1>2. /\ orgCache' \in Entry(0 .. MaxOrg) /\ roleCache' \in [Orgs -> Entry(Roles)]
      /\ CacheInv'
  <2>1. CASE UNCHANGED <<orgCache, roleCache>>
    BY <1>0, <2>1 DEF Inv, CacheInv, TypeOK
  <2>2. CASE Cache(r) /\ what[r] = "org"
    BY <1>0, <1>1, <2>2 DEF Cache, Fresh, Entry, Answer, Inv, CacheInv, TypeOK
  <2>3. CASE Cache(r) /\ what[r] = "role"
    <3>1. org[r] \in Orgs /\ held[r] = OrgRole[org[r]] /\ held[r] \in Roles
      BY <1>0, <2>3, Sets DEF AskInv
    <3>2. Fresh(held[r]) \in Entry(Roles) /\ Fresh(held[r]).value = held[r]
      BY <3>1 DEF Fresh, Entry
    <3>3. roleCache' = [roleCache EXCEPT ![org[r]] = Fresh(held[r])] /\ UNCHANGED orgCache
      BY <2>3 DEF Cache, RoleKey
    <3>4. QED
      BY <1>0, <3>1, <3>2, <3>3 DEF Inv, CacheInv, TypeOK
  <2>4. QED
    BY <1>0, <2>1, <2>2, <2>3 DEF Store, TypeOK
<1>3. /\ held' \in [Requests -> (0 .. MaxOrg) \cup Roles] /\ wait' \in [Requests -> 0 .. MaxLag]
      /\ \A q \in Requests \ {r} : held'[q] = held[q]
  BY <1>0, Sets DEF TypeOK, Store
<1>4. TypeOK'
  BY <1>0, <1>1, <1>2, <1>3, ReturnEffect DEF TypeOK, PCs
<1>5. AskInv(r)'
  BY <1>0, <1>1, ReturnEffect DEF AskInv
<1>6. \A q \in Requests \ {r} : AskInv(q)'
  BY <1>0, <1>1, <1>3, ReturnEffect, AskKept DEF Inv
<1>7. QED
  BY <1>2, <1>4, <1>5, <1>6 DEF Inv

LEMMA InvStep == Inv /\ [Next]_vars => Inv'
<1> SUFFICES ASSUME Inv, [Next]_vars PROVE Inv'
  OBVIOUS
<1>0. TypeOK
  BY DEF Inv
<1>1. CASE UNCHANGED vars
  BY <1>1 DEF vars, Inv, TypeOK, CacheInv, AskInv, Answer
<1>2. CASE Switch \/ Tick
  BY <1>2, InvSwitch, InvTick
<1>3. ASSUME NEW p \in Procs, CoolDown(p) PROVE Inv'
  <2>1. TypeOK'
    BY <1>0, <1>3 DEF TypeOK, CoolDown
  <2>2. CacheInv' /\ \A r \in Requests : AskInv(r)'
    BY <1>3 DEF Inv, CoolDown, CacheInv, AskInv, Answer
  <2>3. QED
    BY <2>1, <2>2 DEF Inv
<1>4. ASSUME NEW r \in Requests, Begin(r) PROVE Inv'
  BY <1>4, InvBegin
<1>5. ASSUME NEW r \in Requests, ReadCache(r) PROVE Inv'
  <2>1. pc[r] = "cache" /\ UNCHANGED <<stores, token, held, wait, gone>>
    BY <1>5 DEF ReadCache
  <2>2. CASE Cached(r).ttl > 0 /\ Return(r, Cached(r).value)
    BY <1>0, <2>1, <2>2, CachedAnswers, InvReturn DEF TypeOK, stores
  <2>3. CASE Goto(r, "pool")
    BY <1>0, <2>1, <2>3, InvGoto DEF TypeOK, stores
  <2>4. QED
    BY <1>5, <2>2, <2>3 DEF ReadCache
<1>6. ASSUME NEW r \in Requests, GetPool(r) PROVE Inv'
  <2>1. pc[r] = "pool" /\ UNCHANGED <<stores, token, held, wait, gone>>
    BY <1>6 DEF GetPool
  <2>2. CASE Return(r, None)
    BY <1>0, <2>1, <2>2, NoneAnswers, InvReturn DEF TypeOK, stores
  <2>3. CASE Goto(r, "query") \/ Goto(r, "connect")
    BY <1>0, <2>1, <2>3, InvGoto DEF TypeOK, stores
  <2>4. QED
    BY <1>6, <2>2, <2>3 DEF GetPool
<1>7. ASSUME NEW r \in Requests, Connect(r) PROVE Inv'
  <2>1. /\ pc[r] = "connect"
        /\ pool' \in [Procs -> BOOLEAN] /\ cooling' \in [Procs -> BOOLEAN]
        /\ UNCHANGED <<active, orgCache, roleCache, token, held, wait, gone>>
    BY <1>0, <1>7 DEF Connect, TypeOK
  <2>2. CASE Return(r, None)
    BY <2>1, <2>2, NoneAnswers, InvReturn
  <2>3. CASE Goto(r, "query")
    BY <2>1, <2>3, InvGoto
  <2>4. QED
    BY <1>7, <2>2, <2>3 DEF Connect
<1>8. ASSUME NEW r \in Requests, Query(r) \/ Store(r) PROVE Inv'
  BY <1>8, InvQuery, InvStore
<1>9. QED
  BY <1>1, <1>2, <1>3, <1>4, <1>5, <1>6, <1>7, <1>8 DEF Next, Step

LEMMA InvAlways == Spec => []Inv
<1>1. QED
  BY InvInit, InvStep, PTL DEF Spec

\* The variables keep their types.
THEOREM TypeCorrect == Spec => []TypeOK
<1>1. Inv => TypeOK
  BY DEF Inv
<1>2. QED
  BY <1>1, InvAlways, PTL

\* The role a request acts with is the user's in the organization it acts for,
\* whoever filled the cache, whatever failed, and however the user switched.
THEOREM RolesAreOfOrg == Spec => []RoleIsOfOrg
<1>1. Inv => RoleIsOfOrg
  BY DEF Inv, AskInv, RoleIsOfOrg
<1>2. QED
  BY <1>1, InvAlways, PTL

-----------------------------------------------------------------------------
(***************************************************************************)
(* An organization that is cached, or held to be cached, was active not    *)
(* long ago: what is left of the life of its key and the time since the    *)
(* user left it never exceed a full life and a lag.                        *)
(***************************************************************************)
HeldRecent(r) ==
    pc[r] = "store" /\ what[r] = "org" /\ held[r] # None => gone[held[r]] <= wait[r]

RecentInv ==
    /\ active # None => gone[active] = 0
    /\ orgCache.ttl > 0 /\ orgCache.value # None => gone[orgCache.value] + orgCache.ttl <= Old + 1
    /\ \A r \in Requests : HeldRecent(r)

LEMMA RecentInit == Init => RecentInv
<1> SUFFICES ASSUME Init PROVE RecentInv
  OBVIOUS
<1>1. active # None => gone[active] = 0
  BY DEF Init, None
<1>2. QED
  BY <1>1 DEF Init, RecentInv, HeldRecent

LEMMA RecentTick ==
    ASSUME Inv, RecentInv, Tick
    PROVE  RecentInv'
<1>0. TypeOK
  BY DEF Inv
<1>1. /\ \A o \in 1 .. MaxOrg : gone'[o] = IF o = active THEN 0 ELSE IF gone[o] > Old THEN Old + 1 ELSE gone[o] + 1
      /\ \A r \in Requests : wait'[r] = IF pc[r] = "store" THEN wait[r] + 1 ELSE 0
      /\ UNCHANGED <<active, pc, what, held>>
  BY DEF Tick
<1>2. active' # None => gone'[active'] = 0
  BY <1>0, <1>1 DEF TypeOK, None
<1>3. ASSUME orgCache'.ttl > 0, orgCache'.value # None
      PROVE  gone'[orgCache'.value] + orgCache'.ttl <= Old + 1
  <2>1. orgCache \in Entry(0 .. MaxOrg) /\ orgCache' = Aged(orgCache)
    BY <1>0 DEF TypeOK, Tick
  <2>2. /\ orgCache.ttl \in Nat /\ orgCache.ttl <= TTL + 1 /\ orgCache.value \in 0 .. MaxOrg
        /\ orgCache'.value = orgCache.value
        /\ orgCache'.ttl = IF orgCache.ttl = 0 THEN 0 ELSE orgCache.ttl - 1
    BY <2>1, AgedEffect DEF Entry
  <2>3. orgCache.value \in 1 .. MaxOrg
    BY <1>3, <2>2 DEF None
  <2>4. gone[orgCache.value] \in Nat /\ Old \in Nat /\ TTL <= Old
    BY <1>0, <2>3 DEF TypeOK, Old
  <2>5. orgCache.ttl > 0 /\ orgCache'.ttl = orgCache.ttl - 1
    BY <1>3, <2>2
  <2>6. gone[orgCache.value] + orgCache.ttl <= Old + 1
    BY <1>3, <2>2, <2>5 DEF RecentInv
  <2>7. gone'[orgCache.value] <= gone[orgCache.value] + 1
    BY <1>1, <2>3, <2>4
  <2>8. gone'[orgCache.value] \in Nat
    BY <1>1, <2>3, <2>4
  <2>9. QED
    BY <2>2, <2>4, <2>5, <2>6, <2>7, <2>8
<1>4. ASSUME NEW r \in Requests, pc'[r] = "store", what'[r] = "org", held'[r] # None
      PROVE  gone'[held'[r]] <= wait'[r]
  <2>1. pc[r] = "store" /\ what[r] = "org" /\ held'[r] = held[r] /\ held[r] # None
    BY <1>1, <1>4
  <2>2. held[r] \in 1 .. MaxOrg
    BY <2>1 DEF Inv, AskInv, Answer, None
  <2>3. gone[held[r]] \in Nat /\ wait[r] \in Nat /\ Old \in Nat
    BY <1>0, <2>2 DEF TypeOK, Old
  <2>4. gone[held[r]] <= wait[r]
    BY <2>1 DEF RecentInv, HeldRecent
  <2>5. gone'[held[r]] <= gone[held[r]] + 1
    BY <1>1, <2>2, <2>3
  <2>6. wait'[r] = wait[r] + 1
    BY <1>1, <2>1
  <2>7. gone'[held[r]] \in Nat
    BY <1>1, <2>2, <2>3
  <2>8. QED
    BY <2>1, <2>3, <2>4, <2>5, <2>6, <2>7
<1>5. QED
  BY <1>2, <1>3, <1>4 DEF RecentInv, HeldRecent

LEMMA RecentSwitch ==
    ASSUME Inv, RecentInv, Switch
    PROVE  RecentInv'
<1>0. TypeOK
  BY DEF Inv
<1>1. /\ active' = active + 1 /\ active' \in 1 .. MaxOrg /\ gone'[active'] = 0
      /\ \A o \in 1 .. MaxOrg : gone'[o] <= gone[o] /\ gone'[o] \in Nat /\ gone[o] \in Nat
  BY <1>0 DEF TypeOK, Switch, Old
<1>2. ASSUME orgCache.ttl > 0, orgCache.value # None
      PROVE  gone'[orgCache.value] + orgCache.ttl <= Old + 1
  <2>1. orgCache.value \in 1 .. MaxOrg /\ orgCache.ttl \in Nat /\ Old \in Nat
    BY <1>0, <1>2 DEF TypeOK, Entry, None, Old
  <2>2. gone[orgCache.value] + orgCache.ttl <= Old + 1
    BY <1>2 DEF RecentInv
  <2>3. QED
    BY <1>1, <2>1, <2>2
<1>3. ASSUME NEW r \in Requests, pc[r] = "store", what[r] = "org", held[r] # None
      PROVE  gone'[held[r]] <= wait[r]
  <2>1. held[r] \in 1 .. MaxOrg /\ wait[r] \in Nat
    BY <1>0, <1>3 DEF Inv, AskInv, Answer, None, TypeOK
  <2>2. gone[held[r]] <= wait[r]
    BY <1>3 DEF RecentInv, HeldRecent
  <2>3. QED
    BY <1>1, <2>1, <2>2
<1>4. UNCHANGED <<orgCache, pc, what, held, wait>>
  BY DEF Switch
<1>5. QED
  BY <1>1, <1>2, <1>3, <1>4 DEF RecentInv, HeldRecent

LEMMA HeldKept ==
    ASSUME NEW q \in Requests, HeldRecent(q),
           pc'[q] = pc[q], what'[q] = what[q], held'[q] = held[q], wait'[q] = wait[q],
           UNCHANGED gone
    PROVE  HeldRecent(q)'
BY DEF HeldRecent

\* A step of a request is no trouble but where it asks and where it writes.
LEMMA RecentRequest ==
    ASSUME Inv, RecentInv, NEW r \in Requests, Begin(r) \/ Step(r)
    PROVE  RecentInv'
<1>0. TypeOK
  BY DEF Inv
<1>1. UNCHANGED <<active, gone>>
  BY DEF Begin, Step, ReadCache, GetPool, Connect, Query, Store, stores
<1>2. \A q \in Requests \ {r} : /\ pc'[q] = pc[q] /\ what'[q] = what[q]
                                 /\ held'[q] = held[q] /\ wait'[q] = wait[q]
  <2>1. \A q \in Requests \ {r} : held'[q] = held[q] /\ wait'[q] = wait[q]
    BY <1>0 DEF TypeOK, Begin, Step, ReadCache, GetPool, Connect, Query, Store
  <2>2. \A q \in Requests \ {r} : pc'[q] = pc[q] /\ what'[q] = what[q]
    BY <1>0 DEF TypeOK, Begin, Step, ReadCache, GetPool, Connect, Query, Store, Return, Goto
  <2>3. QED
    BY <2>1, <2>2
<1>3. \A q \in Requests \ {r} : HeldRecent(q)'
  BY <1>1, <1>2, HeldKept DEF RecentInv
<1>4. CASE Begin(r) \/ ReadCache(r) \/ GetPool(r) \/ Connect(r)
  <2>1. pc'[r] # "store" /\ UNCHANGED orgCache
    BY <1>0, <1>4 DEF TypeOK, Begin, ReadCache, GetPool, Connect, Return, Goto, stores
  <2>2. QED
    BY <1>1, <1>3, <2>1 DEF RecentInv, HeldRecent
<1>5. CASE Query(r)
  <2>1. UNCHANGED orgCache
    BY <1>5 DEF Query, stores
  <2>2. CASE Return(r, None)
    <3>1. pc'[r] # "store"
      BY <1>0, <2>2 DEF TypeOK, Return
    <3>2. QED
      BY <1>1, <1>3, <2>1, <3>1 DEF RecentInv, HeldRecent
  <2>3. CASE /\ held' = [held EXCEPT ![r] = IF what[r] = "org" THEN active ELSE OrgRole[org[r]]]
             /\ wait' = [wait EXCEPT ![r] = 0]
             /\ Goto(r, "store")
    <3>1. what'[r] = what[r] /\ wait'[r] = 0 /\ (what[r] = "org" => held'[r] = active)
      BY <1>0, <2>3 DEF TypeOK, Goto
    <3>2. HeldRecent(r)'
      BY <1>1, <3>1 DEF RecentInv, HeldRecent
    <3>3. QED
      BY <1>1, <1>3, <2>1, <3>2 DEF RecentInv
  <2>4. QED
    BY <1>5, <2>2, <2>3 DEF Query
<1>6. CASE Store(r)
  <2>1. pc[r] = "store" /\ Return(r, held[r])
    BY <1>6 DEF Store
  <2>2. pc'[r] # "store"
    BY <1>0, <2>1 DEF TypeOK, Return
  <2>3. CASE UNCHANGED orgCache
    BY <1>1, <1>3, <2>2, <2>3 DEF RecentInv, HeldRecent
  <2>4. CASE what[r] = "org" /\ orgCache' = Fresh(held[r])
    <3>1. orgCache'.value = held[r] /\ orgCache'.ttl = TTL + 1
      BY <2>4 DEF Fresh
    <3>2. ASSUME held[r] # None PROVE gone[held[r]] + (TTL + 1) <= Old + 1
      <4>1. held[r] \in 1 .. MaxOrg /\ wait[r] \in 0 .. MaxLag
        BY <1>0, <2>1, <2>4, <3>2 DEF Inv, AskInv, Answer, None, TypeOK
      <4>2. gone[held[r]] \in Nat
        BY <1>0, <4>1 DEF TypeOK
      <4>3. gone[held[r]] <= wait[r]
        BY <2>1, <2>4, <3>2 DEF RecentInv, HeldRecent
      <4>4. QED
        BY <4>1, <4>2, <4>3 DEF Old
    <3>3. QED
      BY <1>1, <1>3, <2>2, <3>1, <3>2 DEF RecentInv, HeldRecent
  <2>5. QED
    BY <1>0, <1>6, <2>3, <2>4 DEF Store, Cache, TypeOK
<1>7. QED
  BY <1>4, <1>5, <1>6 DEF Step

LEMMA RecentStep == Inv /\ RecentInv /\ [Next]_vars => RecentInv'
<1> SUFFICES ASSUME Inv, RecentInv, [Next]_vars PROVE RecentInv'
  OBVIOUS
<1>1. CASE UNCHANGED vars
  BY <1>1 DEF vars, RecentInv, HeldRecent
<1>2. CASE Switch \/ Tick
  BY <1>2, RecentSwitch, RecentTick
<1>3. ASSUME NEW p \in Procs, CoolDown(p) PROVE RecentInv'
  BY <1>3 DEF CoolDown, RecentInv, HeldRecent
<1>4. ASSUME NEW r \in Requests, Begin(r) \/ Step(r) PROVE RecentInv'
  BY <1>4, RecentRequest
<1>5. QED
  BY <1>1, <1>2, <1>3, <1>4 DEF Next

\* A request that has not begun has found nothing yet.
NothingFound == \A r \in Requests : pc[r] = "idle" => live[r] = None

LEMMA NothingFoundStep == Inv /\ NothingFound /\ [Next]_vars => NothingFound'
<1> SUFFICES ASSUME Inv, NothingFound, [Next]_vars PROVE NothingFound'
  OBVIOUS
<1>0. TypeOK
  BY DEF Inv
<1>1. CASE UNCHANGED <<pc, live>>
  BY <1>1 DEF NothingFound
<1>2. ASSUME NEW q \in Requests, Begin(q) \/ Step(q) PROVE NothingFound'
  <2>1. ASSUME NEW v, Return(q, v) PROVE NothingFound'
    BY <1>0, <2>1 DEF TypeOK, NothingFound, Return
  <2>2. ASSUME NEW label \in PCs \ {"idle"}, Goto(q, label) PROVE NothingFound'
    BY <1>0, <2>2 DEF TypeOK, NothingFound, Goto
  <2>3. CASE /\ pc' = [pc EXCEPT ![q] = "done"]
             /\ UNCHANGED live
    BY <1>0, <2>3 DEF TypeOK, NothingFound
  <2>4. QED
    BY <1>2, <2>1, <2>2, <2>3 DEF Begin, Step, ReadCache, GetPool, Connect, Query, Store, PCs
<1>3. QED
  BY <1>1, <1>2 DEF Next, vars, Switch, Tick, CoolDown

\* Without an answer, only a trusted claim leads to an organization of the user.
LEMMA ClaimOrDerived ==
    ASSUME NEW t \in Tokens, Choose(t, None) \in 1 .. MaxOrg
    PROVE  t.trusted /\ Choose(t, None) = t.claim
BY DEF Choose, Claimed, Derived, None

\* What a request acts for, where it was left too long ago, is no answer.
LEMMA ChosenRecent ==
    ASSUME Inv, RecentInv, NothingFound, [Next]_vars, NEW r \in Requests,
           org'[r] # org[r], org'[r] \in 1 .. MaxOrg, gone[org'[r]] > Old
    PROVE  live'[r] = None /\ token[r].trusted /\ org'[r] = token[r].claim
<1>0. TypeOK /\ token[r] \in Tokens
  BY DEF Inv, TypeOK
<1>1. PICK q \in Requests : Begin(q) \/ Step(q)
  BY DEF Next, vars, Switch, Tick, CoolDown
<1>2. ~ \E label : Goto(q, label)
  BY DEF Goto
<1>3. CASE /\ pc[q] = "idle"
           /\ org' = [org EXCEPT ![q] = Choose(token[q], None)]
           /\ UNCHANGED live
  <2>1. q = r /\ org'[r] = Choose(token[r], None)
    BY <1>0, <1>3 DEF TypeOK
  <2>2. live'[r] = None
    BY <1>3, <2>1 DEF NothingFound
  <2>3. QED
    BY <1>0, <2>1, <2>2, ClaimOrDerived
<1>4. ASSUME NEW v, Return(q, v), v # None => v \in 1 .. MaxOrg /\ gone[v] <= Old
      PROVE  live'[r] = None /\ token[r].trusted /\ org'[r] = token[r].claim
  <2>1. what[q] = "org"
    BY <1>4 DEF Return
  <2>2. org' = [org EXCEPT ![q] = Choose(token[q], v)] /\ live' = [live EXCEPT ![q] = v]
    BY <1>4, <2>1 DEF Return
  <2>3. q = r /\ org'[r] = Choose(token[r], v) /\ live'[r] = v
    BY <1>0, <2>2 DEF TypeOK
  <2>4. CASE v # None
    <3>1. org'[r] = v /\ v \in 1 .. MaxOrg /\ gone[v] <= Old
      BY <1>4, <2>3, <2>4 DEF Choose
    <3>2. gone[v] \in Nat /\ Old \in Nat
      BY <1>0, <3>1 DEF TypeOK, Old
    <3>3. QED
      BY <3>1, <3>2
  <2>5. CASE v = None
    BY <1>0, <2>3, <2>5, ClaimOrDerived
  <2>6. QED
    BY <2>4, <2>5
<1>5. CASE Return(q, None)
  BY <1>4, <1>5
<1>6. CASE what[q] = "role"
  BY <1>1, <1>2, <1>3, <1>6 DEF Begin, Step, ReadCache, GetPool, Connect, Query, Store, Return
<1>7. CASE what[q] = "org" /\ Cached(q).ttl > 0 /\ Return(q, Cached(q).value)
  <2>1. Cached(q) = orgCache
    BY <1>7 DEF Cached
  <2>2. orgCache.value \in 0 .. MaxOrg /\ orgCache.ttl \in Nat
    BY <1>0 DEF TypeOK, Entry
  <2>3. ASSUME orgCache.value # None
        PROVE  orgCache.value \in 1 .. MaxOrg /\ gone[orgCache.value] <= Old
    <3>1. orgCache.value \in 1 .. MaxOrg
      BY <2>2, <2>3 DEF None
    <3>2. gone[orgCache.value] + orgCache.ttl <= Old + 1
      BY <1>7, <2>1, <2>3 DEF RecentInv
    <3>3. gone[orgCache.value] \in Nat /\ Old \in Nat
      BY <1>0, <3>1 DEF TypeOK, Old
    <3>4. QED
      BY <1>7, <2>1, <2>2, <3>1, <3>2, <3>3
  <2>4. QED
    BY <1>4, <1>7, <2>1, <2>3
<1>8. CASE what[q] = "org" /\ pc[q] = "store" /\ Return(q, held[q])
  <2>1. ASSUME held[q] # None PROVE held[q] \in 1 .. MaxOrg /\ gone[held[q]] <= Old
    <3>1. held[q] \in 1 .. MaxOrg /\ wait[q] \in 0 .. MaxLag
      BY <1>0, <1>8, <2>1 DEF Inv, AskInv, Answer, None, TypeOK
    <3>2. gone[held[q]] <= wait[q] /\ gone[held[q]] \in Nat
      BY <1>0, <1>8, <2>1, <3>1 DEF RecentInv, HeldRecent, TypeOK
    <3>3. QED
      BY <3>1, <3>2 DEF Old
  <2>2. QED
    BY <1>4, <1>8, <2>1
<1>9. what[q] \in {"org", "role"}
  BY <1>0 DEF TypeOK
<1>10. QED
  BY <1>1, <1>2, <1>3, <1>5, <1>6, <1>7, <1>8, <1>9
     DEF Begin, Step, ReadCache, GetPool, Connect, Query, Store

\* A request acts for an organization that was left longer ago than the life of a
\* cached key and the lag of its write allow only by the claim of a trusted token,
\* and only when the look-up gave it nothing.
THEOREM AnswersStayRecent == Spec => AnswersAreRecent
<1>1. ASSUME Inv, RecentInv, NothingFound, [Next]_vars
      PROVE  [\A r \in Requests :
                 /\ org'[r] # org[r]
                 /\ org'[r] \in 1 .. MaxOrg /\ gone[org'[r]] > Old
                 => live'[r] = None /\ token[r].trusted /\ org'[r] = token[r].claim]_vars
  BY <1>1, ChosenRecent
<1>2. Init => RecentInv /\ NothingFound
  BY RecentInit DEF Init, NothingFound
<1>3. Inv /\ RecentInv /\ [Next]_vars => RecentInv'
  BY RecentStep
<1>4. Inv /\ NothingFound /\ [Next]_vars => NothingFound'
  BY NothingFoundStep
<1>5. QED
  BY <1>1, <1>2, <1>3, <1>4, InvAlways, PTL DEF Spec, AnswersAreRecent

-----------------------------------------------------------------------------
(***************************************************************************)
(* Every request is answered.  At most ten steps lie before a request that *)
(* looks something up: five for its organization and five for its role,    *)
(* and each of its own steps takes at least one of them away.              *)
(***************************************************************************)
Asking(r) == pc[r] \in {"cache", "pool", "connect", "query", "store"}

Ahead(label) ==
    IF label = "cache" THEN 5 ELSE IF label = "pool" THEN 4
    ELSE IF label = "connect" THEN 3 ELSE IF label = "query" THEN 2 ELSE 1

Left(r) == IF what[r] = "org" THEN 5 + Ahead(pc[r]) ELSE Ahead(pc[r])

At(r, k) == Asking(r) /\ Left(r) = k
Below(r, k) == pc[r] = "done" \/ (Asking(r) /\ Left(r) < k)

\* What the prover is not told of ENABLED: each guard of a look-up's steps is all
\* that the step needs, so that a request that asks can go on.
CanGoOn(r) == ENABLED <<Step(r)>>_vars
AskersCanGoOn == \A r \in Requests : Asking(r) => CanGoOn(r)

\* A look-up that returns, or goes on to the next of its steps.
LEMMA LeftFalls ==
    ASSUME TypeOK, NEW r \in Requests, Asking(r),
           \/ \E v : Return(r, v)
           \/ \E label \in {"pool", "connect", "query", "store"} :
                 Goto(r, label) /\ Ahead(label) < Ahead(pc[r])
    PROVE  pc'[r] = "done" \/ (Asking(r)' /\ Left(r)' < Left(r))
<1>1. ASSUME NEW v, Return(r, v), what[r] = "org" PROVE Asking(r)' /\ Left(r)' < Left(r)
  <2>1. pc'[r] = "cache" /\ what'[r] = "role"
    BY <1>1 DEF Return, TypeOK
  <2>2. Left(r)' = 5 /\ Left(r) \in 6 .. 10
    BY <1>1, <2>1 DEF Left, Ahead
  <2>3. QED
    BY <2>1, <2>2 DEF Asking
<1>2. ASSUME NEW v, Return(r, v), what[r] # "org" PROVE pc'[r] = "done"
  BY <1>2 DEF Return, TypeOK
<1>3. ASSUME NEW label \in {"pool", "connect", "query", "store"}, Goto(r, label),
             Ahead(label) < Ahead(pc[r])
      PROVE  Asking(r)' /\ Left(r)' < Left(r)
  <2>1. pc'[r] = label /\ what'[r] = what[r]
    BY <1>3 DEF Goto, TypeOK
  <2>2. Ahead(label) \in Nat /\ Ahead(pc[r]) \in Nat
    BY DEF Ahead
  <2>3. Left(r)' < Left(r)
    BY <1>3, <2>1, <2>2 DEF Left
  <2>4. QED
    BY <2>1, <2>3 DEF Asking
<1>4. QED
  BY <1>1, <1>2, <1>3

LEMMA StepFalls ==
    ASSUME TypeOK, NEW r \in Requests, Step(r)
    PROVE  Asking(r) /\ (pc'[r] = "done" \/ (Asking(r)' /\ Left(r)' < Left(r)))
<1>1. Asking(r)
  BY DEF Asking, Step, ReadCache, GetPool, Connect, Query, Store
<1>2. \/ \E v : Return(r, v)
      \/ \E label \in {"pool", "connect", "query", "store"} :
            Goto(r, label) /\ Ahead(label) < Ahead(pc[r])
  BY DEF Step, ReadCache, GetPool, Connect, Query, Store, Ahead
<1>3. QED
  BY <1>1, <1>2, LeftFalls

\* Nothing but its own step moves a request that asks.
LEMMA OthersLeaveIt ==
    ASSUME TypeOK, NEW r \in Requests, Asking(r), [Next]_vars, ~Step(r)
    PROVE  pc'[r] = pc[r] /\ what'[r] = what[r]
<1>1. CASE UNCHANGED vars
  BY <1>1 DEF vars
<1>2. CASE Switch \/ Tick
  BY <1>2 DEF Switch, Tick
<1>3. ASSUME NEW p \in Procs, CoolDown(p) PROVE pc'[r] = pc[r] /\ what'[r] = what[r]
  BY <1>3 DEF CoolDown
<1>4. ASSUME NEW q \in Requests, Begin(q) PROVE pc'[r] = pc[r] /\ what'[r] = what[r]
  <2>1. q # r
    BY <1>4 DEF Begin, Asking
  <2>2. QED
    BY <1>4, <2>1 DEF Begin, Goto, TypeOK
<1>5. ASSUME NEW q \in Requests \ {r}, Step(q) PROVE pc'[r] = pc[r] /\ what'[r] = what[r]
  BY <1>5 DEF Step, ReadCache, GetPool, Connect, Query, Store, Return, Goto, TypeOK
<1>6. QED
  BY <1>1, <1>2, <1>3, <1>4, <1>5 DEF Next

LEMMA LeftTypes ==
    ASSUME NEW r \in Requests
    PROVE  Left(r) \in 1 .. 10
BY DEF Left, Ahead

\* Fairness of a request's steps, for one request.
LEMMA FairParts == FairSpec => Spec /\ \A r \in Requests : Timely(r)
BY PTL DEF FairSpec

Falls(r, k) == At(r, k) ~> Below(r, k)

Fair == FairSpec /\ []AskersCanGoOn

\* A request does not keep k steps before it for ever.
LEMMA OneLess ==
    ASSUME NEW q \in Requests, NEW k \in 1 .. 10
    PROVE  Fair => Falls(q, k)
<1>1. TypeOK /\ At(q, k) /\ [Next]_vars => At(q, k)' \/ Below(q, k)'
  <2> SUFFICES ASSUME TypeOK, At(q, k), [Next]_vars PROVE At(q, k)' \/ Below(q, k)'
    OBVIOUS
  <2>1. CASE Step(q)
    BY <2>1, StepFalls DEF At, Below
  <2>2. CASE ~Step(q)
    BY <2>2, OthersLeaveIt DEF At, Asking, Left
  <2>3. QED
    BY <2>1, <2>2
<1>2. TypeOK /\ At(q, k) /\ <<Step(q)>>_vars => Below(q, k)'
  BY StepFalls DEF At, Below
<1>3. AskersCanGoOn /\ At(q, k) => CanGoOn(q)
  BY DEF AskersCanGoOn, At
<1>4. (\A r \in Requests : Timely(r)) => Timely(q)
  OBVIOUS
<1>5. Timely(q) => WF_vars(Step(q))
  BY PTL DEF Timely
<1>6. QED
  BY <1>1, <1>2, <1>3, <1>4, <1>5, FairParts, TypeCorrect, PTL
     DEF Fair, Spec, Falls, CanGoOn

LEMMA Lower ==
    ASSUME NEW q \in Requests, NEW k \in 1 .. 10, Below(q, k + 1)
    PROVE  At(q, k) \/ Below(q, k)
BY LeftTypes DEF At, Below

\* resolve_identity fails open: a request that looks anything up gets its identity,
\* whatever Omnius and Redis do and however often the user switches.
THEOREM EveryRequestIsAnswered == FairSpec /\ []AskersCanGoOn => FailsOpen
<1>1. ASSUME NEW r \in Requests
      PROVE  Fair => (pc[r] = "cache" ~> pc[r] = "done")
  <2>1. Fair => /\ Falls(r, 10) /\ Falls(r, 9) /\ Falls(r, 8) /\ Falls(r, 7) /\ Falls(r, 6)
                /\ Falls(r, 5) /\ Falls(r, 4) /\ Falls(r, 3) /\ Falls(r, 2) /\ Falls(r, 1)
    BY OneLess
  <2>2. ASSUME NEW k \in 1 .. 10 PROVE Below(r, k + 1) => At(r, k) \/ Below(r, k)
    BY <2>2, Lower
  <2>3. /\ Below(r, 11) => At(r, 10) \/ Below(r, 10)
        /\ Below(r, 10) => At(r, 9) \/ Below(r, 9)
        /\ Below(r, 9) => At(r, 8) \/ Below(r, 8)
        /\ Below(r, 8) => At(r, 7) \/ Below(r, 7)
        /\ Below(r, 7) => At(r, 6) \/ Below(r, 6)
        /\ Below(r, 6) => At(r, 5) \/ Below(r, 5)
        /\ Below(r, 5) => At(r, 4) \/ Below(r, 4)
        /\ Below(r, 4) => At(r, 3) \/ Below(r, 3)
        /\ Below(r, 3) => At(r, 2) \/ Below(r, 2)
        /\ Below(r, 2) => At(r, 1) \/ Below(r, 1)
    BY <2>2
  <2>4. Below(r, 1) => pc[r] = "done"
    BY LeftTypes DEF Below
  <2>5. pc[r] = "cache" => Below(r, 11)
    BY LeftTypes DEF Below, Asking
  <2>6. QED
    BY <2>1, <2>3, <2>4, <2>5, PTL DEF Falls
<1>2. Fair => FailsOpen
  BY <1>1 DEF FailsOpen
<1>3. QED
  BY <1>2, PTL DEF Fair
=============================================================================
