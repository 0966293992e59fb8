---------------------------- MODULE AccessTokens ----------------------------
(***************************************************************************)
(* What a request may do: the tokens it comes with, the identity that      *)
(* security.py makes of them, the permissions rbac.py gives to a role, and *)
(* the endpoints that mint new tokens from an identity (auth.py,           *)
(* permissions.py), chain after chain.                                     *)
(*                                                                         *)
(* Memberships and active organizations are the Omnius service's.  A       *)
(* look-up finds what is there, or fails; how old a cached answer may be   *)
(* is the subject of IdentityResolution and is part of MaxLag here.        *)
(***************************************************************************)
EXTENDS Naturals, FiniteSets

CONSTANTS
    Users,       \* users of the Omnius service
    Orgs,        \* its organizations
    OwnOrg,      \* OwnOrg[u]: the organization derived from the subject u
    Requests,    \* requests under way
    OrgRoles,    \* the roles a member may have in Omnius
    Asked,       \* the roles asked for in new tokens
    Extras,      \* choices of scopes asked for beside those of the role
    Lives,       \* expires_in_days, in ticks of the clock
    SessionLife, \* BRIDGED_TOKEN_EXPIRE, in ticks
    MaxLag,      \* bound on the ticks from a look-up to what is done with it, but
                 \* for a WebSocket, which lives on
    MaxTime,     \* bound on the clock
    MaxChanges,  \* bound on the changes of roles and active organizations
    MaxTokens,   \* bound on the tokens in use at once
    Faults       \* {"omnius"} if look-ups may fail, else {}

None == "none"

ASSUME TokensAssumption ==
    /\ Orgs # {} /\ None \notin Orgs
    /\ OwnOrg \in [Users -> {OwnOrg[u] : u \in Users}]
    /\ \A u \in Users : OwnOrg[u] \notin Orgs \cup {None}
    /\ Lives \subseteq Nat /\ SessionLife \in Nat /\ MaxLag \in Nat
    /\ MaxTime \in Nat /\ MaxTokens \in Nat /\ MaxChanges \in Nat
    /\ None \notin OrgRoles /\ Asked \subseteq {"owner", "admin", "editor", "viewer", "agent:read",
                                              "agent:write", "agent:full"}

VARIABLES
    now,    \* the clock
    active, \* active[u]: the organization u is switched to, or None
    member, \* member[u][o]: the role of u in o, or None
    changes, \* changes made so far
    issued, \* the tokens in use that the backend and this service have issued
    req,    \* req[r]: the request r, from its look-ups to its end
    \* history
    ever,   \* <<o, x>>: somebody has been owner or administrator x of o
    was     \* was[u][o]: 1 + the last time o was active for u, or 0

world == <<now, active, member, changes, ever, was>>
vars == <<world, issued, req>>

-----------------------------------------------------------------------------
(* rbac.py: permissions, and the sets of them that the roles are. *)

Of(resource, actions) == {<<resource, a>> : a \in actions}

ViewerPermissions ==
    Of("assets", {"read", "list", "download", "search"}) \cup Of("search", {"read"})
        \cup Of("projects", {"read", "list"}) \cup Of("folders", {"read", "list"})

\* Mutation: an editor has all of the connectors, as an agent with full access.
EditorPermissionsWide ==
    ViewerPermissions \cup Of("assets", {"write", "upload", "delete"}) \cup Of("projects", {"write"})
        \cup Of("folders", {"write", "delete"})
        \cup Of("connectors", {"read", "sync", "commit", "branch:create", "pr:create"})

EditorPermissions ==
    ViewerPermissions \cup Of("assets", {"write", "upload", "delete"}) \cup Of("projects", {"write"})
        \cup Of("folders", {"write", "delete"}) \cup Of("connectors", {"read", "sync"})

AgentReadPermissions ==
    Of("assets", {"read", "list", "search", "download"}) \cup Of("projects", {"read", "list"})
        \cup Of("search", {"read"}) \cup Of("agents", {"execute"})

AgentWritePermissions ==
    AgentReadPermissions \cup Of("assets", {"write", "upload", "delete", "summarize", "embed"})
        \cup Of("folders", {"write"}) \cup Of("connectors", {"sync"})

AgentFullPermissions ==
    AgentWritePermissions \cup Of("webhooks", {"read"})
        \cup Of("connectors", {"connect", "pr:create", "pr:merge", "pr:comment", "commit", "branch:create"})

AdminPermissions ==
    EditorPermissions \cup Of("connectors", {"connect", "webhook"}) \cup Of("storage", {"read"})
        \cup Of("members", {"invite", "remove", "manage"}) \cup Of("agents", {"read", "write"})
        \cup Of("api_keys", {"read", "write", "delete"}) \cup Of("audit", {"view"}) \cup Of("org", {"manage"})

OwnerPermissions == AdminPermissions \cup Of("org", {"billing", "delete"}) \cup Of("audit", {"export"})

AgentRoles == {"agent:read", "agent:write", "agent:full"}
Roles == {"owner", "admin", "editor", "viewer"} \cup AgentRoles

\* BUILT_IN_ROLES.
Permissions(x) ==
    CASE x = "owner"       -> OwnerPermissions
      [] x = "admin"       -> AdminPermissions
      [] x = "editor"      -> EditorPermissions
      [] x = "viewer"      -> ViewerPermissions
      [] x = "agent:read"  -> AgentReadPermissions
      [] x = "agent:write" -> AgentWritePermissions
      [] x = "agent:full"  -> AgentFullPermissions

\* from_token: get_current_user hands on the roles of a token, not its scopes.
FromToken(roles) == UNION {Permissions(x) : x \in roles}

\* has: the permission, the administration of its resource, or of everything.
Has(permissions, p) == {p, <<p[1], "admin">>, <<"org", "admin">>} \cap permissions # {}

Privileged(roles) == roles \cap {"owner", "admin"} # {}

\* check_permission.
CheckPermission(roles, p) == Privileged(roles) \/ Has(FromToken(roles), p)

-----------------------------------------------------------------------------
(* Tokens, and who a request with one of them is made for. *)

\* A login with Duniverse, whose token says who the user is and no more.  With
\* uid it has the number that Omnius knows the user by.
Login(u, uid) == [kind |-> "login", user |-> u, uid |-> uid, org |-> None, roles |-> {},
                  scopes |-> {}, exp |-> MaxTime]
Logins == {Login(u, uid) : u \in Users, uid \in BOOLEAN}

Token == [kind : {"login", "backend", "session", "agent", "collaborator"}, user : Users, uid : BOOLEAN,
          org : Orgs \cup {OwnOrg[u] : u \in Users} \cup {None}, roles : SUBSET Roles,
          scopes : SUBSET FromToken(Roles), exp : Nat]

\* jwt.decode: a token is good up to exp.
Valid(t) == now <= t.exp

\* A token without "issuer" is not this service's own.
OwnToken(t) == t.kind \in {"session", "agent", "collaborator"}

\* _ORG_ROLE_TO_FILESERVER_ROLE; any other role maps to nothing.
Mapped(x) ==
    CASE x \in {"viewer", "editor", "admin", "owner"} -> x
      [] x = "member" -> "editor"
      [] OTHER -> None

Default == {"editor"}

\* resolve_identity, where the look-ups found o and x.
OrgOf(t, trust, o) ==
    IF o # None THEN o ELSE IF trust /\ t.org # None THEN t.org ELSE OwnOrg[t.user]

\* The token's roles if they are trusted, else those looked up, else the default.
RolesOf(t, trust, x) ==
    IF trust /\ t.roles # {} THEN t.roles ELSE IF Mapped(x) # None THEN {Mapped(x)} ELSE Default

\* What a look-up may find: the truth, or nothing.
Found(v) == {v} \cup (IF "omnius" \in Faults THEN {None} ELSE {})

RoleIn(u, o) == IF o \in Orgs THEN member[u][o] ELSE None

\* Without a uid nothing is looked up.
FoundOrg(t) == IF t.uid THEN Found(active[t.user]) ELSE {None}

\* What a request comes to: REST, GraphQL, the WebSocket or the exchange of tokens.
Endpoints == {"rest", "context", "socket", "exchange"}

Idle == [on |-> FALSE]
Busy == [on : {TRUE}, token : Token, via : Endpoints, trust : BOOLEAN, known : BOOLEAN,
         org : Orgs \cup {OwnOrg[u] : u \in Users}, roles : SUBSET Roles, began : 0 .. MaxTime]

\* A WebSocket that has its identity keeps it until the connection closes.
Connected(q) == q.via = "socket" /\ q.known

TypeOK ==
    /\ now \in 0 .. MaxTime
    /\ active \in [Users -> Orgs \cup {None}]
    /\ member \in [Users -> [Orgs -> OrgRoles \cup {None}]]
    /\ issued \subseteq Token
    /\ req \in [Requests -> {Idle} \cup Busy]
    /\ changes \in 0 .. MaxChanges
    /\ ever \subseteq Orgs \X {"owner", "admin"}
    /\ was \in [Users -> [Orgs -> 0 .. MaxTime + 1]]

-----------------------------------------------------------------------------
(* The world. *)

\* The owners and administrators there are.
Standing(mem) == {s \in Orgs \X {"owner", "admin"} : \E u \in Users : Mapped(mem[u][s[1]]) = s[2]}

\* What was is at time `at'.
Was(at, act, old) == [u \in Users |-> [o \in Orgs |-> IF act[u] = o THEN at + 1 ELSE old[u][o]]]

Init ==
    /\ now = 0
    /\ active \in [Users -> Orgs \cup {None}]
    /\ member \in [Users -> [Orgs -> OrgRoles \cup {None}]]
    /\ changes = 0
    /\ issued = {}
    /\ req = [r \in Requests |-> Idle]
    /\ ever = Standing(member)
    /\ was = Was(0, active, [u \in Users |-> [o \in Orgs |-> 0]])

Tick ==
    /\ now < MaxTime
    /\ \A r \in Requests : req[r].on /\ ~Connected(req[r]) => now < req[r].began + MaxLag
    /\ now' = now + 1
    /\ was' = Was(now + 1, active, was)
    /\ UNCHANGED <<active, member, changes, issued, req, ever>>

Switch(u, o) ==
    /\ active[u] # o /\ changes < MaxChanges
    /\ changes' = changes + 1
    /\ active' = [active EXCEPT ![u] = o]
    /\ was' = Was(now, active', was)
    /\ UNCHANGED <<now, member, issued, req, ever>>

SetRole(u, o, x) ==
    /\ member[u][o] # x /\ changes < MaxChanges
    /\ changes' = changes + 1
    /\ member' = [member EXCEPT ![u] = [@ EXCEPT ![o] = x]]
    /\ ever' = ever \cup Standing(member')
    /\ UNCHANGED <<now, active, issued, req, was>>

Issue(t) ==
    /\ Cardinality(issued) < MaxTokens
    /\ issued' = issued \cup {t}

\* A token is lost, or no longer used.
Forget(t) ==
    /\ issued' = issued \ {t}
    /\ UNCHANGED <<world, req>>

\* mint_fileserver_token: a snapshot of the user's organization and role.
BackendMints(u) ==
    /\ active[u] # None /\ Mapped(member[u][active[u]]) # None
    /\ \E life \in Lives :
          Issue([kind |-> "backend", user |-> u, uid |-> TRUE, org |-> active[u],
                 roles |-> {Mapped(member[u][active[u]])}, scopes |-> {}, exp |-> now + life])
    /\ UNCHANGED <<world, req>>

-----------------------------------------------------------------------------
(* Requests. *)

\* The token is decoded and the organization looked up.  Without a uid the
\* identity is known then.
Begin(r, t, via, trust) ==
    /\ ~req[r].on /\ Valid(t)
    /\ \E o \in FoundOrg(t) :
          req' = [req EXCEPT ![r] =
              [on |-> TRUE, token |-> t, via |-> via, trust |-> trust, known |-> ~t.uid,
               org |-> OrgOf(t, trust, o),
               roles |-> IF t.uid THEN {} ELSE RolesOf(t, trust, None), began |-> now]]
    /\ UNCHANGED <<world, issued>>

\* The role in it is looked up, and the identity is known.
LookUpRole(r) ==
    /\ req[r].on /\ ~req[r].known
    /\ \E x \in Found(RoleIn(req[r].token.user, req[r].org)) :
          req' = [req EXCEPT ![r] =
              [@ EXCEPT !.known = TRUE, !.roles = RolesOf(req[r].token, req[r].trust, x)]]
    /\ UNCHANGED <<world, issued>>

\* r is handled by a handler of this kind.
Handled(r, via) == req[r].on /\ req[r].known /\ req[r].via = via

\* Mutation: the claims of every token are trusted.
AuthenticateTrusting(r, t) == Begin(r, t, "rest", TRUE)

\* get_current_user.
Authenticate(r, t) == Begin(r, t, "rest", OwnToken(t))

\* GraphQL's get_context, for every request anew.
AuthenticateContext(r, t) == Begin(r, t, "context", TRUE)

\* authenticate_ws, once: the connection is served as this user from then on.
AuthenticateSocket(r, t) == Begin(r, t, "socket", TRUE)

\* exchange_token decodes with the secret of Duniverse.
AuthenticateExchange(r, t) == t.kind = "login" /\ Begin(r, t, "exchange", TRUE)

End(r) == req' = [req EXCEPT ![r] = Idle]

\* Mutation: the token lasts as long as an agent's may.
MintSessionLong(r) ==
    /\ Handled(r, "exchange")
    /\ \E life \in Lives :
          Issue([kind |-> "session", user |-> req[r].token.user, uid |-> FALSE, org |-> req[r].org,
                 roles |-> req[r].roles, scopes |-> {}, exp |-> now + life])
    /\ End(r) /\ UNCHANGED world

\* exchange_token: the subject of the new token is no number, so that nothing
\* is looked up for it any more.
MintSession(r) ==
    /\ Handled(r, "exchange")
    /\ Issue([kind |-> "session", user |-> req[r].token.user, uid |-> FALSE, org |-> req[r].org,
              roles |-> req[r].roles, scopes |-> {}, exp |-> now + SessionLife])
    /\ End(r) /\ UNCHANGED world

\* Mutation: any role is granted to who may mint at all.
MayGrantAny(roles, x, extra) == Privileged(roles) /\ extra \subseteq FromToken(roles)

\* The requester is an owner or an administrator, grants these two roles as an
\* owner only, and no scope that is not the requester's by its roles.
MayGrant(roles, x, extra) ==
    /\ Privileged(roles)
    /\ x \in {"owner", "admin"} => "owner" \in roles
    /\ extra \subseteq FromToken(roles)

Minted(r, kind, x, extra, life) ==
    [kind |-> kind, user |-> req[r].token.user, uid |-> FALSE, org |-> req[r].org,
     roles |-> {x}, scopes |-> Permissions(x) \cup extra, exp |-> now + life]

\* create_agent_token.
MintAgent(r, x, extra, life) ==
    /\ Handled(r, "rest")
    /\ MayGrant(req[r].roles, x, extra)
    /\ Issue(Minted(r, "agent", x, extra, life))
    /\ End(r) /\ UNCHANGED world

\* create_collaborator_token.
MintCollaborator(r, x, life) ==
    /\ Handled(r, "rest")
    /\ Privileged(req[r].roles)
    /\ x \in {"editor", "viewer"}
    /\ Issue(Minted(r, "collaborator", x, {}, life))
    /\ End(r) /\ UNCHANGED world

\* What the endpoints ask for.
AppNeeds       == Of("connectors", {"pr:create", "branch:create", "commit", "pr:comment"})
ConnectorNeeds == AppNeeds \cup Of("connectors", {"sync"})
FolderNeeds    == Of("folders", {"write", "delete"})
AssetNeeds     == Of("assets", {"upload", "delete", "read"})
ProjectNeeds   == Of("projects", {"write"})
EndpointNeeds  == ConnectorNeeds \cup FolderNeeds \cup AssetNeeds \cup ProjectNeeds

\* require_permission, and the handler, whose effects other modules have.
Serve(r, p) ==
    /\ Handled(r, "rest") /\ p \in EndpointNeeds
    /\ CheckPermission(req[r].roles, p)
    /\ End(r) /\ UNCHANGED <<world, issued>>

\* 403, a validation error, a request that changes nothing, or a connection closes.
Refuse(r) == req[r].on /\ End(r) /\ UNCHANGED <<world, issued>>

Next ==
    \/ Tick
    \/ \E u \in Users :
          \/ \E o \in Orgs \cup {None} : Switch(u, o)
          \/ \E o \in Orgs, x \in OrgRoles \cup {None} : SetRole(u, o, x)
          \/ BackendMints(u)
    \/ \E t \in issued : Forget(t)
    \/ \E r \in Requests :
          \/ \E t \in Logins \cup issued :
                \/ Authenticate(r, t) \/ AuthenticateExchange(r, t)
                \/ AuthenticateContext(r, t) \/ AuthenticateSocket(r, t)
          \/ LookUpRole(r)
          \/ MintSession(r)
          \/ \E x \in Asked, extra \in Extras, life \in Lives : MintAgent(r, x, extra, life)
          \/ \E x \in Asked, life \in Lives : MintCollaborator(r, x, life)
          \/ \E p \in EndpointNeeds : Serve(r, p)
          \/ Refuse(r)

Spec == Init /\ [][Next]_vars

-----------------------------------------------------------------------------
\* The roles that may be acted in for o: everybody may end up an editor, the
\* default; the others have come, by however many tokens, from a member of o.
Rooted(o) ==
    {"viewer", "editor"}
        \cup (IF <<o, "owner">> \in ever THEN {"owner", "admin"} \cup AgentRoles ELSE {})
        \cup (IF <<o, "admin">> \in ever THEN {"admin"} \cup AgentRoles ELSE {})

\* No chain of tokens, each minted with the one before, gains a role or a scope
\* that no member of the organization has had or could grant.  GraphQL and the
\* WebSocket take a role from the token but look the organization up.
AuthorityIsRooted ==
    /\ \A t \in issued : /\ t.roles \subseteq Rooted(t.org)
                         /\ t.scopes \subseteq FromToken(Rooted(t.org))
    /\ \A r \in Requests : req[r].on =>
          IF req[r].via \in {"context", "socket"}
          THEN req[r].roles \subseteq UNION {Rooted(o) : o \in Orgs}
          ELSE req[r].roles \subseteq Rooted(req[r].org)

\* The GitHub App, which all organizations share, writes only for one that has
\* had an owner or an administrator, who may have passed the permission on.
AppWritesForOrgs ==
    \A r \in Requests, p \in AppNeeds :
        Handled(r, "rest") /\ CheckPermission(req[r].roles, p) =>
            req[r].org \in Orgs /\ {<<req[r].org, "owner">>, <<req[r].org, "admin">>} \cap ever # {}

Old == SessionLife + 2 * MaxLag

\* A session is for an organization that its user was active in, and a request
\* acts with it no longer after the user left than the session and two requests
\* last.  A WebSocket is opened within that time, and then acts for the
\* organization as long as the connection lives, which nothing here bounds.
SessionsAreRecent ==
    \A r \in Requests : LET q == req[r] IN
        q.on /\ q.token.kind = "session" /\ q.org \in Orgs =>
            /\ was[q.token.user][q.org] > 0
            /\ (IF q.via = "socket" THEN q.began ELSE now) < was[q.token.user][q.org] + Old

-----------------------------------------------------------------------------
(* What comments and field descriptions say, and the code does not do. *)

\* schema.py: "Falls through to the same live org-role lookup" that
\* get_current_user uses: without a failure, a token of the backend is used in
\* the role its user has now.
RoleIsLive ==
    \A r \in Requests : LET q == req[r] IN
        q.on /\ q.known /\ q.began = now /\ q.token.kind = "backend" /\ RoleIn(q.token.user, q.org) # None =>
            Mapped(RoleIn(q.token.user, q.org)) \in q.roles

\* permissions.py: "Additional custom scopes": a request may do what the scopes
\* of its token say.
ScopesAreHonoured ==
    \A r \in Requests : req[r].on /\ req[r].known =>
        \A p \in req[r].token.scopes : CheckPermission(req[r].roles, p)
=============================================================================
