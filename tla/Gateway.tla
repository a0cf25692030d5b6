-------------------------------- MODULE Gateway --------------------------------
(***************************************************************************)
(* The way of a request through the API gateway: the four middlewares, the *)
(* rate limiter's token buckets, and the tenant manager whose tiers size   *)
(* them.                                                                   *)
(*                                                                         *)
(* Every middleware hands the request on to a task of its own, so other    *)
(* requests run between any two of them.  Time is a count of ticks, of     *)
(* which a minute has TicksPerMinute; limits are whole numbers of tokens a *)
(* tick.  Paths are of four kinds, since each middleware has a list of its *)
(* own of the paths it lets pass: "public" ones pass all three; "login"    *)
(* ones, /auth/login and /auth/register, are counted, but neither          *)
(* authenticated nor isolated; "open" ones need no tenant; and "scoped"    *)
(* ones need one.  What a route does is the business of other modules.     *)
(***************************************************************************)
EXTENDS Requests, Integers, FiniteSets, Sequences

CONSTANTS
  BadToken,        \* a token that does not decode
  Untenanted,      \* a token that decodes, and names no tenant
  Regions, Slugs,
  Hashed,          \* the regions a hash leads to
  Paths,           \* of the kinds "public", "login", "open" and "scoped"
  TierLimits,      \* TIER_LIMITS, in tokens, by tier
  DefaultLimit, TicksPerMinute,
  ClockLimit,      \* bounds: ticks,
  WorkLimit        \* and requests, with tenants and changes of them at two requests each

ASSUME GatewayAssumption ==
  /\ Paths \subseteq {"public", "login", "open", "scoped"}
  /\ TicksPerMinute \in Nat \ {0}
  /\ \A limit \in {DefaultLimit} \cup {TierLimits[tier] : tier \in DOMAIN TierLimits} :
       limit \in Nat \ {0} /\ limit % TicksPerMinute = 0

VARIABLES
  tenants,    \* TenantManager._tenants: tenant_id -> tenant
  regionIds,  \* _region_tenants: region -> the ids of its tenants
  changes,    \* updates, deletions and failovers so far
  buckets,    \* RateLimiter._buckets: tenant_id -> bucket
  requests,   \* the requests between two middlewares
  arrived,    \* requests so far
  admitted,   \* tenant_id -> the times at which the limiter admitted a request
  clock

gatewayVars == <<tenants, regionIds, changes, buckets, requests, arrived, admitted, clock>>

NoRequest == [stage |-> "idle"]
Tiers == DOMAIN TierLimits
Work == arrived + 2 * (changes + Len(tenants))

GatewayInit ==
  /\ tenants = <<>>
  /\ regionIds = [r \in Regions |-> <<>>]
  /\ changes = 0
  /\ buckets = <<>>
  /\ requests = [c \in Calls |-> NoRequest]
  /\ arrived = 0
  /\ admitted = <<>>
  /\ clock = 0

-----------------------------------------------------------------------------
\* TenantManager.  A region that is not asked for, and every fallback, is the hash of a
\* fresh id: any of the regions it leads to.

CreateTenant(slug, tier, region, fallback) ==
  LET id == Len(tenants) + 1
  IN  /\ Work + 2 <= WorkLimit
      /\ \A i \in DOMAIN tenants : tenants[i].slug # slug
      /\ tenants' = Append(tenants, [slug |-> slug, tier |-> tier, status |-> "active",
                                     primary |-> region, fallback |-> fallback])
      /\ regionIds' = [regionIds EXCEPT ![region] = Append(@, id)]
      /\ UNCHANGED <<changes, buckets, requests, arrived, admitted, clock>>

ChangeTenant(id, tenant) ==
  /\ Work + 2 <= WorkLimit
  /\ changes' = changes + 1
  /\ tenants' = [tenants EXCEPT ![id] = tenant]
  /\ UNCHANGED <<buckets, requests, arrived, admitted, clock>>

\* Any attribute may be set: a slug in use, a tier that is no member of the enumeration,
\* another region.  The region's list is not touched.
UpdateTenant(id, slug, tier, region) ==
  /\ ChangeTenant(id, [tenants[id] EXCEPT !.slug = slug, !.tier = tier, !.primary = region])
  /\ UNCHANGED regionIds

DeleteTenant(id) ==
  /\ ChangeTenant(id, [tenants[id] EXCEPT !.status = "deleted"])
  /\ UNCHANGED regionIds

\* The region that failed is not compared with the one the tenant is in.
RegionFailover(id, from) ==
  /\ ChangeTenant(id, [tenants[id] EXCEPT !.primary = tenants[id].fallback, !.fallback = from])
  /\ UNCHANGED regionIds

-----------------------------------------------------------------------------
\* RateLimiter.

\* The tier's limit; a tenant that is unknown, or whose tier is no member of the
\* enumeration, has the default one.
TierLimit(id) ==
  IF id \in DOMAIN tenants /\ tenants[id].tier \in Tiers
  THEN TierLimits[tenants[id].tier] ELSE DefaultLimit

\* A bucket is made full at a tenant's first request, and keeps the limit of that time.
BucketOf(id) ==
  IF id \in DOMAIN buckets THEN buckets[id]
  ELSE [tokens |-> TierLimit(id), max |-> TierLimit(id),
        rate |-> TierLimit(id) \div TicksPerMinute, last |-> clock]

\* Mutant: the time of the last refill is not kept.
RefilledFromStart(b) ==
  LET filled == b.tokens + (clock - b.last) * b.rate
  IN  [b EXCEPT !.tokens = IF filled > b.max THEN b.max ELSE filled]

Refilled(b) ==
  LET filled == b.tokens + (clock - b.last) * b.rate
  IN  [b EXCEPT !.tokens = IF filled > b.max THEN b.max ELSE filled, !.last = clock]

PutIn(f, k, v) == [x \in DOMAIN f \cup {k} |-> IF x = k THEN v ELSE f[x]]

-----------------------------------------------------------------------------
\* The middlewares, outermost first.

GoTo(c, stage) == requests' = [requests EXCEPT ![c].stage = stage]

Answer(c) ==
  /\ requests' = [requests EXCEPT ![c] = NoRequest]
  /\ UNCHANGED <<arrived, admitted>>

\* observability_middleware: the tenant is the header's.
Arrive(c, tenant, token, path) ==
  /\ requests[c] = NoRequest
  /\ Work + 1 <= WorkLimit
  /\ arrived' = arrived + 1
  /\ requests' = [requests EXCEPT ![c] =
                   [stage |-> "limit", header |-> tenant, tenant |-> tenant,
                    token |-> token, path |-> path]]
  /\ UNCHANGED <<tenants, regionIds, changes, buckets, admitted, clock>>

\* rate_limit_middleware: a request without a tenant, or to a public path, is not counted.
PassUncounted(c) ==
  /\ requests[c].stage = "limit"
  /\ requests[c].path = "public" \/ requests[c].tenant = None
  /\ GoTo(c, "auth")
  /\ UNCHANGED <<tenants, regionIds, changes, buckets, arrived, admitted, clock>>

Counted(c) ==
  /\ requests[c].stage = "limit"
  /\ requests[c].path # "public" /\ requests[c].tenant # None

Admit(c) ==
  LET id == requests[c].tenant
      b  == Refilled(BucketOf(id))
      before == IF id \in DOMAIN admitted THEN admitted[id] ELSE <<>>
  IN  /\ Counted(c)
      /\ b.tokens >= 1
      /\ buckets' = PutIn(buckets, id, [b EXCEPT !.tokens = @ - 1])
      /\ admitted' = PutIn(admitted, id, Append(before, clock))
      /\ GoTo(c, "auth")
      /\ UNCHANGED <<tenants, regionIds, changes, arrived, clock>>

Refuse(c) ==
  LET id == requests[c].tenant
      b  == Refilled(BucketOf(id))
  IN  /\ Counted(c)
      /\ b.tokens < 1
      /\ buckets' = PutIn(buckets, id, b)
      /\ Answer(c)
      /\ UNCHANGED <<tenants, regionIds, changes, clock>>

\* auth_middleware: the tenant of a token replaces the header's, also when the token
\* names none.  On a public or a login path no token is looked at.
TokenRead(request) == request.path \notin {"public", "login"} /\ request.token # None

TokenTenant(token) == IF token = Untenanted THEN None ELSE token

PassAuth(c) ==
  /\ requests[c].stage = "auth"
  /\ TokenRead(requests[c]) => requests[c].token # BadToken
  /\ requests' = [requests EXCEPT
                   ![c].stage = "isolation",
                   ![c].tenant = IF TokenRead(requests[c])
                                 THEN TokenTenant(requests[c].token) ELSE @]
  /\ UNCHANGED <<tenants, regionIds, changes, buckets, arrived, admitted, clock>>

RejectToken(c) ==
  /\ requests[c].stage = "auth"
  /\ TokenRead(requests[c]) /\ requests[c].token = BadToken
  /\ Answer(c)
  /\ UNCHANGED <<tenants, regionIds, changes, buckets, clock>>

\* tenant_isolation_middleware
EnterRoute(c) ==
  /\ requests[c].stage = "isolation"
  /\ requests[c].path # "scoped" \/ requests[c].tenant # None
  /\ GoTo(c, "route")
  /\ UNCHANGED <<tenants, regionIds, changes, buckets, arrived, admitted, clock>>

RequireTenant(c) ==
  /\ requests[c].stage = "isolation"
  /\ requests[c].path = "scoped" /\ requests[c].tenant = None
  /\ Answer(c)
  /\ UNCHANGED <<tenants, regionIds, changes, buckets, clock>>

\* The route answers, or raises; the outermost middleware counts an answer under the
\* tenant the request has by then, and nothing of it changes a state the others read.
LeaveRoute(c) ==
  /\ requests[c].stage = "route"
  /\ Answer(c)
  /\ UNCHANGED <<tenants, regionIds, changes, buckets, clock>>

Tick ==
  /\ clock < ClockLimit
  /\ clock' = clock + 1
  /\ UNCHANGED <<tenants, regionIds, changes, buckets, requests, arrived, admitted>>

GatewayNext ==
  \/ \E slug \in Slugs, tier \in Tiers, region \in Regions, fallback \in Hashed :
       CreateTenant(slug, tier, region, fallback)
  \/ \E id \in DOMAIN tenants :
       \/ \E slug \in Slugs, tier \in Tiers \cup {"text"}, region \in Regions :
            UpdateTenant(id, slug, tier, region)
       \/ DeleteTenant(id)
       \/ \E from \in Regions : RegionFailover(id, from)
  \/ \E c \in Calls, tenant \in {None} \cup DOMAIN tenants,
        token \in {None, BadToken, Untenanted} \cup DOMAIN tenants, path \in Paths :
       Arrive(c, tenant, token, path)
  \/ \E c \in Calls :
       \/ PassUncounted(c) \/ Admit(c) \/ Refuse(c)
       \/ PassAuth(c) \/ RejectToken(c)
       \/ EnterRoute(c) \/ RequireTenant(c) \/ LeaveRoute(c)
  \/ Tick

GatewaySpec == GatewayInit /\ [][GatewayNext]_gatewayVars

-----------------------------------------------------------------------------
\* Properties.

\* Whatever the order of the requests and the refills, also of refused requests: no
\* stretch of time admits more requests of a tenant than a full bucket and what the
\* bucket gains in that time.
LimitHeld ==
  \A id \in DOMAIN admitted :
    LET times == admitted[id]
    IN  \A j \in DOMAIN times : \A i \in 1..j :
          j - i + 1 <= buckets[id].max + buckets[id].rate * (times[j] - times[i])

\* A route runs for the tenant of the token the request was authenticated with, although
\* the header named another and was charged for it, and for nobody when that token names
\* nobody; without authentication, as on the login paths whatever token they came with,
\* it runs for the header's.  A scoped route never runs for nobody.
TenantSettled ==
  \A c \in Calls : requests[c].stage = "route" =>
    /\ requests[c].tenant = (IF requests[c].path \in {"open", "scoped"} /\ requests[c].token # None
                             THEN TokenTenant(requests[c].token) ELSE requests[c].header)
    /\ requests[c].path = "scoped" => requests[c].tenant # None

\* However tenants are updated and failed over, the lists of the regions together hold
\* every tenant once, so that listing by region finds each and none twice.
ListedOnce ==
  \A id \in DOMAIN tenants :
    Cardinality({place \in Regions \X DOMAIN tenants :
                   /\ place[2] \in DOMAIN regionIds[place[1]]
                   /\ regionIds[place[1]][place[2]] = id}) = 1

\* Requests that pass the middlewares at one time while tenants change: the limits hold,
\* routes run for the right tenant, and every region finds its tenants.
GatewayHolds == LimitHeld /\ TenantSettled /\ ListedOnce
=============================================================================
