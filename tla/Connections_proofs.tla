--------------------------- MODULE Connections_proofs ---------------------------
(***************************************************************************)
(* Proofs about what stands between the clients and the services: Gateway, *)
(* for any tiers and limits, tenants, regions, paths and requests under    *)
(* way; EventBus, for any clients, brokers and publications that overlap;  *)
(* WebSockets, for any tenants, addresses, topics and broadcasts.          *)
(***************************************************************************)
EXTENDS Gateway, EventBus, WebSockets, FiniteSetTheorems, TLAPS

-----------------------------------------------------------------------------
(* Gateway. *)

Ids == Nat \cup {None, BadToken, Untenanted}

Tenant ==
  [slug : Slugs, tier : Tiers \cup {"text"}, status : {"active", "deleted"},
   primary : Regions \cup Hashed, fallback : Regions \cup Hashed]

Request ==
  [stage : {"limit", "auth", "isolation", "route"}, header : Ids, tenant : Ids,
   token : Ids, path : Paths]

Bucket == [tokens : Nat, max : Nat, rate : Nat, last : Nat]

\* The state keeps its type.
GatewayTypeOK ==
  /\ tenants \in Seq(Tenant)
  /\ regionIds \in [Regions -> Seq(Nat)]
  /\ buckets \in [DOMAIN buckets -> Bucket]
  /\ requests \in [Calls -> Request \cup {NoRequest}]
  /\ clock \in Nat
  /\ DOMAIN admitted \subseteq DOMAIN buckets
  /\ admitted \in [DOMAIN admitted -> Seq(Nat)]

\* Each tenant has one place in the lists of the regions.
HasPlace(id, r, i) ==
  \A s \in Regions, j \in Nat \ {0} :
    j <= Len(regionIds[s]) /\ regionIds[s][j] = id <=> s = r /\ j = i

ListInv ==
  /\ \A r \in Regions : Len(regionIds[r]) <= Len(tenants)
  /\ \A r \in Regions : \A i \in 1..Len(regionIds[r]) : regionIds[r][i] <= Len(tenants)
  /\ \A id \in 1..Len(tenants) : \E r \in Regions, i \in Nat \ {0} : HasPlace(id, r, i)

\* What a stretch of admissions up to now took, with the tokens that are left, is at most
\* a full bucket and what it gained since the stretch began.
BucketInv(id) ==
  /\ buckets[id].tokens <= buckets[id].max
  /\ buckets[id].last <= clock

Stretches(b, times) ==
  /\ \A i \in 1..Len(times) :
       /\ times[i] <= b.last
       /\ Len(times) - i + 1 + b.tokens <= b.max + b.rate * (b.last - times[i])
  /\ \A j \in 1..Len(times) : \A i \in 1..j :
       j - i + 1 <= b.max + b.rate * (times[j] - times[i])

LimitInv ==
  /\ \A id \in DOMAIN buckets : BucketInv(id)
  /\ \A id \in DOMAIN admitted : Stretches(buckets[id], admitted[id])

\* Up to the authentication a request has the header's tenant, and past it the one its
\* path and its token lead to.
SettledTenant(request) ==
  IF request.path \in {"open", "scoped"} /\ request.token # None
  THEN TokenTenant(request.token) ELSE request.header

Settled(request) ==
  /\ request.stage \in {"limit", "auth"} => request.tenant = request.header
  /\ request.stage \in {"isolation", "route"} => request.tenant = SettledTenant(request)
  /\ request.stage = "route" => (request.path = "scoped" => request.tenant # None)

StageInv == \A c \in Calls : Settled(requests[c])

GatewayInv == GatewayTypeOK /\ ListInv /\ LimitInv /\ StageInv

----------------------------------------------------------------------------
LEMMA GatewayInitHolds == GatewayInit => GatewayInv
<1> SUFFICES ASSUME GatewayInit PROVE GatewayInv
  OBVIOUS
<1>1. /\ tenants = <<>> /\ clock = 0
      /\ DOMAIN buckets = {} /\ DOMAIN admitted = {}
      /\ regionIds = [r \in Regions |-> <<>>]
      /\ requests = [c \in Calls |-> NoRequest]
  BY DEF GatewayInit
<1>2. buckets \in [DOMAIN buckets -> Bucket] /\ admitted \in [DOMAIN admitted -> Seq(Nat)]
  BY <1>1 DEF GatewayInit
<1>3. GatewayTypeOK
  BY <1>1, <1>2 DEF GatewayTypeOK
<1>4. ListInv
  BY <1>1 DEF ListInv
<1>5. LimitInv
  BY <1>1 DEF LimitInv
<1>6. StageInv
  BY <1>1 DEF StageInv, Settled, NoRequest
<1> QED
  BY <1>3, <1>4, <1>5, <1>6 DEF GatewayInv

----------------------------------------------------------------------------
(* The limit. *)

LEMMA Gain ==
  ASSUME NEW r \in Int, NEW a \in Int, NEW b \in Int, NEW t \in Int
  PROVE  r * (a - b) + r * (b - t) = r * (a - t)
BY SMT

LEMMA GainGrows ==
  ASSUME NEW r \in Nat, NEW a \in Int, NEW b \in Int, a <= b
  PROVE  r * (b - a) \in Nat
BY SMT

\* A bucket that is made is full.
LEMMA BucketOfType ==
  ASSUME GatewayInv, NEW id
  PROVE  /\ BucketOf(id) \in Bucket
         /\ BucketOf(id).tokens <= BucketOf(id).max
         /\ BucketOf(id).last <= clock
<1>1. TierLimit(id) \in Nat
  BY GatewayAssumption DEF TierLimit, Tiers
<1>2. TierLimit(id) \div TicksPerMinute \in Nat
  BY <1>1, GatewayAssumption, SMT
<1>3. CASE id \in DOMAIN buckets
  BY <1>3 DEF BucketOf, GatewayInv, GatewayTypeOK, LimitInv, BucketInv
<1>4. CASE id \notin DOMAIN buckets
  <2> DEFINE n == TierLimit(id)
             q == TierLimit(id) \div TicksPerMinute
  <2>1. BucketOf(id) = [tokens |-> n, max |-> n, rate |-> q, last |-> clock]
    BY <1>4 DEF BucketOf
  <2>2. n \in Nat /\ q \in Nat /\ clock \in Nat
    BY <1>1, <1>2 DEF GatewayInv, GatewayTypeOK
  <2> HIDE DEF n, q
  <2> QED
    BY <2>1, <2>2 DEF Bucket
<1> QED
  BY <1>3, <1>4

\* A refill adds at most what the bucket gains in the time since the last one.
LEMMA RefilledProperties ==
  ASSUME NEW b \in Bucket, b.tokens <= b.max, b.last <= clock, clock \in Nat
  PROVE  /\ Refilled(b) \in Bucket
         /\ Refilled(b).tokens <= b.max
         /\ Refilled(b).max = b.max /\ Refilled(b).rate = b.rate /\ Refilled(b).last = clock
         /\ Refilled(b).tokens <= b.tokens + b.rate * (clock - b.last)
<1>1. b.tokens \in Nat /\ b.max \in Nat /\ b.rate \in Nat /\ b.last \in Nat
  BY DEF Bucket
<1> DEFINE gain == (clock - b.last) * b.rate
           filled == b.tokens + gain
<1>2. gain \in Nat /\ gain = b.rate * (clock - b.last)
  BY <1>1, SMT
<1> HIDE DEF gain
<1>3. filled \in Nat
  BY <1>1, <1>2
<1>4. Refilled(b) = [b EXCEPT !.tokens = IF filled > b.max THEN b.max ELSE filled, !.last = clock]
  BY DEF Refilled, gain
<1> DEFINE full == IF filled > b.max THEN b.max ELSE filled
<1>5. full \in Nat /\ full <= b.max /\ full <= filled
  BY <1>1, <1>3
<1> HIDE DEF filled, full
<1>6. Refilled(b) = [tokens |-> full, max |-> b.max, rate |-> b.rate, last |-> clock]
  BY <1>4 DEF full, Bucket
<1> QED
  BY <1>1, <1>2, <1>5, <1>6 DEF Bucket, filled

LEMMA RefillKeepsStretches ==
  ASSUME NEW b \in Bucket, b.tokens <= b.max, b.last <= clock, clock \in Nat,
         NEW times \in Seq(Nat), Stretches(b, times)
  PROVE  Stretches(Refilled(b), times)
<1> DEFINE r == Refilled(b)
<1>1. /\ r \in Bucket /\ r.max = b.max /\ r.rate = b.rate /\ r.last = clock
      /\ r.tokens <= b.tokens + b.rate * (clock - b.last)
  BY RefilledProperties
<1> HIDE DEF r
<1>2. b.tokens \in Nat /\ b.max \in Nat /\ b.rate \in Nat /\ b.last \in Nat /\ r.tokens \in Nat
  BY <1>1 DEF Bucket
<1>3. ASSUME NEW i \in 1..Len(times)
      PROVE  /\ times[i] <= clock
             /\ Len(times) - i + 1 + r.tokens <= b.max + b.rate * (clock - times[i])
  <2> DEFINE t == times[i]
             n == Len(times) - i + 1
  <2>1. t \in Nat /\ n \in Int
    OBVIOUS
  <2>2. t <= b.last /\ n + b.tokens <= b.max + b.rate * (b.last - t)
    BY DEF Stretches
  <2> HIDE DEF t, n
  <2>3. b.rate * (clock - b.last) + b.rate * (b.last - t) = b.rate * (clock - t)
    BY <1>2, <2>1, Gain
  <2> DEFINE x == b.rate * (clock - b.last)
             y == b.rate * (b.last - t)
  <2>4. x \in Int /\ y \in Int
    BY SMTT(30), <1>2, <2>1
  <2>5. r.tokens <= b.tokens + x /\ n + b.tokens <= b.max + y
    BY <1>1, <2>2
  <2>6. x + y = b.rate * (clock - t)
    BY <2>3
  <2> HIDE DEF x, y
  <2>7. n + r.tokens <= b.max + (x + y)
    <3> DEFINE rt == r.tokens
               bt == b.tokens
               bm == b.max
    <3>1. rt \in Int /\ bt \in Int /\ bm \in Int /\ rt <= bt + x /\ n + bt <= bm + y
      BY <1>2, <2>5
    <3> HIDE DEF rt, bt, bm
    <3>2. n + rt <= bm + (x + y)
      BY <2>1, <2>4, <3>1
    <3> QED
      BY <3>2 DEF rt, bm
  <2>8. n + r.tokens <= b.max + b.rate * (clock - t)
    BY <2>6, <2>7
  <2> QED
    BY SMTT(30), <1>2, <2>1, <2>2, <2>8 DEF t, n
<1> QED
  BY <1>1, <1>3 DEF Stretches, r

\* An admission takes a token and adds itself to every stretch.
LEMMA AdmissionKeepsStretches ==
  ASSUME NEW b \in Bucket, b.tokens >= 1, b.tokens <= b.max,
         NEW times \in Seq(Nat), Stretches(b, times)
  PROVE  Stretches([b EXCEPT !.tokens = @ - 1], Append(times, b.last))
<1> DEFINE a == [b EXCEPT !.tokens = @ - 1]
           more == Append(times, b.last)
<1>1. b.tokens \in Nat /\ b.max \in Nat /\ b.rate \in Nat /\ b.last \in Nat
  BY DEF Bucket
<1>2. a.tokens = b.tokens - 1 /\ a.max = b.max /\ a.rate = b.rate /\ a.last = b.last
  BY DEF Bucket
<1>3. /\ more \in Seq(Nat) /\ Len(more) = Len(times) + 1
      /\ \A i \in 1..Len(times) : more[i] = times[i]
      /\ more[Len(times) + 1] = b.last
  BY <1>1
<1>4. Len(times) \in Nat
  OBVIOUS
<1> DEFINE n == Len(times)
<1> HIDE DEF a, more
<1>5. ASSUME NEW i \in 1..Len(more)
      PROVE  /\ more[i] <= b.last
             /\ Len(more) - i + 1 + a.tokens <= b.max + b.rate * (b.last - more[i])
  <2>1. CASE i \in 1..Len(times)
    <3>1. more[i] = times[i] /\ times[i] \in Nat
      BY <1>3, <2>1
    <3>2. times[i] <= b.last /\ n - i + 1 + b.tokens <= b.max + b.rate * (b.last - times[i])
      BY <2>1 DEF Stretches
    <3>3. Len(more) = n + 1 /\ i \in Int /\ n \in Int
      BY <1>3, <1>4, <2>1
    <3>4. Len(more) - i + 1 + a.tokens = n - i + 1 + b.tokens
      <4> HIDE DEF n
      <4> QED
        BY <1>1, <1>2, <3>3
    <3> QED
      BY <3>1, <3>2, <3>4
  <2>2. CASE i = Len(times) + 1
    <3>1. more[i] = b.last
      BY <1>3, <2>2
    <3>2. b.rate * (b.last - b.last) = 0
      BY <1>1, SMT
    <3> QED
      BY SMTT(30), <1>1, <1>2, <1>3, <1>4, <2>2, <3>1, <3>2
  <2> QED
    BY <1>3, <1>4, <2>1, <2>2
<1>6. ASSUME NEW j \in 1..Len(more), NEW i \in 1..j
      PROVE  j - i + 1 <= b.max + b.rate * (more[j] - more[i])
  <2>1. CASE j \in 1..Len(times)
    <3>1. i \in 1..Len(times) /\ more[i] = times[i] /\ more[j] = times[j]
      BY SMTT(30), <1>3, <1>4, <2>1
    <3> QED
      BY <2>1, <3>1 DEF Stretches
  <2>2. CASE j = Len(times) + 1
    <3> DEFINE g == b.rate * (b.last - more[i])
    <3>1. i \in 1..Len(more) /\ more[j] = b.last /\ more[i] \in Nat
      BY <1>3, <1>4, <2>2
    <3>2. g \in Int
      BY <1>1, <3>1, SMT
    <3>3. Len(more) - i + 1 + a.tokens <= b.max + g
      BY <1>5, <3>1
    <3> HIDE DEF g
    <3>4. j - i + 1 <= b.max + g
      BY SMTT(30), <1>1, <1>2, <1>3, <1>4, <2>2, <3>1, <3>2, <3>3
    <3> QED
      BY <3>1, <3>4 DEF g
  <2> QED
    BY <1>3, <1>4, <2>1, <2>2
<1> QED
  BY <1>2, <1>5, <1>6 DEF Stretches, a, more

\* The first admission of a tenant.
LEMMA FirstAdmission ==
  ASSUME NEW b \in Bucket, b.tokens <= b.max
  PROVE  Stretches(b, <<>>)
BY DEF Stretches, Bucket

----------------------------------------------------------------------------
(* What a step does to each piece of state. *)

\* The limiter's tables change by an admission or a refusal only.
LimiterStays == UNCHANGED <<buckets, admitted, clock>>

Admitted(id) ==
  LET b == Refilled(BucketOf(id))
      before == IF id \in DOMAIN admitted THEN admitted[id] ELSE <<>>
  IN  /\ b.tokens >= 1
      /\ buckets' = PutIn(buckets, id, [b EXCEPT !.tokens = @ - 1])
      /\ admitted' = PutIn(admitted, id, Append(before, clock))
      /\ UNCHANGED clock

Refused(id) ==
  /\ buckets' = PutIn(buckets, id, Refilled(BucketOf(id)))
  /\ UNCHANGED <<admitted, clock>>

LimiterChanges ==
  \/ LimiterStays
  \/ \E c \in Calls : Admitted(requests[c].tenant) \/ Refused(requests[c].tenant)
  \/ clock' = clock + 1 /\ UNCHANGED <<buckets, admitted>>

\* The tenants change one at a time, or one is added with its place in a region.
Created ==
  \E tenant \in Tenant, region \in Regions :
    /\ tenants' = Append(tenants, tenant)
    /\ regionIds' = [regionIds EXCEPT ![region] = Append(@, Len(tenants) + 1)]

Changed ==
  \E id \in DOMAIN tenants, tenant \in Tenant :
    tenants' = [tenants EXCEPT ![id] = tenant] /\ UNCHANGED regionIds

TenantsChange == UNCHANGED <<tenants, regionIds>> \/ Created \/ Changed

\* A request comes, goes on to the next stage, or is answered.
Moves(c, request) == requests' = [requests EXCEPT ![c] = request]

Arrived(c) ==
  \E request \in Request :
    request.stage = "limit" /\ request.tenant = request.header /\ Moves(c, request)

WentOn(c) ==
  \E stage \in {"auth", "isolation", "route"}, tenant \in Ids :
    /\ requests[c] \in Request
    /\ Moves(c, [requests[c] EXCEPT !.stage = stage, !.tenant = tenant])
    /\ stage = "auth" => requests[c].stage = "limit" /\ tenant = requests[c].tenant
    /\ stage = "isolation" => tenant = SettledTenant(requests[c])
    /\ stage = "route" =>
         /\ requests[c].stage = "isolation" /\ tenant = requests[c].tenant
         /\ requests[c].path = "scoped" => tenant # None

RequestsMove ==
  UNCHANGED requests \/ \E c \in Calls : Arrived(c) \/ WentOn(c) \/ Moves(c, NoRequest)

LEMMA StageIsRequest ==
  ASSUME GatewayInv, NEW c \in Calls, requests[c].stage # "idle"
  PROVE  requests[c] \in Request
BY DEF GatewayInv, GatewayTypeOK, NoRequest

\* A request that only changes its stage keeps its tenant.
LEMMA GoesOn ==
  ASSUME GatewayInv, NEW c \in Calls, NEW stage \in {"auth", "route"},
         requests[c].stage # "idle", stage = "auth" => requests[c].stage = "limit",
         stage = "route" => /\ requests[c].stage = "isolation"
                            /\ requests[c].path = "scoped" => requests[c].tenant # None,
         GoTo(c, stage)
  PROVE  WentOn(c)
<1>1. requests[c] \in Request
  BY StageIsRequest
<1>2. requests[c].tenant \in Ids
  BY <1>1 DEF Request
<1>3. [requests[c] EXCEPT !.stage = stage] =
        [requests[c] EXCEPT !.stage = stage, !.tenant = requests[c].tenant]
  BY <1>1 DEF Request
<1>4. Moves(c, [requests[c] EXCEPT !.stage = stage])
  BY DEF GoTo, Moves
<1>5. Moves(c, [requests[c] EXCEPT !.stage = stage, !.tenant = requests[c].tenant])
  BY <1>3, <1>4
<1>6. stage \in {"auth", "isolation", "route"} /\ stage # "isolation"
  OBVIOUS
<1> QED
  BY <1>1, <1>2, <1>5, <1>6 DEF WentOn

LEMMA StepChanges ==
  ASSUME GatewayInv, GatewayNext
  PROVE  LimiterChanges /\ TenantsChange /\ RequestsMove
<1> USE DEF LimiterStays
<1>1. ASSUME NEW slug \in Slugs, NEW tier \in Tiers, NEW region \in Regions,
             NEW fallback \in Hashed, CreateTenant(slug, tier, region, fallback)
      PROVE  LimiterChanges /\ TenantsChange /\ RequestsMove
  <2> DEFINE tenant == [slug |-> slug, tier |-> tier, status |-> "active",
                        primary |-> region, fallback |-> fallback]
  <2>1. tenant \in Tenant
    BY DEF Tenant
  <2>2. /\ tenants' = Append(tenants, tenant)
        /\ regionIds' = [regionIds EXCEPT ![region] = Append(@, Len(tenants) + 1)]
        /\ LimiterStays /\ UNCHANGED requests
    BY <1>1 DEF CreateTenant
  <2> HIDE DEF tenant
  <2>3. Created
    BY <2>1, <2>2 DEF Created
  <2> QED
    BY <2>2, <2>3 DEF LimiterChanges, TenantsChange, RequestsMove
<1>2. ASSUME NEW id \in DOMAIN tenants, NEW tenant \in Tenant, ChangeTenant(id, tenant),
             UNCHANGED regionIds
      PROVE  LimiterChanges /\ TenantsChange /\ RequestsMove
  <2>1. Changed /\ LimiterStays /\ UNCHANGED requests
    BY <1>2 DEF ChangeTenant, Changed
  <2> QED
    BY <2>1 DEF LimiterChanges, TenantsChange, RequestsMove
<1>3. ASSUME NEW id \in DOMAIN tenants
      PROVE  tenants[id] \in Tenant
  BY DEF GatewayInv, GatewayTypeOK
<1>4. ASSUME NEW id \in DOMAIN tenants, NEW slug \in Slugs, NEW tier \in Tiers \cup {"text"},
             NEW region \in Regions, UpdateTenant(id, slug, tier, region)
      PROVE  LimiterChanges /\ TenantsChange /\ RequestsMove
  <2>1. [tenants[id] EXCEPT !.slug = slug, !.tier = tier, !.primary = region] \in Tenant
    BY <1>3 DEF Tenant
  <2> QED
    BY <1>2, <1>4, <2>1 DEF UpdateTenant
<1>5. ASSUME NEW id \in DOMAIN tenants, DeleteTenant(id)
      PROVE  LimiterChanges /\ TenantsChange /\ RequestsMove
  <2>1. [tenants[id] EXCEPT !.status = "deleted"] \in Tenant
    BY <1>3 DEF Tenant
  <2> QED
    BY <1>2, <1>5, <2>1 DEF DeleteTenant
<1>6. ASSUME NEW id \in DOMAIN tenants, NEW from \in Regions, RegionFailover(id, from)
      PROVE  LimiterChanges /\ TenantsChange /\ RequestsMove
  <2>1. [tenants[id] EXCEPT !.primary = tenants[id].fallback, !.fallback = from] \in Tenant
    BY <1>3 DEF Tenant
  <2> QED
    BY <1>2, <1>6, <2>1 DEF RegionFailover
<1>7. ASSUME NEW c \in Calls, NEW tenant \in {None} \cup DOMAIN tenants,
             NEW token \in {None, BadToken, Untenanted} \cup DOMAIN tenants, NEW path \in Paths,
             Arrive(c, tenant, token, path)
      PROVE  LimiterChanges /\ TenantsChange /\ RequestsMove
  <2> DEFINE request == [stage |-> "limit", header |-> tenant, tenant |-> tenant,
                         token |-> token, path |-> path]
  <2>1. DOMAIN tenants \subseteq Nat
    BY DEF GatewayInv, GatewayTypeOK
  <2>2. request \in Request /\ request.stage = "limit" /\ request.tenant = request.header
    BY <2>1 DEF Request, Ids
  <2>3. Moves(c, request)
    BY <1>7 DEF Arrive, Moves
  <2> HIDE DEF request
  <2>4. Arrived(c)
    BY <2>2, <2>3 DEF Arrived
  <2> QED
    BY <1>7, <2>4 DEF Arrive, LimiterChanges, TenantsChange, RequestsMove
<1>8. ASSUME NEW c \in Calls, PassUncounted(c)
      PROVE  LimiterChanges /\ TenantsChange /\ RequestsMove
  <2>1. WentOn(c)
    BY <1>8, GoesOn DEF PassUncounted
  <2> QED
    BY <1>8, <2>1 DEF PassUncounted, LimiterChanges, TenantsChange, RequestsMove
<1>9. ASSUME NEW c \in Calls, Admit(c)
      PROVE  LimiterChanges /\ TenantsChange /\ RequestsMove
  <2>1. WentOn(c)
    BY <1>9, GoesOn DEF Admit, Counted
  <2>2. Admitted(requests[c].tenant)
    BY <1>9 DEF Admit, Admitted
  <2>3. UNCHANGED <<tenants, regionIds>>
    BY <1>9 DEF Admit
  <2> QED
    BY <2>1, <2>2, <2>3 DEF LimiterChanges, TenantsChange, RequestsMove
<1>10. ASSUME NEW c \in Calls, Refuse(c)
       PROVE  LimiterChanges /\ TenantsChange /\ RequestsMove
  <2>1. Refused(requests[c].tenant) /\ Moves(c, NoRequest) /\ UNCHANGED <<tenants, regionIds>>
    BY <1>10 DEF Refuse, Refused, Answer, Moves
  <2> QED
    BY <2>1 DEF LimiterChanges, TenantsChange, RequestsMove
<1>11. ASSUME NEW c \in Calls, PassAuth(c)
       PROVE  LimiterChanges /\ TenantsChange /\ RequestsMove
  <2> DEFINE tenant == IF TokenRead(requests[c])
                       THEN TokenTenant(requests[c].token) ELSE requests[c].tenant
  <2>1. requests[c] \in Request
    BY <1>11, StageIsRequest DEF PassAuth
  <2>2. tenant \in Ids
    BY <2>1 DEF Request, TokenTenant, Ids
  <2>3. Moves(c, [requests[c] EXCEPT !.stage = "isolation", !.tenant = tenant])
    BY <1>11, <2>1 DEF PassAuth, Moves, Request, GatewayInv, GatewayTypeOK
  <2>4. tenant = SettledTenant(requests[c])
    <3>1. requests[c].path \in {"public", "login", "open", "scoped"}
      BY <2>1, GatewayAssumption DEF Request
    <3>2. requests[c].tenant = requests[c].header
      BY <1>11 DEF PassAuth, GatewayInv, StageInv, Settled
    <3> QED
      BY <3>1, <3>2 DEF SettledTenant, TokenRead
  <2> HIDE DEF tenant
  <2>5. WentOn(c)
    BY <2>1, <2>2, <2>3, <2>4 DEF WentOn
  <2> QED
    BY <1>11, <2>5 DEF PassAuth, LimiterChanges, TenantsChange, RequestsMove
<1>12. ASSUME NEW c \in Calls, RejectToken(c) \/ RequireTenant(c) \/ LeaveRoute(c)
       PROVE  LimiterChanges /\ TenantsChange /\ RequestsMove
  <2>1. LimiterStays /\ Moves(c, NoRequest) /\ UNCHANGED <<tenants, regionIds>>
    BY <1>12 DEF RejectToken, RequireTenant, LeaveRoute, Answer, Moves
  <2> QED
    BY <2>1 DEF LimiterChanges, TenantsChange, RequestsMove
<1>13. ASSUME NEW c \in Calls, EnterRoute(c)
       PROVE  LimiterChanges /\ TenantsChange /\ RequestsMove
  <2>1. WentOn(c)
    BY <1>13, GoesOn DEF EnterRoute
  <2> QED
    BY <1>13, <2>1 DEF EnterRoute, LimiterChanges, TenantsChange, RequestsMove
<1>14. CASE Tick
  BY <1>14 DEF Tick, LimiterChanges, TenantsChange, RequestsMove
<1>15. (\E c \in Calls, tenant \in {None} \cup DOMAIN tenants,
          token \in {None, BadToken, Untenanted} \cup DOMAIN tenants, path \in Paths :
          Arrive(c, tenant, token, path))
       => LimiterChanges /\ TenantsChange /\ RequestsMove
  BY <1>7
<1> QED
  BY <1>1, <1>4, <1>5, <1>6, <1>8, <1>9, <1>10, <1>11, <1>12, <1>13, <1>14, <1>15
  DEF GatewayNext

----------------------------------------------------------------------------
(* Each part of the invariant, from what a step does to the state it speaks of. *)

LEMMA PutInProperties ==
  ASSUME NEW f, NEW k, NEW v
  PROVE  /\ DOMAIN PutIn(f, k, v) = DOMAIN f \cup {k}
         /\ PutIn(f, k, v)[k] = v
         /\ \A x \in DOMAIN f : x # k => PutIn(f, k, v)[x] = f[x]
BY DEF PutIn

\* The tables of the limiter: a bucket put in, with the admissions that belong to it.
LimiterType ==
  /\ buckets \in [DOMAIN buckets -> Bucket]
  /\ clock \in Nat
  /\ DOMAIN admitted \subseteq DOMAIN buckets
  /\ admitted \in [DOMAIN admitted -> Seq(Nat)]

LEMMA LimiterNext ==
  ASSUME GatewayInv, LimiterChanges
  PROVE  LimiterType' /\ LimitInv'
<1>1. LimiterType /\ LimitInv
  BY DEF GatewayInv, GatewayTypeOK, LimiterType
<1>2. CASE LimiterStays
  BY <1>1, <1>2 DEF LimiterStays, LimiterType, LimitInv, BucketInv
<1>3. CASE clock' = clock + 1 /\ UNCHANGED <<buckets, admitted>>
  <2>1. LimiterType'
    BY <1>1, <1>3 DEF LimiterType
  <2>2. ASSUME NEW id \in DOMAIN buckets
        PROVE  BucketInv(id)'
    <3>1. buckets[id].last \in Nat /\ BucketInv(id) /\ clock \in Nat
      BY <1>1 DEF LimiterType, LimitInv, Bucket
    <3> QED
      BY <1>3, <3>1 DEF BucketInv
  <2> QED
    BY <1>1, <1>3, <2>1, <2>2 DEF LimitInv
<1>4. ASSUME NEW id
      PROVE  LET b0 == BucketOf(id)
                 b  == Refilled(BucketOf(id))
             IN  /\ b0 \in Bucket /\ b0.tokens <= b0.max /\ b0.last <= clock
                 /\ b \in Bucket /\ b.tokens <= b.max /\ b.last = clock
  BY <1>1, BucketOfType, RefilledProperties DEF LimiterType
<1>5. ASSUME NEW id, id \in DOMAIN admitted
      PROVE  Stretches(Refilled(BucketOf(id)), admitted[id])
  <2>1. BucketOf(id) = buckets[id]
    BY <1>1, <1>5 DEF BucketOf, LimiterType
  <2>2. Stretches(BucketOf(id), admitted[id]) /\ admitted[id] \in Seq(Nat)
    BY <1>1, <1>5, <2>1 DEF LimitInv, LimiterType
  <2> QED
    BY <1>1, <1>4, <2>2, RefillKeepsStretches DEF LimiterType
<1>6. ASSUME NEW id, Refused(id)
      PROVE  LimiterType' /\ LimitInv'
  <2> DEFINE b == Refilled(BucketOf(id))
  <2>1. b \in Bucket /\ b.tokens <= b.max /\ b.last = clock
    BY <1>4
  <2>2. id \in DOMAIN admitted => Stretches(b, admitted[id])
    BY <1>5
  <2>3. buckets' = PutIn(buckets, id, b) /\ UNCHANGED <<admitted, clock>>
    BY <1>6 DEF Refused
  <2> HIDE DEF b
  <2>4. /\ DOMAIN buckets' = DOMAIN buckets \cup {id} /\ buckets'[id] = b
        /\ \A x \in DOMAIN buckets : x # id => buckets'[x] = buckets[x]
        /\ buckets' \in [DOMAIN buckets' -> Bucket]
    BY <1>1, <2>1, <2>3, PutInProperties DEF PutIn, LimiterType
  <2>5. LimiterType'
    BY <1>1, <2>3, <2>4 DEF LimiterType
  <2>6. ASSUME NEW x \in DOMAIN buckets'
        PROVE  BucketInv(x)'
    <3>1. CASE x = id
      BY <1>1, <2>1, <2>3, <2>4, <3>1 DEF BucketInv, LimiterType
    <3>2. CASE x # id
      BY <1>1, <2>3, <2>4, <3>2 DEF BucketInv, LimitInv
    <3> QED
      BY <3>1, <3>2
  <2>7. ASSUME NEW x \in DOMAIN admitted
        PROVE  Stretches(buckets'[x], admitted[x])
    BY <1>1, <2>2, <2>4 DEF LimitInv, LimiterType
  <2> QED
    BY <2>3, <2>5, <2>6, <2>7 DEF LimitInv
<1>7. ASSUME NEW id, Admitted(id)
      PROVE  LimiterType' /\ LimitInv'
  <2> DEFINE b == Refilled(BucketOf(id))
             a == [b EXCEPT !.tokens = @ - 1]
             before == IF id \in DOMAIN admitted THEN admitted[id] ELSE <<>>
             more == Append(before, clock)
  <2>1. b \in Bucket /\ b.tokens <= b.max /\ b.last = clock
    BY <1>4
  <2>2. before \in Seq(Nat) /\ Stretches(b, before)
    <3>1. CASE id \in DOMAIN admitted
      BY <1>1, <1>5, <3>1 DEF LimiterType
    <3>2. CASE id \notin DOMAIN admitted
      BY <2>1, <3>2, FirstAdmission
    <3> QED
      BY <3>1, <3>2
  <2>3. /\ b.tokens >= 1
        /\ buckets' = PutIn(buckets, id, a) /\ admitted' = PutIn(admitted, id, more)
        /\ UNCHANGED clock
    BY <1>7 DEF Admitted
  <2> HIDE DEF b, before
  <2>4. Stretches(a, more) /\ more \in Seq(Nat)
    BY <1>1, <2>1, <2>2, <2>3, AdmissionKeepsStretches DEF LimiterType
  <2>5. a \in Bucket /\ a.tokens <= a.max /\ a.last = clock
    BY <2>1, <2>3 DEF Bucket
  <2> HIDE DEF a, more
  <2>6. /\ DOMAIN buckets' = DOMAIN buckets \cup {id} /\ buckets'[id] = a
        /\ \A x \in DOMAIN buckets : x # id => buckets'[x] = buckets[x]
        /\ buckets' \in [DOMAIN buckets' -> Bucket]
    BY <1>1, <2>3, <2>5, PutInProperties DEF PutIn, LimiterType
  <2>7. /\ DOMAIN admitted' = DOMAIN admitted \cup {id} /\ admitted'[id] = more
        /\ \A x \in DOMAIN admitted : x # id => admitted'[x] = admitted[x]
        /\ admitted' \in [DOMAIN admitted' -> Seq(Nat)]
    BY <1>1, <2>3, <2>4, PutInProperties DEF PutIn, LimiterType
  <2>8. LimiterType'
    BY <1>1, <2>3, <2>6, <2>7 DEF LimiterType
  <2>9. ASSUME NEW x \in DOMAIN buckets'
        PROVE  BucketInv(x)'
    <3>1. CASE x = id
      BY <1>1, <2>3, <2>5, <2>6, <3>1 DEF BucketInv, LimiterType
    <3>2. CASE x # id
      BY <1>1, <2>3, <2>6, <3>2 DEF BucketInv, LimitInv
    <3> QED
      BY <3>1, <3>2
  <2>10. ASSUME NEW x \in DOMAIN admitted'
         PROVE  Stretches(buckets'[x], admitted'[x])
    <3>1. CASE x = id
      BY <2>4, <2>6, <2>7, <3>1
    <3>2. CASE x # id
      BY <1>1, <2>6, <2>7, <3>2 DEF LimitInv, LimiterType
    <3> QED
      BY <3>1, <3>2
  <2> QED
    BY <2>8, <2>9, <2>10 DEF LimitInv
<1> QED
  BY <1>2, <1>3, <1>6, <1>7 DEF LimiterChanges

LEMMA StageNext ==
  ASSUME GatewayInv, RequestsMove
  PROVE  requests' \in [Calls -> Request \cup {NoRequest}] /\ StageInv'
<1>1. requests \in [Calls -> Request \cup {NoRequest}] /\ StageInv
  BY DEF GatewayInv, GatewayTypeOK
<1>2. ASSUME NEW c \in Calls, NEW request \in Request \cup {NoRequest}, Settled(request),
             Moves(c, request)
      PROVE  requests' \in [Calls -> Request \cup {NoRequest}] /\ StageInv'
  <2>1. requests'[c] = request /\ \A d \in Calls : d # c => requests'[d] = requests[d]
    BY <1>1, <1>2 DEF Moves
  <2>2. requests' \in [Calls -> Request \cup {NoRequest}]
    BY <1>1, <1>2 DEF Moves
  <2>3. ASSUME NEW d \in Calls
        PROVE  Settled(requests'[d])
    <3>1. CASE d = c
      BY <1>2, <2>1, <3>1
    <3>2. CASE d # c
      BY <1>1, <2>1, <3>2 DEF StageInv
    <3> QED
      BY <3>1, <3>2
  <2> QED
    BY <2>2, <2>3 DEF StageInv
<1>3. CASE UNCHANGED requests
  BY <1>1, <1>3 DEF StageInv, Settled, SettledTenant
<1>4. ASSUME NEW c \in Calls, Arrived(c)
      PROVE  requests' \in [Calls -> Request \cup {NoRequest}] /\ StageInv'
  <2>1. PICK request \in Request :
          request.stage = "limit" /\ request.tenant = request.header /\ Moves(c, request)
    BY <1>4 DEF Arrived
  <2>2. Settled(request)
    BY <2>1 DEF Settled
  <2> QED
    BY <1>2, <2>1, <2>2
<1>5. ASSUME NEW c \in Calls, Moves(c, NoRequest)
      PROVE  requests' \in [Calls -> Request \cup {NoRequest}] /\ StageInv'
  <2>1. Settled(NoRequest)
    BY DEF NoRequest, Settled
  <2> QED
    BY <1>2, <1>5, <2>1
<1>6. ASSUME NEW c \in Calls, WentOn(c)
      PROVE  requests' \in [Calls -> Request \cup {NoRequest}] /\ StageInv'
  <2>1. PICK stage \in {"auth", "isolation", "route"}, tenant \in Ids :
          /\ requests[c] \in Request
          /\ Moves(c, [requests[c] EXCEPT !.stage = stage, !.tenant = tenant])
          /\ stage = "auth" => requests[c].stage = "limit" /\ tenant = requests[c].tenant
          /\ stage = "isolation" => tenant = SettledTenant(requests[c])
          /\ stage = "route" =>
               /\ requests[c].stage = "isolation" /\ tenant = requests[c].tenant
               /\ requests[c].path = "scoped" => tenant # None
    BY <1>6 DEF WentOn
  <2> DEFINE request == [requests[c] EXCEPT !.stage = stage, !.tenant = tenant]
  <2>2. /\ request \in Request /\ request.stage = stage /\ request.tenant = tenant
        /\ request.path = requests[c].path /\ request.token = requests[c].token
        /\ request.header = requests[c].header
    BY <2>1 DEF Request
  <2>3. Moves(c, request)
    BY <2>1
  <2> HIDE DEF request
  <2>4. Settled(request)
    BY <1>1, <2>1, <2>2 DEF StageInv, Settled, SettledTenant
  <2> QED
    BY <1>2, <2>2, <2>3, <2>4
<1> QED
  BY <1>3, <1>4, <1>5, <1>6 DEF RequestsMove

LEMMA ListNext ==
  ASSUME GatewayInv, TenantsChange
  PROVE  tenants' \in Seq(Tenant) /\ regionIds' \in [Regions -> Seq(Nat)] /\ ListInv'
<1>1. tenants \in Seq(Tenant) /\ regionIds \in [Regions -> Seq(Nat)] /\ ListInv
  BY DEF GatewayInv, GatewayTypeOK
<1>2. ASSUME tenants' \in Seq(Tenant), Len(tenants') = Len(tenants), UNCHANGED regionIds
      PROVE  tenants' \in Seq(Tenant) /\ regionIds' \in [Regions -> Seq(Nat)] /\ ListInv'
  BY <1>1, <1>2 DEF ListInv, HasPlace
<1>3. CASE UNCHANGED <<tenants, regionIds>>
  BY <1>1, <1>2, <1>3
<1>4. CASE Changed
  <2>1. PICK id \in DOMAIN tenants, tenant \in Tenant :
          tenants' = [tenants EXCEPT ![id] = tenant] /\ UNCHANGED regionIds
    BY <1>4 DEF Changed
  <2>2. tenants' \in Seq(Tenant) /\ Len(tenants') = Len(tenants)
    BY <1>1, <2>1
  <2> QED
    BY <1>2, <2>1, <2>2
<1>5. CASE Created
  <2>1. PICK tenant \in Tenant, region \in Regions :
          /\ tenants' = Append(tenants, tenant)
          /\ regionIds' = [regionIds EXCEPT ![region] = Append(@, Len(tenants) + 1)]
    BY <1>5 DEF Created
  <2> DEFINE n == Len(tenants)
             list == regionIds[region]
             k == Len(list)
  <2>2. n \in Nat /\ list \in Seq(Nat) /\ k \in Nat
    BY <1>1
  <2>3. tenants' \in Seq(Tenant) /\ Len(tenants') = n + 1
    BY <1>1, <2>1
  <2>4. /\ regionIds' \in [Regions -> Seq(Nat)]
        /\ regionIds'[region] = Append(list, n + 1)
        /\ \A s \in Regions : s # region => regionIds'[s] = regionIds[s]
    BY <1>1, <2>1, <2>2
  <2>5. /\ Len(regionIds'[region]) = k + 1 /\ regionIds'[region][k + 1] = n + 1
        /\ \A j \in 1..k : regionIds'[region][j] = list[j]
    BY <2>2, <2>4
  <2>6. k <= n /\ \A s \in Regions : \A j \in 1..Len(regionIds[s]) : regionIds[s][j] <= n
    BY <1>1 DEF ListInv
  <2>7. \A s \in Regions : Len(regionIds[s]) \in Nat /\ Len(regionIds[s]) <= n
    BY <1>1 DEF ListInv
  <2>8. \A s \in Regions : \A j \in 1..Len(regionIds[s]) : regionIds[s][j] \in Nat
    BY <1>1
  <2> HIDE DEF n, k
  <2>9. ASSUME NEW s \in Regions, NEW j \in Nat \ {0}
        PROVE  /\ Len(regionIds'[s]) \in Nat /\ Len(regionIds'[s]) <= n + 1
               /\ j <= Len(regionIds'[s]) <=>
                    j <= Len(regionIds[s]) \/ (s = region /\ j = k + 1)
               /\ j <= Len(regionIds[s]) => regionIds'[s][j] = regionIds[s][j]
    <3>1. CASE s = region
      <4>1. Len(regionIds[s]) = k /\ Len(regionIds'[s]) = k + 1
        BY <2>5, <3>1 DEF k
      <4>2. j <= k => j \in 1..k
        BY <2>2
      <4>3. j <= k => regionIds'[s][j] = regionIds[s][j]
        BY <2>5, <3>1, <4>2
      <4> QED
        BY <2>2, <2>6, <3>1, <4>1, <4>3
    <3>2. CASE s # region
      BY <2>2, <2>4, <2>7, <3>2
    <3> QED
      BY <3>1, <3>2
  <2>10. ASSUME NEW s \in Regions, NEW j \in 1..Len(regionIds'[s])
         PROVE  regionIds'[s][j] <= n + 1
    <3>1. j \in Nat \ {0} /\ j <= Len(regionIds'[s])
      BY <2>4
    <3>2. CASE j <= Len(regionIds[s])
      <4>1. j \in 1..Len(regionIds[s])
        BY <2>7, <3>1, <3>2
      <4>2. regionIds'[s][j] = regionIds[s][j] /\ regionIds[s][j] <= n /\ regionIds[s][j] \in Nat
        BY <2>6, <2>8, <2>9, <3>1, <3>2, <4>1
      <4> QED
        BY <2>2, <4>2
    <3>3. CASE s = region /\ j = k + 1
      BY <2>2, <2>5, <3>3
    <3> QED
      BY <2>9, <3>1, <3>2, <3>3
  <2>11. ASSUME NEW id \in 1..n
         PROVE  \E r \in Regions, i \in Nat \ {0} : HasPlace(id, r, i)'
    <3>1. PICK r \in Regions, i \in Nat \ {0} : HasPlace(id, r, i)
      BY <1>1 DEF ListInv, n
    <3>2. i <= Len(regionIds[r])
      BY <3>1 DEF HasPlace
    <3>3. ASSUME NEW s \in Regions, NEW j \in Nat \ {0}
          PROVE  j <= Len(regionIds'[s]) /\ regionIds'[s][j] = id <=> s = r /\ j = i
      <4>1. CASE j <= Len(regionIds[s])
        BY <2>9, <3>1, <4>1 DEF HasPlace
      <4>2. CASE s = region /\ j = k + 1
        <5>1. regionIds'[s][j] # id
          BY <2>2, <2>5, <4>2
        <5>2. ~ (s = r /\ j = i)
          BY <2>2, <3>2, <4>2 DEF k
        <5> QED
          BY <5>1, <5>2
      <4>3. CASE ~ (j <= Len(regionIds[s])) /\ ~ (s = region /\ j = k + 1)
        <5>1. ~ (j <= Len(regionIds'[s]))
          BY <2>9, <4>3
        <5>2. ~ (s = r /\ j = i)
          BY <3>2, <4>3
        <5> QED
          BY <5>1, <5>2
      <4> QED
        BY <4>1, <4>2, <4>3
    <3> QED
      BY <3>3 DEF HasPlace
  <2>12. ASSUME NEW s \in Regions, NEW j \in Nat \ {0}
         PROVE  j <= Len(regionIds'[s]) /\ regionIds'[s][j] = n + 1
                  <=> s = region /\ j = k + 1
    <3>1. CASE j <= Len(regionIds[s])
      <4>1. j \in 1..Len(regionIds[s])
        BY <2>7, <3>1
      <4>2. regionIds'[s][j] = regionIds[s][j] /\ regionIds[s][j] <= n
            /\ regionIds[s][j] \in Nat
        BY <2>6, <2>8, <2>9, <3>1, <4>1
      <4>3. ~ (s = region /\ j = k + 1)
        BY <2>2, <3>1 DEF k
      <4> QED
        BY <2>2, <4>2, <4>3
    <3>2. CASE s = region /\ j = k + 1
      BY <2>5, <2>9, <3>2
    <3>3. CASE ~ (j <= Len(regionIds[s])) /\ ~ (s = region /\ j = k + 1)
      BY <2>9, <3>3
    <3> QED
      BY <3>1, <3>2, <3>3
  <2>13. ASSUME NEW id \in 1..(n + 1)
         PROVE  \E r \in Regions, i \in Nat \ {0} : HasPlace(id, r, i)'
    <3>1. CASE id \in 1..n
      BY <2>11, <3>1
    <3>2. CASE id = n + 1
      <4>1. k + 1 \in Nat \ {0}
        BY <2>2
      <4>2. \A s \in Regions, j \in Nat \ {0} :
              j <= Len(regionIds'[s]) /\ regionIds'[s][j] = id <=> s = region /\ j = k + 1
        BY <2>12, <3>2
      <4> QED
        BY <4>1, <4>2 DEF HasPlace
    <3> QED
      BY <2>2, <3>1, <3>2
  <2>14. \A r \in Regions : Len(regionIds'[r]) <= n + 1
    BY <2>9
  <2> QED
    BY <2>3, <2>4, <2>10, <2>13, <2>14 DEF ListInv
<1> QED
  BY <1>3, <1>4, <1>5 DEF TenantsChange

----------------------------------------------------------------------------
(* The invariant gives the three properties. *)

LEMMA GatewayStepKeeps == GatewayInv /\ [GatewayNext]_gatewayVars => GatewayInv'
<1> SUFFICES ASSUME GatewayInv, [GatewayNext]_gatewayVars PROVE GatewayInv'
  OBVIOUS
<1>1. CASE GatewayNext
  <2>1. LimiterChanges /\ TenantsChange /\ RequestsMove
    BY <1>1, StepChanges
  <2>2. LimiterType' /\ LimitInv'
    BY <2>1, LimiterNext
  <2>3. requests' \in [Calls -> Request \cup {NoRequest}] /\ StageInv'
    BY <2>1, StageNext
  <2>4. tenants' \in Seq(Tenant) /\ regionIds' \in [Regions -> Seq(Nat)] /\ ListInv'
    BY <2>1, ListNext
  <2> QED
    BY <2>2, <2>3, <2>4 DEF LimiterType, GatewayTypeOK, GatewayInv
<1>2. CASE UNCHANGED gatewayVars
  BY <1>2 DEF gatewayVars, GatewayInv, GatewayTypeOK, ListInv, HasPlace, LimitInv, BucketInv,
              StageInv
<1> QED
  BY <1>1, <1>2

LEMMA InvLimitHeld == GatewayInv => LimitHeld
<1> SUFFICES ASSUME GatewayInv, NEW id \in DOMAIN admitted,
                    NEW j \in DOMAIN admitted[id], NEW i \in 1..j
             PROVE  j - i + 1 <= buckets[id].max
                                  + buckets[id].rate * (admitted[id][j] - admitted[id][i])
  BY DEF LimitHeld
<1>1. admitted[id] \in Seq(Nat) /\ Stretches(buckets[id], admitted[id])
  BY DEF GatewayInv, GatewayTypeOK, LimitInv
<1>2. j \in 1..Len(admitted[id])
  BY <1>1
<1> QED
  BY <1>1, <1>2 DEF Stretches

LEMMA InvListedOnce == GatewayInv => ListedOnce
<1> SUFFICES ASSUME GatewayInv, NEW id \in DOMAIN tenants
             PROVE  Cardinality({place \in Regions \X DOMAIN tenants :
                      /\ place[2] \in DOMAIN regionIds[place[1]]
                      /\ regionIds[place[1]][place[2]] = id}) = 1
  BY DEF ListedOnce
<1> DEFINE places == {place \in Regions \X DOMAIN tenants :
                        /\ place[2] \in DOMAIN regionIds[place[1]]
                        /\ regionIds[place[1]][place[2]] = id}
<1>1. /\ tenants \in Seq(Tenant) /\ regionIds \in [Regions -> Seq(Nat)] /\ ListInv
  BY DEF GatewayInv, GatewayTypeOK
<1>2. id \in 1..Len(tenants) /\ DOMAIN tenants = 1..Len(tenants) /\ Len(tenants) \in Nat
  BY <1>1
<1>3. PICK r \in Regions, i \in Nat \ {0} : HasPlace(id, r, i)
  BY <1>1, <1>2 DEF ListInv
<1>4. i <= Len(regionIds[r]) /\ regionIds[r][i] = id
  BY <1>3 DEF HasPlace
<1>5. Len(regionIds[r]) <= Len(tenants) /\ Len(regionIds[r]) \in Nat
  BY <1>1 DEF ListInv
<1>6. <<r, i>> \in places
  <2>1. i \in DOMAIN tenants
    BY <1>2, <1>4, <1>5
  <2>2. i \in DOMAIN regionIds[r]
    BY <1>1, <1>4, <1>5
  <2> QED
    BY <1>4, <2>1, <2>2
<1>7. ASSUME NEW place \in places
      PROVE  place = <<r, i>>
  <2>1. /\ place[1] \in Regions /\ place[2] \in DOMAIN tenants
        /\ place[2] \in DOMAIN regionIds[place[1]] /\ regionIds[place[1]][place[2]] = id
        /\ place = <<place[1], place[2]>>
    OBVIOUS
  <2>2. place[2] \in Nat \ {0} /\ place[2] <= Len(regionIds[place[1]])
    BY <1>1, <1>2, <2>1
  <2>3. place[1] = r /\ place[2] = i
    BY <1>3, <2>1, <2>2 DEF HasPlace
  <2> QED
    BY <2>1, <2>3
<1>8. places = {<<r, i>>}
  BY <1>6, <1>7
<1> HIDE DEF places
<1>9. Cardinality(places) = 1
  BY <1>8, FS_Singleton
<1> QED
  BY <1>9 DEF places

\* The state keeps its type, and a bucket, the lists of the regions and the requests keep
\* what the properties rest on.
THEOREM GatewayInvariant == GatewaySpec => []GatewayInv
<1>1. GatewayInit => GatewayInv
  BY GatewayInitHolds
<1>2. GatewayInv /\ [GatewayNext]_gatewayVars => GatewayInv'
  BY GatewayStepKeeps
<1> QED
  BY <1>1, <1>2, PTL DEF GatewaySpec

\* However requests pass the middlewares and tenants change: no stretch of time admits more
\* than a full bucket and its gain, routes run for the tenant of the token, and the lists
\* of the regions hold every tenant once.
THEOREM GatewayHoldsCorrect == GatewaySpec => []GatewayHolds
<1>1. GatewayInv => TenantSettled
  BY DEF GatewayInv, StageInv, Settled, SettledTenant, TenantSettled
<1>2. GatewayInv => GatewayHolds
  BY <1>1, InvLimitHeld, InvListedOnce DEF GatewayHolds
<1> QED
  BY <1>2, GatewayInvariant, PTL

----------------------------------------------------------------------------
(* EventBus. *)

Event == [number : Nat, tenant : EventTenants]

Emitter ==
  {NotEmitting} \cup [stage : {"connecting", "waiting"}, event : Event]
    \cup [stage : {"publishing"}, bus : Nat, event : Event, next : Nat \ {0},
        due : SUBSET Clients]

Route ==
  {Away} \cup [stage : {"subscribing", "open", "gone"}, route : {"events", "command"},
               tenant : EventTenants \cup {None}, topic : Int, during : BOOLEAN]

Bus == [broker : {"kafka", "memory"}, handlers : Seq(Clients)]

\* The state keeps its type.
BusTypeOK ==
  /\ buses \in Seq(Bus) /\ instance \in 0..Len(buses)
  /\ emitters \in [Calls -> Emitter]
  /\ \A c \in Calls : emitters[c].stage = "publishing" =>
       /\ emitters[c].bus \in 1..Len(buses)
       /\ emitters[c].next <= Len(buses[emitters[c].bus].handlers) + 1
  /\ clients \in [Clients -> Route]
  /\ received \in [Clients -> Seq(Nat)]
  /\ emitted \in Nat
  /\ delivered \subseteq [number : Nat, bus : Nat, due : SUBSET Clients]

\* A client has one place among the handlers of all the buses, and only after it joined.
HandlerInv ==
  /\ \A b \in 1..Len(buses) : \A i \in 1..Len(buses[b].handlers) :
       clients[buses[b].handlers[i]] # Away
  /\ \A a, b \in 1..Len(buses) :
       \A i \in 1..Len(buses[a].handlers) : \A j \in 1..Len(buses[b].handlers) :
         buses[a].handlers[i] = buses[b].handlers[j] => a = b /\ i = j

\* Every event under way has a number of its own.
NumberInv ==
  /\ \A c \in Calls : emitters[c] # NotEmitting => emitters[c].event.number \in 1..emitted
  /\ \A c, d \in Calls :
       /\ emitters[c] # NotEmitting /\ emitters[d] # NotEmitting
       /\ emitters[c].event.number = emitters[d].event.number
       => c = d

\* The handlers that have had their turn in a publication.
Passed(c, k) ==
  /\ emitters[c].stage = "publishing"
  /\ \E i \in 1..Len(buses[emitters[c].bus].handlers) :
       i < emitters[c].next /\ buses[emitters[c].bus].handlers[i] = k

\* Nobody was sent an event twice, nor before its turn.
ReceivedInv ==
  \A k \in Clients :
    /\ \A i \in 1..Len(received[k]) : received[k][i] \in 1..emitted
    /\ \A i, j \in 1..Len(received[k]) : received[k][i] = received[k][j] => i = j
    /\ \A c \in Calls : \A i \in 1..Len(received[k]) :
         emitters[c] # NotEmitting /\ received[k][i] = emitters[c].event.number => Passed(c, k)

Got(k, n) == \E i \in 1..Len(received[k]) : received[k][i] = n

Listens(k) == clients[k].stage # "gone" /\ clients[k].route = "events"

OnBus(b, k) == \E i \in 1..Len(buses[b].handlers) : buses[b].handlers[i] = k

\* Whoever had its turn and has stayed was sent the event.  Those it is due to are on its
\* bus, or joined while an instance was being made.
ReachedInv ==
  /\ \A c \in Calls : \A k \in Clients :
       Passed(c, k) /\ Listens(k) => Got(k, emitters[c].event.number)
  /\ \A c \in Calls : emitters[c].stage = "publishing" =>
       \A k \in emitters[c].due :
         clients[k] # Away /\ (OnBus(emitters[c].bus, k) \/ clients[k].during)

DeliveredInv ==
  \A d \in delivered :
    /\ d.bus \in 1..Len(buses)
    /\ \A k \in d.due :
         /\ clients[k] # Away
         /\ Listens(k) => Got(k, d.number) \/ (clients[k].during /\ ~ OnBus(d.bus, k))

\* A bus other than the instance, and every bus while one is being made, has only the
\* handlers of clients that joined while one was being made.
StrandedInv ==
  /\ instance = 0 => Len(buses) = 0
  /\ \A b \in 1..Len(buses) : \A i \in 1..Len(buses[b].handlers) :
       LockHeld \/ b # instance => clients[buses[b].handlers[i]].during

\* Those who wait for the lock wait for somebody, or the instance is there.
LockInv == (\E c \in Calls : emitters[c].stage = "waiting") => instance # 0 \/ LockHeld

BusInv ==
  /\ BusTypeOK /\ HandlerInv /\ NumberInv /\ ReceivedInv /\ ReachedInv /\ DeliveredInv
  /\ LockInv /\ StrandedInv

LEMMA BusIs ==
  ASSUME NEW s \in Seq(Bus), NEW b \in 1..Len(s)
  PROVE  s[b] \in Bus /\ s[b].handlers \in Seq(Clients) /\ Len(s[b].handlers) \in Nat
<1>1. s[b] \in Bus
  OBVIOUS
<1>2. s[b].handlers \in Seq(Clients)
  BY <1>1 DEF Bus
<1> QED
  BY <1>1, <1>2

LEMMA BusInitHolds == BusInit => BusInv
<1> SUFFICES ASSUME BusInit PROVE BusInv
  OBVIOUS
<1> USE DEF BusInit
<1>1. BusTypeOK
  <2>1. NotEmitting \in Emitter /\ NotEmitting.stage = "idle"
    BY DEF NotEmitting, Emitter
  <2>2. Away \in Route
    BY DEF Route
  <2>3. <<>> \in Seq(Bus) /\ <<>> \in Seq(Nat) /\ Len(<<>>) = 0
    OBVIOUS
  <2> QED
    BY <2>1, <2>2, <2>3 DEF BusTypeOK
<1>2. HandlerInv
  BY DEF HandlerInv
<1>3. NumberInv
  BY DEF NumberInv
<1>4. ReceivedInv
  BY DEF ReceivedInv
<1>5. ReachedInv /\ DeliveredInv /\ LockInv /\ StrandedInv
  BY DEF ReachedInv, DeliveredInv, LockInv, StrandedInv, Passed, NotEmitting
<1> QED
  BY <1>1, <1>2, <1>3, <1>4, <1>5 DEF BusInv

\* What is known of an emitter by its stage.
LEMMA EmitterIs ==
  ASSUME BusTypeOK, NEW c \in Calls
  PROVE  /\ emitters[c] \in Emitter
         /\ emitters[c] = NotEmitting \/ emitters[c].event \in Event
         /\ emitters[c].stage # "idle" <=> emitters[c] # NotEmitting
         /\ emitters[c].stage = "publishing" =>
              /\ emitters[c].next \in Nat \ {0} /\ emitters[c].due \subseteq Clients
              /\ emitters[c].bus \in 1..Len(buses) /\ buses[emitters[c].bus] \in Bus
              /\ emitters[c].event \in Event
              /\ emitters[c].next <= Len(buses[emitters[c].bus].handlers) + 1
BY DEF BusTypeOK, Emitter, NotEmitting

LEMMA SubscriberIs ==
  ASSUME BusTypeOK, NEW k \in Subscribers
  PROVE  \E b \in 1..Len(buses) : \E i \in 1..Len(buses[b].handlers) : buses[b].handlers[i] = k
<1>1. PICK b \in 1..Len(buses) : k \in ToSet(buses[b].handlers)
  BY DEF Subscribers, BusTypeOK
<1>2. DOMAIN buses[b].handlers = 1..Len(buses[b].handlers)
  BY BusIs
<1>3. PICK i \in 1..Len(buses[b].handlers) : buses[b].handlers[i] = k
  BY <1>1, <1>2 DEF ToSet
<1> QED
  BY <1>3

\* Those who are subscribed are on a bus, and off the instance only if they joined while
\* one was being made.
LEMMA SubscribersAre ==
  ASSUME BusTypeOK, HandlerInv, StrandedInv, NEW k \in Subscribers
  PROVE  k \in Clients /\ clients[k] # Away /\ (OnBus(instance, k) \/ clients[k].during)
<1>1. PICK b \in 1..Len(buses) : \E i \in 1..Len(buses[b].handlers) : buses[b].handlers[i] = k
  BY SubscriberIs
<1>2. PICK i \in 1..Len(buses[b].handlers) : buses[b].handlers[i] = k
  BY <1>1
<1>3. buses[b].handlers \in Seq(Clients)
  BY BusIs DEF BusTypeOK
<1>4. k \in Clients
  BY <1>2, <1>3
<1>5. clients[k] # Away
  BY <1>2 DEF HandlerInv
<1> QED
  BY <1>2, <1>4, <1>5 DEF StrandedInv, OnBus

LEMMA StrandedStays ==
  ASSUME StrandedInv, LockHeld' => LockHeld, UNCHANGED <<instance, buses, clients>>
  PROVE  StrandedInv'
BY DEF StrandedInv

LEMMA EmitKeeps ==
  ASSUME BusInv, NEW c \in Calls, NEW tenant \in EventTenants, Emit(c, tenant)
  PROVE  BusInv'
<1> DEFINE event == [number |-> emitted + 1, tenant |-> tenant]
           stage == IF LockHeld THEN "waiting" ELSE "connecting"
           call == IF instance # 0 THEN Published(instance, event)
                   ELSE [stage |-> stage, event |-> event]
<1>1. /\ BusTypeOK /\ HandlerInv /\ NumberInv /\ ReceivedInv /\ ReachedInv
      /\ DeliveredInv /\ LockInv /\ StrandedInv
      /\ emitters[c] = NotEmitting /\ emitters' = [emitters EXCEPT ![c] = call]
      /\ emitted' = emitted + 1
      /\ UNCHANGED <<instance, buses, delivered, clients, received>>
  BY DEF BusInv, Emit
<1>2. /\ event \in Event /\ event.number = emitted + 1
      /\ stage \in {"waiting", "connecting"}
  BY <1>1 DEF BusTypeOK, Event
<1>3. /\ call \in Emitter /\ call.event = event /\ call # NotEmitting
      /\ call.stage = "publishing" =>
           /\ call.bus \in 1..Len(buses) /\ call.next = 1 /\ call.bus = instance
           /\ call.due = Subscribers
      /\ call.stage = "waiting" => LockHeld
      /\ call.stage = "connecting" => instance = 0
  <2> HIDE DEF event, stage
  <2>1. CASE instance = 0
    BY <1>2, <2>1 DEF Emitter, NotEmitting, stage
  <2>2. CASE instance # 0
    <3>1. instance \in 1..Len(buses) /\ buses[instance] \in Bus /\ instance \in Nat
      BY <1>1, <2>2 DEF BusTypeOK
    <3>2. Subscribers \subseteq Clients
      BY <1>1, SubscribersAre
    <3>3. call = Published(instance, event)
      BY <2>2
    <3> HIDE DEF call
    <3> QED
      BY <1>2, <3>1, <3>2, <3>3 DEF Published, Emitter, NotEmitting
  <2> QED
    BY <2>1, <2>2
<1> HIDE DEF call, event, stage
<1>4. /\ emitters'[c] = call /\ \A d \in Calls \ {c} : emitters'[d] = emitters[d]
      /\ emitters' \in [Calls -> Emitter]
  BY <1>1, <1>3 DEF BusTypeOK
<1>5. emitted \in Nat /\ emitted + 1 \in Nat
  BY <1>1 DEF BusTypeOK
<1>6. BusTypeOK'
  <2>1. call.stage = "publishing" => call.next <= Len(buses[call.bus].handlers) + 1
    <3>1. call.stage = "publishing" => Len(buses[call.bus].handlers) \in Nat
      BY <1>1, <1>3 DEF BusTypeOK, Bus
    <3> QED
      BY <1>3, <3>1
  <2> QED
    BY <1>1, <1>3, <1>4, <1>5, <2>1 DEF BusTypeOK
<1>7. HandlerInv'
  BY <1>1 DEF HandlerInv
<1>8. NumberInv'
  <2>1. \A d \in Calls \ {c} : emitters[d] # NotEmitting => emitters[d].event.number \in 1..emitted
    BY <1>1 DEF NumberInv
  <2> QED
    BY <1>1, <1>2, <1>3, <1>4, <1>5, <2>1 DEF NumberInv
<1>9. \A d \in Calls \ {c} : \A k \in Clients : Passed(d, k)' <=> Passed(d, k)
  BY <1>1, <1>4 DEF Passed
<1>10. \A k \in Clients : ~ Passed(c, k)'
  BY <1>1, <1>3, <1>4 DEF Passed
<1>11. ReceivedInv'
  <2>1. \A k \in Clients : \A i \in 1..Len(received[k]) :
          received[k][i] \in 1..emitted' /\ received[k][i] # emitted + 1
    BY <1>1, <1>5 DEF ReceivedInv
  <2>2. ASSUME NEW d \in Calls, NEW k \in Clients, NEW i \in 1..Len(received[k]),
               emitters'[d] # NotEmitting, received[k][i] = emitters'[d].event.number
        PROVE  Passed(d, k)'
    <3>1. d # c
      BY <1>2, <1>3, <1>4, <2>1, <2>2
    <3> QED
      BY <1>1, <1>4, <1>9, <2>2, <3>1 DEF ReceivedInv
  <2> QED
    BY <1>1, <2>1, <2>2 DEF ReceivedInv
<1>12. ReachedInv' /\ DeliveredInv'
  <2>1. ASSUME call.stage = "publishing", NEW k \in call.due
        PROVE  clients[k] # Away /\ (OnBus(call.bus, k) \/ clients[k].during)
    BY <1>1, <1>3, <2>1, SubscribersAre
  <2>2. \A b, k : OnBus(b, k)' <=> OnBus(b, k)
    BY <1>1 DEF OnBus
  <2>3. ReachedInv'
    BY <1>1, <1>4, <1>9, <1>10, <2>1, <2>2 DEF ReachedInv, Listens, Got
  <2>4. DeliveredInv'
    BY <1>1, <2>2 DEF DeliveredInv, Listens, Got
  <2> QED
    BY <2>3, <2>4
<1>13. LockInv'
  <2>1. LockHeld => LockHeld'
    BY <1>1, <1>4 DEF LockHeld, NotEmitting
  <2> QED
    BY <1>1, <1>3, <1>4, <2>1 DEF LockInv
<1>14. StrandedInv'
  <2>1. CASE instance = 0
    BY <1>1, <2>1 DEF StrandedInv
  <2>2. CASE instance # 0
    <3>1. LockHeld' => LockHeld
      BY <1>3, <1>4, <2>2 DEF LockHeld
    <3> QED
      BY <1>1, <3>1, StrandedStays
  <2> QED
    BY <2>1, <2>2
<1> QED
  BY <1>6, <1>7, <1>8, <1>11, <1>12, <1>13, <1>14 DEF BusInv

\* An emitter that goes on to its publication, or is done with it.
LEMMA EmitterMoves ==
  ASSUME BusInv, NEW c \in Calls, NEW call \in Emitter,
         emitters' = [emitters EXCEPT ![c] = call],
         emitters[c] # NotEmitting, call.stage # "waiting", call.stage # "connecting",
         call # NotEmitting =>
           /\ call.event = emitters[c].event /\ emitters[c].stage # "publishing"
           /\ call.next = 1 /\ call.bus \in 1..Len(buses')
           /\ \A k \in call.due :
                /\ clients[k] # Away
                /\ \/ \E i \in 1..Len(buses'[call.bus].handlers) : buses'[call.bus].handlers[i] = k
                   \/ clients[k].during,
         buses' \in Seq(Bus), Len(buses) <= Len(buses'),
         \A b \in 1..Len(buses) : buses'[b].handlers = buses[b].handlers,
         \A b \in 1..Len(buses') : b \in 1..Len(buses) \/ buses'[b].handlers = <<>>,
         instance' \in 0..Len(buses'),
         instance' # 0 \/ (instance' = instance /\ emitters[c].stage # "connecting"),
         delivered' \subseteq [number : Nat, bus : Nat, due : SUBSET Clients], DeliveredInv',
         StrandedInv', UNCHANGED <<clients, received, emitted>>
  PROVE  BusInv'
<1>1. /\ BusTypeOK /\ HandlerInv /\ NumberInv /\ ReceivedInv /\ ReachedInv /\ LockInv
      /\ Len(buses) \in Nat /\ Len(buses') \in Nat
  BY DEF BusInv, BusTypeOK
<1>2. /\ emitters'[c] = call /\ \A d \in Calls \ {c} : emitters'[d] = emitters[d]
      /\ emitters' \in [Calls -> Emitter]
  BY <1>1 DEF BusTypeOK
<1>3. call.stage = "publishing" => call # NotEmitting
  BY DEF NotEmitting
<1>4. BusTypeOK'
  <2>1. ASSUME NEW d \in Calls, emitters'[d].stage = "publishing"
        PROVE  /\ emitters'[d].bus \in 1..Len(buses')
               /\ emitters'[d].next <= Len(buses'[emitters'[d].bus].handlers) + 1
    <3>1. CASE d # c
      <4>1. /\ emitters[d].bus \in 1..Len(buses) /\ emitters'[d] = emitters[d]
            /\ emitters[d].next <= Len(buses[emitters[d].bus].handlers) + 1
        BY <1>1, <1>2, <2>1, <3>1 DEF BusTypeOK
      <4>2. \A b \in 1..Len(buses) : b \in 1..Len(buses') /\ buses'[b].handlers = buses[b].handlers
        BY <1>1
      <4>3. /\ emitters[d].bus \in 1..Len(buses')
            /\ buses'[emitters[d].bus].handlers = buses[emitters[d].bus].handlers
        BY <4>1, <4>2
      <4> QED
        BY <4>1, <4>3
    <3>2. CASE d = c
      <4>1. call.bus \in 1..Len(buses') /\ call.next = 1
        BY <1>2, <1>3, <2>1, <3>2
      <4>2. Len(buses'[call.bus].handlers) \in Nat
        BY <4>1 DEF Bus
      <4> QED
        BY <1>2, <3>2, <4>1, <4>2
    <3> QED
      BY <3>1, <3>2
  <2> QED
    BY <1>1, <1>2, <2>1 DEF BusTypeOK
<1>5. HandlerInv'
  <2>1. ASSUME NEW b \in 1..Len(buses'), NEW i \in 1..Len(buses'[b].handlers)
        PROVE  b \in 1..Len(buses) /\ buses'[b].handlers = buses[b].handlers
    <3>1. CASE buses'[b].handlers = <<>>
      BY <2>1, <3>1
    <3> QED
      BY <3>1
  <2>2. \A b \in 1..Len(buses') : \A i \in 1..Len(buses'[b].handlers) :
          clients'[buses'[b].handlers[i]] # Away
    BY <1>1, <2>1 DEF HandlerInv
  <2>3. ASSUME NEW a \in 1..Len(buses'), NEW b \in 1..Len(buses'),
               NEW i \in 1..Len(buses'[a].handlers), NEW j \in 1..Len(buses'[b].handlers),
               buses'[a].handlers[i] = buses'[b].handlers[j]
        PROVE  a = b /\ i = j
    <3>1. /\ a \in 1..Len(buses) /\ buses'[a].handlers = buses[a].handlers
          /\ b \in 1..Len(buses) /\ buses'[b].handlers = buses[b].handlers
      BY <2>1
    <3> QED
      BY <1>1, <2>3, <3>1 DEF HandlerInv
  <2> QED
    BY <2>2, <2>3 DEF HandlerInv
<1>6. NumberInv'
  BY <1>1, <1>2 DEF NumberInv
<1>7. \A d \in Calls \ {c} : \A k \in Clients : Passed(d, k)' <=> Passed(d, k)
  <2> SUFFICES ASSUME NEW d \in Calls \ {c}, NEW k \in Clients
               PROVE  Passed(d, k)' <=> Passed(d, k)
    OBVIOUS
  <2>1. emitters'[d] = emitters[d]
    BY <1>1, <1>2
  <2>2. CASE emitters[d].stage = "publishing"
    <3>1. buses'[emitters[d].bus].handlers = buses[emitters[d].bus].handlers
      BY <1>1, <1>2, <2>2 DEF BusTypeOK
    <3> QED
      BY SMTT(30), <2>1, <2>2, <3>1 DEF Passed
  <2>3. CASE emitters[d].stage # "publishing"
    BY <2>1, <2>3 DEF Passed
  <2> QED
    BY <2>2, <2>3
<1>8. \A k \in Clients : ~ Passed(c, k)'
  BY <1>2, <1>3 DEF Passed
<1>9. ReceivedInv'
  <2>1. ASSUME NEW k \in Clients, NEW d \in Calls, NEW i \in 1..Len(received[k]),
               emitters'[d] # NotEmitting, received[k][i] = emitters'[d].event.number
        PROVE  Passed(d, k)'
    <3>1. CASE d # c
      BY <1>1, <1>2, <1>7, <2>1, <3>1 DEF ReceivedInv
    <3>2. CASE d = c
      <4>1. Passed(c, k)
        BY <1>1, <1>2, <2>1, <3>2 DEF ReceivedInv
      <4> QED
        BY <1>2, <2>1, <3>2, <4>1 DEF Passed
    <3> QED
      BY <3>1, <3>2
  <2> QED
    BY <1>1, <2>1 DEF ReceivedInv
<1>10. ReachedInv'
  <2>1. ASSUME NEW d \in Calls, emitters'[d].stage = "publishing", NEW k \in emitters'[d].due
        PROVE  clients'[k] # Away /\ (OnBus(emitters[d].bus, k)' \/ clients'[k].during)
    <3>1. CASE d = c
      BY <1>2, <1>3, <2>1, <3>1 DEF OnBus
    <3>2. CASE d # c
      <4>1. emitters[d].bus \in 1..Len(buses) /\ emitters'[d] = emitters[d]
        BY <1>1, <1>2, <2>1, <3>2 DEF BusTypeOK
      <4>2. clients[k] # Away /\ (OnBus(emitters[d].bus, k) \/ clients[k].during)
        BY <1>1, <2>1, <4>1 DEF ReachedInv
      <4>3. OnBus(emitters[d].bus, k) => OnBus(emitters[d].bus, k)'
        BY <4>1 DEF OnBus
      <4> QED
        BY <4>1, <4>2, <4>3 DEF OnBus
    <3> QED
      BY <3>1, <3>2
  <2>2. ASSUME NEW d \in Calls, NEW k \in Clients, Passed(d, k)', Listens(k)'
        PROVE  Got(k, emitters[d].event.number)'
    <3>1. d # c /\ Passed(d, k) /\ Listens(k)
      BY <1>7, <1>8, <2>2 DEF Listens
    <3>2. Got(k, emitters[d].event.number)
      BY <1>1, <3>1 DEF ReachedInv
    <3> QED
      BY <1>2, <3>1, <3>2 DEF Got
  <2> QED
    BY <2>1, <2>2 DEF ReachedInv
<1>11. LockInv'
  BY <1>1, <1>2 DEF LockInv, LockHeld
<1> QED
  BY <1>4, <1>5, <1>6, <1>9, <1>10, <1>11 DEF BusInv

LEMMA InitializedKeeps ==
  ASSUME BusInv, NEW c \in Calls, NEW broker \in {"kafka", "memory"}, Initialized(c, broker)
  PROVE  BusInv'
<1> DEFINE call == IF broker = "kafka" THEN NotEmitting
                   ELSE Published(Len(buses) + 1, emitters[c].event)
           bus == [broker |-> broker, handlers |-> <<>>]
<1>1. /\ BusTypeOK /\ HandlerInv /\ DeliveredInv /\ StrandedInv
      /\ emitters[c].stage = "connecting"
      /\ buses' = Append(buses, bus) /\ instance' = Len(buses) + 1
      /\ emitters' = [emitters EXCEPT ![c] = call]
      /\ UNCHANGED <<emitted, delivered, clients, received>>
  BY DEF BusInv, Initialized
<1>2. emitters[c] # NotEmitting /\ emitters[c].event \in Event
  BY <1>1, EmitterIs
<1>3. buses \in Seq(Bus) /\ bus \in Bus /\ Len(buses) \in Nat
  BY <1>1 DEF BusTypeOK, Bus
<1>4. /\ call \in Emitter /\ call.stage \in {"idle", "publishing"}
      /\ call # NotEmitting =>
           /\ call.event = emitters[c].event /\ call.next = 1 /\ call.bus = Len(buses) + 1
           /\ call.due = Subscribers
  <2>1. Subscribers \subseteq Clients
    BY <1>1, SubscribersAre
  <2> QED
    BY <1>2, <1>3, <2>1 DEF Emitter, NotEmitting, Published
<1> HIDE DEF call
<1>5. /\ buses' \in Seq(Bus) /\ Len(buses') = Len(buses) + 1
      /\ \A b \in 1..Len(buses) : buses'[b] = buses[b]
      /\ buses'[Len(buses) + 1] = bus
  BY <1>1, <1>3
<1>6. \A b \in 1..Len(buses') : b \in 1..Len(buses) \/ buses'[b].handlers = <<>>
  BY <1>3, <1>5
<1>7. DeliveredInv' /\ delivered' \subseteq [number : Nat, bus : Nat, due : SUBSET Clients]
  <2>1. \A b \in 1..Len(buses) : \A k : OnBus(b, k)' <=> OnBus(b, k)
    BY <1>5 DEF OnBus
  <2>2. \A b \in 1..Len(buses) : b \in 1..Len(buses')
    BY <1>3, <1>5
  <2> QED
    BY <1>1, <2>1, <2>2 DEF DeliveredInv, Listens, Got, BusTypeOK
<1>8. instance' \in 0..Len(buses') /\ instance' # 0 /\ Len(buses) + 1 \in 1..Len(buses')
  BY <1>1, <1>3, <1>5
<1>9. call # NotEmitting =>
           /\ call.event = emitters[c].event /\ emitters[c].stage # "publishing"
           /\ call.next = 1 /\ call.bus \in 1..Len(buses')
           /\ \A k \in call.due :
                /\ clients[k] # Away
                /\ \/ \E i \in 1..Len(buses'[call.bus].handlers) : buses'[call.bus].handlers[i] = k
                   \/ clients[k].during
  <2>1. LockHeld
    BY <1>1 DEF LockHeld
  <2>2. ASSUME NEW k \in Subscribers PROVE clients[k] # Away /\ clients[k].during
    <3>1. PICK b \in 1..Len(buses) : \E i \in 1..Len(buses[b].handlers) : buses[b].handlers[i] = k
      BY <1>1, SubscriberIs
    <3>2. PICK i \in 1..Len(buses[b].handlers) : buses[b].handlers[i] = k
      BY <3>1
    <3> QED
      BY <1>1, <2>1, <3>2 DEF StrandedInv, HandlerInv
  <2> QED
    BY <1>1, <1>4, <1>8, <2>2
<1>10. Len(buses) <= Len(buses') /\ \A b \in 1..Len(buses) : buses'[b].handlers = buses[b].handlers
  BY <1>3, <1>5
<1>11. call.stage # "waiting" /\ call.stage # "connecting"
  BY <1>4
<1>12. StrandedInv'
  <2>1. LockHeld
    BY <1>1 DEF LockHeld
  <2>2. ASSUME NEW b \in 1..Len(buses'), NEW i \in 1..Len(buses'[b].handlers)
        PROVE  clients'[buses'[b].handlers[i]].during
    <3>1. b \in 1..Len(buses) /\ buses'[b] = buses[b]
      <4>1. CASE buses'[b].handlers = <<>>
        BY <2>2, <4>1
      <4> QED
        BY <1>5, <1>6, <4>1
    <3> QED
      BY <1>1, <2>1, <2>2, <3>1 DEF StrandedInv
  <2> QED
    BY <1>8, <2>2 DEF StrandedInv
<1> HIDE DEF bus
<1> QED
  BY <1>1, <1>2, <1>4, <1>5, <1>6, <1>7, <1>8, <1>9, <1>10, <1>11, <1>12, EmitterMoves

LEMMA ProceedKeeps ==
  ASSUME BusInv, NEW c \in Calls, Proceed(c)
  PROVE  BusInv'
<1> DEFINE call == IF buses[instance].broker = "kafka" THEN NotEmitting
                   ELSE Published(instance, emitters[c].event)
<1>1. /\ BusTypeOK /\ HandlerInv /\ DeliveredInv /\ LockInv /\ StrandedInv
      /\ emitters[c].stage = "waiting" /\ ~ LockHeld
      /\ emitters' = [emitters EXCEPT ![c] = call]
      /\ UNCHANGED <<instance, buses, emitted, delivered, clients, received>>
  BY DEF BusInv, Proceed
<1>2. emitters[c] # NotEmitting /\ emitters[c].event \in Event
  BY <1>1, EmitterIs
<1>3. instance \in 1..Len(buses) /\ buses[instance] \in Bus /\ instance \in Nat
  BY <1>1 DEF LockInv, BusTypeOK
<1>4. Subscribers \subseteq Clients
  BY <1>1, SubscribersAre
<1>5. /\ call \in Emitter /\ call.stage \in {"idle", "publishing"}
      /\ call # NotEmitting =>
           /\ call.event = emitters[c].event /\ call.next = 1 /\ call.bus = instance
           /\ call.due = Subscribers
  BY <1>2, <1>3, <1>4 DEF Emitter, NotEmitting, Published
<1> HIDE DEF call
<1>6. \A k \in Subscribers :
        /\ clients[k] # Away
        /\ \/ \E i \in 1..Len(buses[instance].handlers) : buses[instance].handlers[i] = k
           \/ clients[k].during
  BY <1>1, SubscribersAre DEF OnBus
<1>7. DeliveredInv' /\ delivered' \subseteq [number : Nat, bus : Nat, due : SUBSET Clients]
  BY <1>1 DEF DeliveredInv, Listens, Got, OnBus, BusTypeOK
<1>8. buses' \in Seq(Bus) /\ Len(buses) <= Len(buses')
  BY <1>1 DEF BusTypeOK
<1>9. instance' \in 0..Len(buses') /\ instance' # 0
  BY <1>1, <1>3
<1>10. call # NotEmitting =>
           /\ call.event = emitters[c].event /\ emitters[c].stage # "publishing"
           /\ call.next = 1 /\ call.bus \in 1..Len(buses')
           /\ \A k \in call.due :
                /\ clients[k] # Away
                /\ \/ \E i \in 1..Len(buses'[call.bus].handlers) : buses'[call.bus].handlers[i] = k
                   \/ clients[k].during
  BY <1>1, <1>3, <1>5, <1>6
<1>11. /\ call.stage # "waiting" /\ call.stage # "connecting"
       /\ \A b \in 1..Len(buses) : buses'[b].handlers = buses[b].handlers
       /\ \A b \in 1..Len(buses') : b \in 1..Len(buses) \/ buses'[b].handlers = <<>>
  BY <1>1, <1>5
<1>12. StrandedInv'
  <2>1. LockHeld' => LockHeld
    BY <1>1, <1>5 DEF LockHeld, BusTypeOK
  <2> QED
    BY <1>1, <2>1, StrandedStays
<1> QED
  BY <1>1, <1>2, <1>5, <1>7, <1>8, <1>9, <1>10, <1>11, <1>12, EmitterMoves

LEMMA EndPublishKeeps ==
  ASSUME BusInv, NEW c \in Calls, EndPublish(c)
  PROVE  BusInv'
<1> DEFINE call == emitters[c]
           d == [number |-> call.event.number, bus |-> call.bus, due |-> call.due]
<1>1. /\ BusTypeOK /\ HandlerInv /\ ReachedInv /\ DeliveredInv /\ StrandedInv
      /\ call.stage = "publishing" /\ call.next > Len(buses[call.bus].handlers)
      /\ delivered' = delivered \cup {d} /\ emitters' = [emitters EXCEPT ![c] = NotEmitting]
      /\ UNCHANGED <<instance, buses, emitted, clients, received>>
  BY DEF BusInv, EndPublish
<1>2. /\ call # NotEmitting /\ call.next \in Nat /\ call.due \subseteq Clients
      /\ call.event \in Event /\ call.bus \in 1..Len(buses) /\ buses[call.bus] \in Bus
  BY <1>1, EmitterIs
<1>3. ASSUME NEW k \in call.due
      PROVE  /\ clients[k] # Away
             /\ Listens(k) => \/ Got(k, call.event.number)
                              \/ clients[k].during /\ ~ OnBus(call.bus, k)
  <2>1. clients[k] # Away /\ (OnBus(call.bus, k) \/ clients[k].during)
    BY <1>1 DEF ReachedInv
  <2>2. ASSUME NEW i \in 1..Len(buses[call.bus].handlers), buses[call.bus].handlers[i] = k
        PROVE  Listens(k) => Got(k, call.event.number)
    <3>1. Len(buses[call.bus].handlers) \in Nat
      BY <1>2 DEF Bus
    <3>2. i < call.next
      BY <1>1, <1>2, <2>2, <3>1
    <3>3. Passed(c, k) /\ k \in Clients
      BY <1>1, <1>2, <2>2, <3>2 DEF Passed
    <3> QED
      BY <1>1, <3>3 DEF ReachedInv
  <2> QED
    BY <2>1, <2>2 DEF OnBus
<1>4. DeliveredInv'
  <2>1. d.bus \in 1..Len(buses) /\ d.number = call.event.number /\ d.bus = call.bus /\ d.due = call.due
    BY <1>2
  <2> HIDE DEF call, d
  <2>2. \A e \in delivered' : e = d \/ e \in delivered
    BY <1>1
  <2> QED
    BY <1>1, <1>3, <2>1, <2>2 DEF DeliveredInv, Listens, Got, OnBus
<1>5. delivered' \subseteq [number : Nat, bus : Nat, due : SUBSET Clients]
  BY <1>1, <1>2 DEF BusTypeOK, Event
<1>6. NotEmitting \in Emitter /\ NotEmitting.stage = "idle"
  BY DEF Emitter, NotEmitting
<1>7. buses' \in Seq(Bus) /\ Len(buses) <= Len(buses') /\ instance' \in 0..Len(buses')
  BY <1>1 DEF BusTypeOK
<1>8. StrandedInv'
  <2>1. LockHeld' => LockHeld
    BY <1>1, <1>6 DEF LockHeld, BusTypeOK
  <2> QED
    BY <1>1, <2>1, StrandedStays
<1> HIDE DEF call, d
<1> QED
  BY <1>1, <1>2, <1>4, <1>5, <1>6, <1>7, <1>8, EmitterMoves DEF call

LEMMA DeliverKeeps ==
  ASSUME BusInv, NEW c \in Calls, Deliver(c)
  PROVE  BusInv'
<1> DEFINE call == emitters[c]
           handlers == buses[call.bus].handlers
<1>1. /\ BusTypeOK /\ HandlerInv /\ NumberInv /\ ReceivedInv /\ ReachedInv /\ DeliveredInv
      /\ LockInv /\ StrandedInv /\ call.stage = "publishing" /\ call.next <= Len(handlers)
      /\ received' = IF Accepts(handlers[call.next], call.event)
                     THEN [received EXCEPT ![handlers[call.next]] = Append(@, call.event.number)]
                     ELSE received
      /\ emitters' = [emitters EXCEPT ![c].next = @ + 1]
      /\ UNCHANGED <<instance, buses, emitted, delivered, clients>>
  BY DEF BusInv, Deliver
<1>2. /\ call # NotEmitting /\ call.next \in Nat \ {0} /\ call.due \subseteq Clients
      /\ call.event \in Event /\ call.bus \in 1..Len(buses) /\ buses[call.bus] \in Bus
      /\ call \in Emitter
  BY <1>1, EmitterIs
<1>3. handlers \in Seq(Clients) /\ Len(handlers) \in Nat
  BY <1>2 DEF Bus
<1>24. call.next \in 1..Len(handlers)
  <2>1. call.next \in Nat \ {0} /\ call.next <= Len(handlers)
    BY <1>1, <1>2
  <2> HIDE DEF call, handlers
  <2> QED
    BY <1>3, <2>1
<1>4. PICK k \in Clients, n \in Nat : k = handlers[call.next] /\ n = call.event.number
  <2>2. handlers[call.next] \in Clients
    BY <1>3, <1>24
  <2>3. call.event.number \in Nat
    BY <1>2 DEF Event
  <2> QED
    BY <2>2, <2>3
<1>5. PICK later \in Emitter : /\ emitters'[c] = later /\ later.stage = "publishing"
                               /\ later.bus = call.bus /\ later.event = call.event
                               /\ later.next = call.next + 1 /\ later.due = call.due
                               /\ later # NotEmitting
                               /\ emitters' = [emitters EXCEPT ![c] = later]
  <2> DEFINE later == [call EXCEPT !.next = @ + 1]
  <2>1. call \in [stage : {"publishing"}, bus : Nat, event : Event, next : Nat \ {0},
                  due : SUBSET Clients]
    BY <1>1, <1>2 DEF Emitter, NotEmitting
  <2>2. emitters' = [emitters EXCEPT ![c] = later] /\ emitters'[c] = later
    BY <1>1 DEF BusTypeOK
  <2> HIDE DEF call
  <2>3. /\ later \in [stage : {"publishing"}, bus : Nat, event : Event, next : Nat \ {0},
                      due : SUBSET Clients]
        /\ later.stage = "publishing" /\ later.bus = call.bus /\ later.event = call.event
        /\ later.next = call.next + 1 /\ later.due = call.due
    BY <2>1
  <2>4. later \in Emitter /\ later # NotEmitting
    BY <2>3 DEF Emitter, NotEmitting
  <2> QED
    BY <2>2, <2>3, <2>4
<1> HIDE DEF call, handlers
<1>6. \A d \in Calls \ {c} : emitters'[d] = emitters[d]
  BY <1>5
<1>7. \A d \in Calls \ {c} : \A j \in Clients : Passed(d, j)' <=> Passed(d, j)
  BY <1>1, <1>6 DEF Passed
<1>8. \A j \in Clients : Passed(c, j)' <=> Passed(c, j) \/ j = k
  <2> SUFFICES ASSUME NEW j \in Clients PROVE Passed(c, j)' <=> Passed(c, j) \/ j = k
    OBVIOUS
  <2>1. Passed(c, j)' <=> \E i \in 1..Len(handlers) : i < call.next + 1 /\ handlers[i] = j
    BY <1>1, <1>5 DEF Passed, handlers
  <2>2. Passed(c, j) <=> \E i \in 1..Len(handlers) : i < call.next /\ handlers[i] = j
    BY <1>1 DEF Passed, handlers, call
  <2>3. \A i \in 1..Len(handlers) : i < call.next + 1 <=> i < call.next \/ i = call.next
    BY <1>3, <1>24
  <2>4. k = handlers[call.next]
    BY <1>4
  <2> QED
    BY <1>24, <2>1, <2>2, <2>3, <2>4
<1>9. ~ Passed(c, k)
  <2>1. ASSUME NEW i \in 1..Len(handlers), i < call.next, handlers[i] = k PROVE FALSE
    <3>1. \A l, m \in 1..Len(handlers) : handlers[l] = handlers[m] => l = m
      BY SMTT(30), <1>1, <1>2 DEF HandlerInv, handlers
    <3>2. i = call.next
      BY <1>4, <1>24, <2>1, <3>1
    <3> QED
      BY <1>24, <2>1, <3>2
  <2> QED
    BY <2>1 DEF Passed, handlers, call
<1>10. clients[k] # Away
  BY <1>1, <1>2, <1>4, <1>24 DEF HandlerInv, handlers
<1>11. received \in [Clients -> Seq(Nat)]
  BY <1>1 DEF BusTypeOK
<1>12. /\ received' \in [Clients -> Seq(Nat)]
       /\ \A j \in Clients : j # k \/ ~ Accepts(k, call.event) => received'[j] = received[j]
       /\ Accepts(k, call.event) => received'[k] = Append(received[k], n)
  <2>1. Append(received[k], n) \in Seq(Nat)
    BY <1>4, <1>11
  <2> QED
    BY <1>1, <1>4, <1>11, <2>1
<1>13. \A d \in Calls : emitters[d] # NotEmitting <=> emitters'[d] # NotEmitting
  BY <1>2, <1>5, <1>6 DEF call
<1>14. \A d \in Calls : emitters'[d].event = emitters[d].event \/ emitters[d] = NotEmitting
  BY <1>5, <1>6 DEF call
<1>15. BusTypeOK'
  <2>1. emitters' \in [Calls -> Emitter]
    BY <1>1, <1>5 DEF BusTypeOK
  <2>2. \A d \in Calls : emitters'[d].stage = "publishing" =>
          /\ emitters'[d].bus \in 1..Len(buses')
          /\ emitters'[d].next <= Len(buses'[emitters'[d].bus].handlers) + 1
    <3>1. later.bus \in 1..Len(buses) /\ later.next <= Len(buses[later.bus].handlers) + 1
      BY <1>2, <1>3, <1>5, <1>24 DEF handlers
    <3> QED
      BY <1>1, <1>5, <1>6, <3>1 DEF BusTypeOK
  <2> QED
    BY <1>1, <1>12, <2>1, <2>2 DEF BusTypeOK
<1>16. HandlerInv'
  BY <1>1 DEF HandlerInv
<1>17. NumberInv'
  BY <1>1, <1>13, <1>14 DEF NumberInv
<1>18. ReceivedInv'
  <2> SUFFICES ASSUME NEW j \in Clients
               PROVE  /\ \A i \in 1..Len(received'[j]) : received'[j][i] \in 1..emitted
                      /\ \A i, l \in 1..Len(received'[j]) : received'[j][i] = received'[j][l] => i = l
                      /\ \A d \in Calls : \A i \in 1..Len(received'[j]) :
                           emitters'[d] # NotEmitting /\ received'[j][i] = emitters'[d].event.number
                             => Passed(d, j)'
    BY <1>1 DEF ReceivedInv
  <2>1. /\ \A i \in 1..Len(received[j]) : received[j][i] \in 1..emitted
        /\ \A i, l \in 1..Len(received[j]) : received[j][i] = received[j][l] => i = l
        /\ \A d \in Calls : \A i \in 1..Len(received[j]) :
             emitters'[d] # NotEmitting /\ received[j][i] = emitters'[d].event.number
               => Passed(d, j)'
    BY <1>1, <1>7, <1>8, <1>13, <1>14 DEF ReceivedInv
  <2>2. CASE received'[j] = received[j]
    BY <2>1, <2>2
  <2>3. CASE j = k /\ received'[k] = Append(received[k], n)
    <3>1. received[k] \in Seq(Nat) /\ Len(received[k]) \in Nat
      BY <1>4, <1>11
    <3>2. /\ Len(received'[k]) = Len(received[k]) + 1
          /\ received'[k][Len(received[k]) + 1] = n
          /\ \A i \in 1..Len(received[k]) : received'[k][i] = received[k][i]
      BY <1>4, <2>3, <3>1
    <3>3. \A i \in 1..Len(received'[k]) : i \in 1..Len(received[k]) \/ i = Len(received[k]) + 1
      BY <3>1, <3>2
    <3>4. n \in 1..emitted
      BY <1>1, <1>2, <1>4 DEF NumberInv, call
    <3>5. \A i \in 1..Len(received[k]) : received[k][i] # n
      BY <1>1, <1>2, <1>4, <1>9 DEF ReceivedInv, call
    <3>6. \A d \in Calls : emitters'[d] # NotEmitting /\ n = emitters'[d].event.number => d = c
      BY <1>1, <1>2, <1>4, <1>13, <1>14 DEF NumberInv, call
    <3>7. Passed(c, k)'
      BY <1>4, <1>8
    <3>8. /\ \A i \in 1..Len(received'[k]) : received'[k][i] \in 1..emitted
          /\ \A d \in Calls : \A i \in 1..Len(received'[k]) :
               emitters'[d] # NotEmitting /\ received'[k][i] = emitters'[d].event.number
                 => Passed(d, k)'
      BY <2>1, <2>3, <3>2, <3>3, <3>4, <3>6, <3>7
    <3>9. \A i, l \in 1..Len(received'[k]) : received'[k][i] = received'[k][l] => i = l
      BY <2>1, <2>3, <3>2, <3>3, <3>5
    <3> QED
      BY <2>3, <3>8, <3>9
  <2> QED
    BY <1>12, <2>2, <2>3
<1>19. \A m : \A j \in Clients : Got(j, m) => Got(j, m)'
  <2> SUFFICES ASSUME NEW j \in Clients, NEW m, NEW i \in 1..Len(received[j]), received[j][i] = m
               PROVE  Got(j, m)'
    BY DEF Got
  <2>1. received[j] \in Seq(Nat)
    BY <1>11
  <2>2. i \in 1..Len(received'[j]) /\ received'[j][i] = m
    <3>1. CASE received'[j] = received[j]
      BY <3>1
    <3>2. CASE received'[j] = Append(received[j], n)
      BY <1>4, <2>1, <3>2
    <3> QED
      BY <1>12, <3>1, <3>2
  <2> QED
    BY <2>2 DEF Got
<1>20. Listens(k) => Got(k, n)'
  <2> SUFFICES ASSUME Listens(k) PROVE Got(k, n)'
    OBVIOUS
  <2>1. clients[k].stage # "away"
    BY <1>1, <1>4, <1>10 DEF BusTypeOK, Route, Away
  <2>2. Accepts(k, call.event)
    BY <2>1 DEF Accepts, Listens
  <2>3. received[k] \in Seq(Nat)
    BY <1>4, <1>11
  <2>4. Len(received[k]) + 1 \in 1..Len(received'[k]) /\ received'[k][Len(received[k]) + 1] = n
    BY <1>4, <1>12, <2>2, <2>3
  <2> QED
    BY <2>4 DEF Got
<1>21. ReachedInv'
  <2>1. ASSUME NEW d \in Calls, NEW j \in Clients, Passed(d, j)', Listens(j)'
        PROVE  Got(j, emitters[d].event.number)'
    <3>1. Listens(j)
      BY <1>1, <2>1 DEF Listens
    <3>2. CASE d = c /\ j = k
      <4>1. emitters'[d].event.number = n
        BY <1>4, <1>5, <3>2
      <4> QED
        BY <1>20, <3>1, <3>2, <4>1 DEF Got
    <3>3. CASE d # c \/ j # k
      <4>1. Passed(d, j)
        BY <1>7, <1>8, <2>1, <3>3
      <4>2. Got(j, emitters[d].event.number)
        BY <1>1, <3>1, <4>1 DEF ReachedInv
      <4>3. emitters[d] # NotEmitting /\ emitters'[d].event = emitters[d].event
        BY <1>14, <4>1 DEF Passed, NotEmitting
      <4>4. PICK m : m = emitters[d].event.number
        OBVIOUS
      <4>5. Got(j, m)'
        BY <1>19, <4>2, <4>4
      <4>6. emitters'[d].event.number = m
        BY <4>3, <4>4
      <4> QED
        BY <4>5, <4>6 DEF Got
    <3> QED
      BY <3>2, <3>3
  <2>2. ASSUME NEW d \in Calls, emitters'[d].stage = "publishing", NEW j \in emitters'[d].due
        PROVE  clients'[j] # Away /\ (OnBus(emitters[d].bus, j)' \/ clients'[j].during)
    BY <1>1, <1>5, <1>6, <2>2 DEF ReachedInv, OnBus, call
  <2> QED
    BY <2>1, <2>2 DEF ReachedInv
<1>22. DeliveredInv'
  <2>1. \A d \in delivered : d.due \subseteq Clients
    BY <1>1 DEF BusTypeOK
  <2> QED
    BY <1>1, <1>19, <2>1 DEF DeliveredInv, Listens, OnBus
<1>23. LockInv' /\ StrandedInv'
  <2>1. \A d \in Calls : /\ (emitters'[d].stage = "waiting" <=> emitters[d].stage = "waiting")
                          /\ (emitters'[d].stage = "connecting" <=> emitters[d].stage = "connecting")
    BY <1>1, <1>5, <1>6 DEF call
  <2>2. LockHeld' <=> LockHeld
    BY <2>1 DEF LockHeld
  <2> QED
    BY <1>1, <2>1, <2>2, StrandedStays DEF LockInv
<1> QED
  BY <1>15, <1>16, <1>17, <1>18, <1>21, <1>22, <1>23 DEF BusInv

LEMMA JoinKeeps ==
  ASSUME BusInv, NEW k \in Clients, NEW route \in {"events", "command"}, Join(k, route)
  PROVE  BusInv'
<1> DEFINE known == IF instance = 0
                    THEN Append(buses, [broker |-> "memory", handlers |-> <<>>]) ELSE buses
           at == IF instance = 0 THEN Len(buses) + 1 ELSE instance
           kafka == known[at].broker = "kafka"
<1>1. /\ BusTypeOK /\ HandlerInv /\ NumberInv /\ ReceivedInv /\ ReachedInv /\ DeliveredInv
      /\ LockInv /\ StrandedInv /\ clients[k] = Away /\ instance' = at
      /\ buses' = IF kafka THEN known ELSE [known EXCEPT ![at].handlers = Append(@, k)]
      /\ clients' = [clients EXCEPT ![k] =
           [stage |-> IF kafka THEN "subscribing" ELSE "open", route |-> route,
            tenant |-> None, topic |-> 1, during |-> LockHeld]]
      /\ UNCHANGED <<emitters, received, emitted, delivered>>
  BY DEF BusInv, Join
<1>2. buses \in Seq(Bus) /\ Len(buses) \in Nat /\ instance \in 0..Len(buses)
  BY <1>1 DEF BusTypeOK
<1>3. /\ known \in Seq(Bus) /\ at \in 1..Len(known) /\ Len(buses) <= Len(known)
      /\ \A b \in 1..Len(buses) : known[b] = buses[b]
      /\ \A b \in 1..Len(known) : b \in 1..Len(buses) \/ known[b].handlers = <<>>
      /\ Len(known) \in Nat
  <2>1. CASE instance = 0
    <3>1. [broker |-> "memory", handlers |-> <<>>] \in Bus
      BY DEF Bus
    <3>2. known = Append(buses, [broker |-> "memory", handlers |-> <<>>]) /\ at = Len(buses) + 1
      BY <2>1
    <3> HIDE DEF known, at
    <3>3. known \in Seq(Bus) /\ Len(known) = Len(buses) + 1
      BY <1>2, <3>1, <3>2
    <3>4. \A b \in 1..Len(buses) : known[b] = buses[b]
      BY <1>2, <3>1, <3>2
    <3>5. known[Len(buses) + 1].handlers = <<>>
      BY <1>2, <3>1, <3>2
    <3>6. \A b \in 1..Len(known) : b \in 1..Len(buses) \/ b = Len(buses) + 1
      BY <1>2, <3>3
    <3> QED
      BY <1>2, <3>2, <3>3, <3>4, <3>5, <3>6
  <2>2. CASE instance # 0
    BY <1>2, <2>2
  <2> QED
    BY <2>1, <2>2
<1> HIDE DEF known, at
<1>4. /\ known[at] \in Bus /\ known[at].handlers \in Seq(Clients)
      /\ Append(known[at].handlers, k) \in Seq(Clients)
  <2>1. known[at] \in Bus /\ known[at].handlers \in Seq(Clients)
    BY <1>3, BusIs
  <2> QED
    BY <2>1
<1>5. /\ buses' \in Seq(Bus) /\ Len(buses') = Len(known)
      /\ \A b \in 1..Len(known) : b # at => buses'[b] = known[b]
      /\ buses'[at].handlers = known[at].handlers \/ buses'[at].handlers = Append(known[at].handlers, k)
  <2>1. CASE kafka
    BY <1>1, <1>3, <2>1
  <2>2. CASE ~ kafka
    <3> DEFINE bus == [known[at] EXCEPT !.handlers = Append(@, k)]
    <3>1. bus \in Bus /\ bus.handlers = Append(known[at].handlers, k)
      BY <1>4 DEF Bus
    <3>2. buses' = [known EXCEPT ![at] = bus]
      BY <1>1, <2>2
    <3> HIDE DEF bus
    <3> QED
      BY <1>3, <3>1, <3>2
  <2> QED
    BY <2>1, <2>2
\* The places of the handlers that were there, and the new one.
<1>6. \A b \in 1..Len(buses) :
        /\ b \in 1..Len(buses') /\ buses[b].handlers \in Seq(Clients)
        /\ \A i \in 1..Len(buses[b].handlers) :
             i \in 1..Len(buses'[b].handlers) /\ buses'[b].handlers[i] = buses[b].handlers[i]
  <2> SUFFICES ASSUME NEW b \in 1..Len(buses)
               PROVE  /\ b \in 1..Len(buses') /\ buses[b].handlers \in Seq(Clients)
                      /\ \A i \in 1..Len(buses[b].handlers) :
                           i \in 1..Len(buses'[b].handlers)
                             /\ buses'[b].handlers[i] = buses[b].handlers[i]
    OBVIOUS
  <2>1. b \in 1..Len(buses') /\ buses[b].handlers \in Seq(Clients) /\ known[b] = buses[b]
    BY <1>2, <1>3, <1>5, BusIs
  <2>2. buses'[b].handlers = buses[b].handlers \/ buses'[b].handlers = Append(buses[b].handlers, k)
    BY <1>3, <1>5, <2>1
  <2> QED
    BY <2>1, <2>2
<1>7. ASSUME NEW b \in 1..Len(buses'), NEW i \in 1..Len(buses'[b].handlers)
      PROVE  \/ b \in 1..Len(buses) /\ i \in 1..Len(buses[b].handlers)
                  /\ buses'[b].handlers[i] = buses[b].handlers[i]
             \/ b = at /\ i = Len(known[at].handlers) + 1 /\ buses'[b].handlers[i] = k
  <2>1. b \in 1..Len(known) /\ known[b].handlers \in Seq(Clients) /\ Len(known[b].handlers) \in Nat
    BY <1>3, <1>5, <1>7, BusIs
  <2>2. CASE buses'[b].handlers = known[b].handlers
    <3>1. known[b].handlers # <<>>
      BY <1>7, <2>2
    <3> QED
      BY <1>3, <1>7, <2>1, <2>2, <3>1
  <2>3. CASE b = at /\ buses'[b].handlers = Append(known[b].handlers, k)
    <3>1. i \in 1..Len(known[b].handlers) \/ i = Len(known[b].handlers) + 1
      BY <1>7, <2>1, <2>3
    <3>2. CASE i = Len(known[b].handlers) + 1
      BY <2>1, <2>3, <3>2
    <3>3. CASE i \in 1..Len(known[b].handlers)
      <4>1. buses'[b].handlers[i] = known[b].handlers[i] /\ known[b].handlers # <<>>
        BY <2>1, <2>3, <3>3
      <4> QED
        BY <1>3, <2>1, <3>3, <4>1
    <3> QED
      BY <3>1, <3>2, <3>3
  <2> QED
    BY <1>5, <2>1, <2>2, <2>3
<1>8. \A j \in Clients \ {k} : clients'[j] = clients[j]
  BY <1>1
<1>9. clients'[k] # Away /\ clients'[k].during = LockHeld /\ clients' \in [Clients -> Route]
  <2> DEFINE new == [stage |-> IF kafka THEN "subscribing" ELSE "open", route |-> route,
                     tenant |-> None, topic |-> 1, during |-> LockHeld]
  <2>3. LockHeld \in BOOLEAN
    BY DEF LockHeld
  <2>1. new \in Route /\ new # Away /\ new.during = LockHeld
    BY <2>3 DEF Route, Away
  <2>2. clients' = [clients EXCEPT ![k] = new] /\ clients \in [Clients -> Route]
    BY <1>1 DEF BusTypeOK
  <2> HIDE DEF new
  <2> QED
    BY <2>1, <2>2
<1>10. BusTypeOK'
  <2>1. instance' \in 0..Len(buses')
    BY <1>1, <1>3, <1>5
  <2>2. ASSUME NEW c \in Calls, emitters[c].stage = "publishing"
        PROVE  /\ emitters[c].bus \in 1..Len(buses')
               /\ emitters[c].next <= Len(buses'[emitters[c].bus].handlers) + 1
    <3> DEFINE b == emitters[c].bus
    <3>1. b \in 1..Len(buses) /\ emitters[c].next <= Len(buses[b].handlers) + 1
            /\ emitters[c].next \in Nat
      BY <1>1, <2>2, EmitterIs
    <3>2. b \in 1..Len(buses') /\ buses[b].handlers \in Seq(Clients) /\ known[b] = buses[b]
      BY <1>3, <1>6, <3>1
    <3>3. buses'[b].handlers = buses[b].handlers \/ buses'[b].handlers = Append(buses[b].handlers, k)
      BY <1>3, <1>5, <3>2
    <3>4. Len(buses[b].handlers) \in Nat /\ Len(buses'[b].handlers) >= Len(buses[b].handlers)
            /\ Len(buses'[b].handlers) \in Nat
      <4>1. PICK s \in Seq(Clients) : s = buses[b].handlers
        BY <3>2
      <4>2. Len(s) \in Nat /\ Len(Append(s, k)) = Len(s) + 1
        OBVIOUS
      <4>3. PICK r : r = buses'[b].handlers
        OBVIOUS
      <4>4. r = s \/ r = Append(s, k)
        BY <3>3, <4>1, <4>3
      <4>5. Len(s) \in Nat /\ Len(r) >= Len(s) /\ Len(r) \in Nat
        BY <4>2, <4>4
      <4> QED
        BY <4>1, <4>3, <4>5
    <3> HIDE DEF b
    <3>5. emitters[c].next <= Len(buses'[b].handlers) + 1
      BY <3>1, <3>4
    <3> QED
      BY <3>2, <3>5 DEF b
  <2> QED
    BY <1>1, <1>5, <1>9, <2>1, <2>2 DEF BusTypeOK
\* Nobody knew the client.
<1>11. \A b \in 1..Len(buses) : \A i \in 1..Len(buses[b].handlers) : buses[b].handlers[i] # k
  BY <1>1 DEF HandlerInv
<1>12. HandlerInv'
  <2>1. ASSUME NEW b \in 1..Len(buses'), NEW i \in 1..Len(buses'[b].handlers)
        PROVE  clients'[buses'[b].handlers[i]] # Away
    <3>1. CASE buses'[b].handlers[i] = k
      BY <1>9, <3>1
    <3>2. CASE b \in 1..Len(buses) /\ i \in 1..Len(buses[b].handlers)
                 /\ buses'[b].handlers[i] = buses[b].handlers[i]
      <4>1. buses[b].handlers[i] \in Clients \ {k}
        BY <1>6, <1>11, <3>2
      <4> QED
        BY SMTT(30), <1>1, <1>8, <3>2, <4>1 DEF HandlerInv
    <3> QED
      BY <1>7, <3>1, <3>2
  <2>2. ASSUME NEW a \in 1..Len(buses'), NEW b \in 1..Len(buses'),
               NEW i \in 1..Len(buses'[a].handlers), NEW j \in 1..Len(buses'[b].handlers),
               buses'[a].handlers[i] = buses'[b].handlers[j]
        PROVE  a = b /\ i = j
    <3>1. /\ \/ a \in 1..Len(buses) /\ i \in 1..Len(buses[a].handlers)
                  /\ buses'[a].handlers[i] = buses[a].handlers[i]
             \/ a = at /\ i = Len(known[at].handlers) + 1 /\ buses'[a].handlers[i] = k
          /\ \/ b \in 1..Len(buses) /\ j \in 1..Len(buses[b].handlers)
                  /\ buses'[b].handlers[j] = buses[b].handlers[j]
             \/ b = at /\ j = Len(known[at].handlers) + 1 /\ buses'[b].handlers[j] = k
      BY <1>7
    <3>2. CASE buses'[a].handlers[i] = k
      BY <1>11, <2>2, <3>1, <3>2
    <3>3. CASE buses'[a].handlers[i] # k
      <4>1. /\ a \in 1..Len(buses) /\ i \in 1..Len(buses[a].handlers)
            /\ b \in 1..Len(buses) /\ j \in 1..Len(buses[b].handlers)
            /\ buses[a].handlers[i] = buses[b].handlers[j]
        BY <2>2, <3>1, <3>3
      <4> QED
        BY <1>1, <4>1 DEF HandlerInv
    <3> QED
      BY <3>2, <3>3
  <2> QED
    BY <2>1, <2>2 DEF HandlerInv
<1>13. ASSUME NEW c \in Calls, emitters[c].stage = "publishing"
       PROVE  /\ emitters[c].bus \in 1..Len(buses) /\ emitters[c].next \in Nat
              /\ emitters[c].due \subseteq Clients
  BY <1>1, <1>13, EmitterIs
<1>14. ASSUME NEW c \in Calls, NEW j \in Clients, Passed(c, j) PROVE Passed(c, j)'
  BY <1>1, <1>6, <1>13, <1>14 DEF Passed
<1>15. NumberInv' /\ ReceivedInv'
  BY <1>1, <1>14 DEF NumberInv, ReceivedInv
<1>16. ASSUME NEW c \in Calls, NEW j \in Clients, Passed(c, j)' PROVE Passed(c, j) /\ j # k
  <2>1. PICK i \in 1..Len(buses'[emitters[c].bus].handlers) :
          i < emitters[c].next /\ buses'[emitters[c].bus].handlers[i] = j
    BY <1>1, <1>16 DEF Passed
  <2>2. emitters[c].stage = "publishing"
    BY <1>1, <1>16 DEF Passed
  <2>3. /\ emitters[c].bus \in 1..Len(buses) /\ emitters[c].next \in Nat
        /\ emitters[c].next <= Len(buses[emitters[c].bus].handlers) + 1
    BY <1>1, <2>2, EmitterIs
  <2>4. Len(buses[emitters[c].bus].handlers) \in Nat
    BY <1>6, <2>3
  <2>5. i \in 1..Len(buses[emitters[c].bus].handlers)
    BY <2>1, <2>3, <2>4
  <2>6. buses[emitters[c].bus].handlers[i] = j
    BY <1>6, <2>1, <2>3, <2>5
  <2> QED
    BY <1>11, <2>1, <2>2, <2>3, <2>5, <2>6 DEF Passed
<1>17. ReachedInv'
  <2>1. ASSUME NEW c \in Calls, NEW j \in Clients, Passed(c, j)', Listens(j)'
        PROVE  Got(j, emitters[c].event.number)'
    <3>1. Passed(c, j) /\ Listens(j)
      BY <1>8, <1>16, <2>1 DEF Listens
    <3> QED
      BY <1>1, <3>1 DEF ReachedInv, Got
  <2>2. ASSUME NEW c \in Calls, emitters[c].stage = "publishing", NEW j \in emitters[c].due
        PROVE  clients'[j] # Away /\ (OnBus(emitters[c].bus, j)' \/ clients'[j].during)
    <3>1. clients[j] # Away /\ (OnBus(emitters[c].bus, j) \/ clients[j].during)
      BY <1>1, <2>2 DEF ReachedInv
    <3>2. emitters[c].bus \in 1..Len(buses) /\ j \in Clients \ {k}
      BY <1>1, <1>13, <2>2, <3>1
    <3>3. clients'[j] = clients[j]
      BY <1>8, <3>2
    <3>4. OnBus(emitters[c].bus, j) => OnBus(emitters[c].bus, j)'
      BY <1>1, <1>6, <3>2 DEF OnBus
    <3> QED
      BY <3>1, <3>3, <3>4
  <2> QED
    BY <1>1, <2>1, <2>2 DEF ReachedInv
<1>18. DeliveredInv'
  <2>1. \A d \in delivered : d.due \subseteq Clients
    BY <1>1 DEF BusTypeOK
  <2>2. \A d \in delivered : \A j \in d.due : j # k
    BY <1>1 DEF DeliveredInv
  <2>3. ASSUME NEW b \in 1..Len(buses), NEW j, j # k, OnBus(b, j)' PROVE OnBus(b, j)
    <3>1. PICK i \in 1..Len(buses'[b].handlers) : buses'[b].handlers[i] = j
      BY <2>3 DEF OnBus
    <3>2. b \in 1..Len(buses')
      BY <1>6
    <3> QED
      BY <1>7, <2>3, <3>1, <3>2 DEF OnBus
  <2>4. \A b \in 1..Len(buses) : b \in 1..Len(buses')
    BY <1>6
  <2> QED
    BY <1>1, <1>8, <2>1, <2>2, <2>3, <2>4 DEF DeliveredInv, Listens, Got
<1>19. LockInv'
  <2>1. instance' # 0
    BY <1>1, <1>3
  <2> QED
    BY <2>1 DEF LockInv
<1>20. StrandedInv'
  <2>1. instance' # 0 /\ (LockHeld' <=> LockHeld)
    BY <1>1, <1>3 DEF LockHeld
  <2>2. ASSUME NEW b \in 1..Len(buses'), NEW i \in 1..Len(buses'[b].handlers),
               LockHeld \/ b # instance'
        PROVE  clients'[buses'[b].handlers[i]].during
    <3>1. CASE b = at /\ buses'[b].handlers[i] = k
      BY <1>1, <1>9, <2>2, <3>1
    <3>2. CASE b \in 1..Len(buses) /\ i \in 1..Len(buses[b].handlers)
                 /\ buses'[b].handlers[i] = buses[b].handlers[i]
      <4>1. buses[b].handlers[i] \in Clients \ {k}
        BY <1>6, <1>11, <3>2
      <4>2. instance # 0 /\ instance' = instance
        BY <1>1, <3>2 DEF StrandedInv, at
      <4>3. clients[buses[b].handlers[i]].during
        BY <1>1, <2>2, <3>2, <4>2 DEF StrandedInv
      <4> QED
        BY <1>8, <3>2, <4>1, <4>3
    <3> QED
      BY <1>7, <3>1, <3>2
  <2> QED
    BY <2>1, <2>2 DEF StrandedInv
<1> QED
  BY <1>10, <1>12, <1>15, <1>17, <1>18, <1>19, <1>20 DEF BusInv

\* A client that is there goes on, and is never gone and back.
LEMMA ClientKeeps ==
  ASSUME BusInv, NEW k \in Clients, clients[k] # Away, NEW route \in Route,
         clients' = [clients EXCEPT ![k] = route], route # Away,
         route.route = clients[k].route, route.during = clients[k].during,
         clients[k].stage = "gone" => route.stage = "gone",
         UNCHANGED <<instance, buses, emitters, received, emitted, delivered>>
  PROVE  BusInv'
<1>1. /\ BusTypeOK /\ HandlerInv /\ NumberInv /\ ReceivedInv /\ ReachedInv /\ DeliveredInv
      /\ LockInv /\ StrandedInv
  BY DEF BusInv
<1>2. /\ clients'[k] = route /\ \A j \in Clients \ {k} : clients'[j] = clients[j]
      /\ clients' \in [Clients -> Route]
  BY <1>1 DEF BusTypeOK
<1>3. \A j \in Clients :
        /\ (Listens(j)' => Listens(j))
        /\ (clients[j] # Away => clients'[j] # Away)
        /\ clients'[j].during = clients[j].during
  BY <1>2 DEF Listens
<1>4. BusTypeOK'
  BY <1>1, <1>2 DEF BusTypeOK
<1>5. HandlerInv' /\ StrandedInv'
  <2>1. ASSUME NEW b \in 1..Len(buses), NEW i \in 1..Len(buses[b].handlers)
        PROVE  buses[b].handlers[i] \in Clients
    <3>1. buses[b].handlers \in Seq(Clients)
      BY <1>1, BusIs DEF BusTypeOK
    <3> QED
      BY <3>1
  <2> QED
    BY <1>1, <1>3, <2>1 DEF HandlerInv, StrandedInv, LockHeld
<1>6. \A c \in Calls, j \in Clients : Passed(c, j)' <=> Passed(c, j)
  BY DEF Passed
<1>7. NumberInv' /\ ReceivedInv' /\ LockInv'
  BY <1>1, <1>6 DEF NumberInv, ReceivedInv, LockInv, LockHeld
<1>8. ReachedInv'
  <2>1. \A c \in Calls : emitters[c].stage = "publishing" => emitters[c].due \subseteq Clients
    BY <1>1, EmitterIs
  <2> QED
    BY <1>1, <1>3, <1>6, <2>1 DEF ReachedInv, Got, OnBus
<1>9. DeliveredInv'
  <2>1. \A d \in delivered : d.due \subseteq Clients
    BY <1>1 DEF BusTypeOK
  <2> QED
    BY <1>1, <1>3, <2>1 DEF DeliveredInv, Got, OnBus
<1> QED
  BY <1>4, <1>5, <1>7, <1>8, <1>9 DEF BusInv

LEMMA BusStepKeeps == BusInv /\ [BusNext]_busVars => BusInv'
<1> SUFFICES ASSUME BusInv, [BusNext]_busVars PROVE BusInv'
  OBVIOUS
<1>1. clients \in [Clients -> Route]
  BY DEF BusInv, BusTypeOK
<1>2. ASSUME NEW k \in Clients, clients[k].stage = "subscribing" \/ clients[k].stage = "open"
      PROVE  /\ clients[k] # Away
             /\ clients[k] \in [stage : {"subscribing", "open", "gone"}, route : {"events", "command"},
                                tenant : EventTenants \cup {None}, topic : Int,
                      during : BOOLEAN]
  BY <1>1, <1>2 DEF Route, Away
<1>3. ASSUME NEW k \in Clients, NEW started \in BOOLEAN, Subscribed(k, started) PROVE BusInv'
  <2> DEFINE last == clients[k].topic = TopicCount
             topic == IF last THEN clients[k].topic ELSE clients[k].topic + 1
             stage == IF last THEN "open" ELSE clients[k].stage
             route == [clients[k] EXCEPT !.topic = topic, !.stage = stage]
  <2>1. /\ clients' = [clients EXCEPT ![k] = route] /\ clients[k].stage = "subscribing"
        /\ UNCHANGED <<instance, buses, emitters, received, emitted, delivered>>
    BY <1>1, <1>3 DEF Subscribed
  <2>4. topic \in Int /\ stage \in {"subscribing", "open"}
    BY <1>2, <2>1
  <2> HIDE DEF topic, stage
  <2>2. /\ route \in [stage : {"subscribing", "open", "gone"}, route : {"events", "command"},
                      tenant : EventTenants \cup {None}, topic : Int,
                      during : BOOLEAN]
        /\ route.route = clients[k].route /\ route.during = clients[k].during
    BY <1>2, <2>1, <2>4
  <2>3. route \in Route /\ route # Away
    BY <2>2 DEF Route, Away
  <2> HIDE DEF route
  <2> QED
    BY <1>2, <2>1, <2>2, <2>3, ClientKeeps
<1>4. ASSUME NEW k \in Clients, NEW tenant \in EventTenants, SetTenant(k, tenant) PROVE BusInv'
  <2> DEFINE route == [clients[k] EXCEPT !.tenant = tenant]
  <2>1. /\ clients' = [clients EXCEPT ![k] = route] /\ clients[k].stage = "open"
        /\ UNCHANGED <<instance, buses, emitters, received, emitted, delivered>>
    BY <1>1, <1>4 DEF SetTenant
  <2>2. /\ route \in [stage : {"subscribing", "open", "gone"}, route : {"events", "command"},
                      tenant : EventTenants \cup {None}, topic : Int,
                      during : BOOLEAN]
        /\ route.route = clients[k].route /\ route.during = clients[k].during
    BY <1>2, <2>1
  <2>3. route \in Route /\ route # Away
    BY <2>2 DEF Route, Away
  <2> HIDE DEF route
  <2> QED
    BY <1>2, <2>1, <2>2, <2>3, ClientKeeps
<1>5. ASSUME NEW k \in Clients, Leave(k) PROVE BusInv'
  <2> DEFINE route == [clients[k] EXCEPT !.stage = "gone"]
  <2>1. /\ clients' = [clients EXCEPT ![k] = route] /\ clients[k].stage = "open"
        /\ UNCHANGED <<instance, buses, emitters, received, emitted, delivered>>
    BY <1>1, <1>5 DEF Leave
  <2>2. /\ route \in [stage : {"subscribing", "open", "gone"}, route : {"events", "command"},
                      tenant : EventTenants \cup {None}, topic : Int,
                      during : BOOLEAN]
        /\ route.route = clients[k].route /\ route.during = clients[k].during
    BY <1>2, <2>1
  <2>3. route \in Route /\ route # Away
    BY <2>2 DEF Route, Away
  <2> HIDE DEF route
  <2> QED
    BY <1>2, <2>1, <2>2, <2>3, ClientKeeps
<1>6. ASSUME UNCHANGED <<instance, buses, emitters, clients, received, emitted, delivered>>
      PROVE  BusInv'
  <2>1. BusTypeOK' /\ HandlerInv' /\ NumberInv' /\ LockInv' /\ StrandedInv'
    <3>1. BusTypeOK'
      BY <1>6 DEF BusInv, BusTypeOK
    <3>2. HandlerInv'
      BY <1>6 DEF BusInv, HandlerInv
    <3>3. NumberInv' /\ LockInv' /\ StrandedInv'
      BY <1>6 DEF BusInv, NumberInv, LockInv, StrandedInv, LockHeld
    <3> QED
      BY <3>1, <3>2, <3>3
  <2>2. ReceivedInv' /\ ReachedInv' /\ DeliveredInv'
    BY <1>6 DEF BusInv, ReceivedInv, ReachedInv, DeliveredInv, Passed, Listens, Got, OnBus
  <2> QED
    BY <2>1, <2>2 DEF BusInv
<1>7. ASSUME NEW l \in DOMAIN loops, LoopBegins(l) PROVE BusInv'
  BY <1>6, <1>7 DEF LoopBegins
<1>8. CASE UNCHANGED busVars
  BY <1>6, <1>8 DEF busVars
<1> QED
  BY <1>3, <1>4, <1>5, <1>7, <1>8, EmitKeeps, InitializedKeeps, ProceedKeeps, DeliverKeeps,
     EndPublishKeeps, JoinKeeps DEF BusNext

\* Whatever the clients, handlers and events: the invariant holds.
THEOREM BusInvariant == BusSpec => []BusInv
<1> QED
  BY BusInitHolds, BusStepKeeps, PTL DEF BusSpec

\* An event whose publication ended was sent once to everyone who had subscribed before,
\* on whatever bus, and is still there, but for those who joined while the instance was
\* being made: for any clients, buses and number of publications that overlap.
THEOREM SentOnceCorrect == BusSpec => []SentOnce
<1>1. BusInv => SentOnce
  <2> SUFFICES ASSUME BusInv PROVE SentOnce
    OBVIOUS
  <2>1. ASSUME NEW k \in Clients PROVE IsInjective(received[k])
    <3>1. received[k] \in Seq(Nat) /\ DOMAIN received[k] = 1..Len(received[k])
      BY DEF BusInv, BusTypeOK
    <3> QED
      BY <3>1 DEF BusInv, ReceivedInv, IsInjective
  <2>2. ASSUME NEW d \in delivered, NEW k \in d.due,
               clients[k].stage = "open", clients[k].route = "events"
        PROVE  \/ d.number \in ToSet(received[k])
               \/ clients[k].during /\ k \notin ToSet(buses[d.bus].handlers)
    <3>1. k \in Clients
      BY DEF BusInv, BusTypeOK
    <3>2. received[k] \in Seq(Nat) /\ DOMAIN received[k] = 1..Len(received[k])
      BY <3>1 DEF BusInv, BusTypeOK
    <3>3. /\ d.bus \in 1..Len(buses)
          /\ Got(k, d.number) \/ (clients[k].during /\ ~ OnBus(d.bus, k))
      BY <2>2 DEF BusInv, DeliveredInv, Listens
    <3>4. CASE Got(k, d.number)
      BY <3>2, <3>4 DEF Got, ToSet
    <3>5. CASE clients[k].during /\ ~ OnBus(d.bus, k)
      <4>1. buses[d.bus].handlers \in Seq(Clients)
        BY <3>3, BusIs DEF BusInv, BusTypeOK
      <4> QED
        BY <3>5, <4>1 DEF OnBus, ToSet
    <3> QED
      BY <3>3, <3>4, <3>5
  <2> QED
    BY <2>1, <2>2 DEF SentOnce
<1> QED
  BY <1>1, BusInvariant, PTL

-----------------------------------------------------------------------------
(* WebSockets. *)

Connection ==
  [serial : Nat, joined : SocketTenants \cup {None}, topics : SUBSET Topics, idle : BOOLEAN]

Target == [id : Addresses, serial : Nat]

Broadcast ==
  [stage : {"sending"}, targets : SUBSET Target, got : SUBSET Nat, dead : SUBSET Addresses,
   due : SUBSET Nat, excluded : SocketTenants \cup {None}, barred : SUBSET Nat]

\* The state keeps its type.
SocketTypeOK ==
  /\ serials \in Nat /\ sent \in Nat
  /\ DOMAIN sockets \subseteq Addresses
  /\ sockets \in [DOMAIN sockets -> 1..serials]
  /\ connections \in [DOMAIN connections -> Connection]
  /\ tenantOf \in [1..serials -> SocketTenants \cup {None}]
  /\ tenantIds \in [SocketTenants -> SUBSET Addresses]
  /\ moved \in Seq(Addresses)
  /\ broadcasts \in [Calls -> Broadcast \cup {NoBroadcast}]
  /\ finished \subseteq [due : SUBSET Nat, got : SUBSET Nat, barred : SUBSET Nat]

\* A connection in the table is that of the socket at its id, and no two sockets have one
\* serial.
TableInv ==
  /\ DOMAIN connections \subseteq DOMAIN sockets
  /\ \A id \in DOMAIN connections : connections[id].serial = sockets[id]
  /\ \A id, jd \in DOMAIN sockets : sockets[id] = sockets[jd] => id = jd

\* The index lists a connection under the tenant it joined with, which is still its tenant
\* unless one was changed at its id; nothing else is in it but such ids.
IndexInv ==
  /\ \A id \in DOMAIN connections :
       id \in ToSet(moved) \/ tenantOf[connections[id].serial] = connections[id].joined
  /\ \A t \in SocketTenants :
       /\ \A id \in DOMAIN connections : connections[id].joined = t => id \in tenantIds[t]
       /\ \A id \in tenantIds[t] :
            id \in ToSet(moved) \/ (id \in DOMAIN connections /\ connections[id].joined = t)

\* Whoever a broadcast is due to has been sent to, or is still to be sent to, or will be
\* disconnected when the broadcast ends.
Pending(b, id, table) ==
  \/ table[id].serial \in b.got
  \/ \E target \in b.targets :
       target.id = id /\ (target.serial = 0 \/ target.serial = table[id].serial)
  \/ id \in b.dead

\* Whom a broadcast is due to and kept from agrees with the tenants, and nobody it is kept
\* from was sent to.
SendsSound(b, table, tenant, made) ==
  /\ b.due \subseteq 1..made /\ b.barred \subseteq 1..made
  /\ b.excluded = None => b.barred = {}
  /\ b.excluded # None => /\ \A n \in b.due : tenant[n] # b.excluded
                          /\ \A n \in b.barred : tenant[n] = b.excluded
  /\ b.got \cap b.barred = {}
  /\ \A id \in DOMAIN table : table[id].serial \in b.due => Pending(b, id, table)

SendingInv ==
  \A c \in Calls : broadcasts[c].stage = "sending" =>
    SendsSound(broadcasts[c], connections, tenantOf, serials)

\* A broadcast that has ended reached everyone it was due to who is still connected.
FinishedInv ==
  \A b \in finished :
    /\ b.due \subseteq 1..serials
    /\ \A id \in DOMAIN connections :
         connections[id].serial \in b.due => connections[id].serial \in b.got
    /\ b.got \cap b.barred = {}

SocketInv == SocketTypeOK /\ TableInv /\ IndexInv /\ SendingInv /\ FinishedInv

----------------------------------------------------------------------------
LEMMA SocketInitHolds == SocketInit => SocketInv
<1> SUFFICES ASSUME SocketInit PROVE SocketInv
  OBVIOUS
<1>1. /\ DOMAIN connections = {} /\ DOMAIN sockets = {} /\ DOMAIN tenantOf = {}
      /\ finished = {} /\ serials = 0 /\ sent = 0 /\ 1..serials = {}
  BY DEF SocketInit
<1>2. /\ connections \in [DOMAIN connections -> Connection]
      /\ sockets \in [DOMAIN sockets -> 1..serials]
      /\ tenantOf \in [1..serials -> SocketTenants \cup {None}]
  BY <1>1 DEF SocketInit
<1>3. \A c \in Calls : broadcasts[c].stage # "sending"
  BY DEF SocketInit, NoBroadcast
<1>4. moved \in Seq(Addresses) /\ \A t \in SocketTenants : tenantIds[t] = {}
  BY DEF SocketInit
<1>5. SocketTypeOK
  BY <1>1, <1>2, <1>4 DEF SocketInit, SocketTypeOK
<1> QED
  BY <1>1, <1>3, <1>4, <1>5 DEF SocketInv, TableInv, IndexInv, SendingInv, FinishedInv

----------------------------------------------------------------------------
\* What every request does that neither makes a connection nor changes a tenant: the table
\* keeps some of its entries, with their serials, and every socket is one that was there.
Kept ==
  /\ UNCHANGED <<serials, tenantOf, moved>>
  /\ DOMAIN sockets' \subseteq DOMAIN sockets
  /\ sockets' \in [DOMAIN sockets' -> 1..serials]
  /\ \A id \in DOMAIN sockets' : sockets'[id] = sockets[id]
  /\ DOMAIN connections' \subseteq DOMAIN connections \cap DOMAIN sockets'
  /\ connections' \in [DOMAIN connections' -> Connection]
  /\ \A id \in DOMAIN connections' :
       /\ connections'[id].serial = connections[id].serial
       /\ connections'[id].joined = connections[id].joined

LEMMA KeptTable ==
  ASSUME SocketInv, Kept
  PROVE  TableInv'
BY DEF SocketInv, TableInv, Kept

LEMMA KeptFinished ==
  ASSUME SocketInv, Kept, finished' = finished
  PROVE  FinishedInv'
BY DEF SocketInv, FinishedInv, Kept

LEMMA SoundKept ==
  ASSUME SocketInv, Kept, NEW b, SendsSound(b, connections, tenantOf, serials)
  PROVE  SendsSound(b, connections', tenantOf', serials')
BY DEF SendsSound, Pending, Kept

LEMMA KeptSending ==
  ASSUME SocketInv, Kept, \A c \in Calls : \/ broadcasts'[c] = broadcasts[c]
                                           \/ broadcasts'[c].stage # "sending"
  PROVE  SendingInv'
<1> SUFFICES ASSUME NEW c \in Calls, broadcasts'[c].stage = "sending"
             PROVE  SendsSound(broadcasts'[c], connections', tenantOf', serials')
  BY DEF SendingInv
<1>1. broadcasts'[c] = broadcasts[c]
  OBVIOUS
<1>2. SendsSound(broadcasts[c], connections, tenantOf, serials)
  BY <1>1 DEF SocketInv, SendingInv
<1> QED
  BY <1>1, <1>2, SoundKept

\* Entries whose other fields change.
LEMMA KeptIndex ==
  ASSUME SocketInv, Kept, DOMAIN connections' = DOMAIN connections, UNCHANGED tenantIds
  PROVE  IndexInv'
BY DEF SocketInv, IndexInv, Kept

LEMMA KeptEntries ==
  ASSUME SocketInv, Kept, DOMAIN connections' = DOMAIN connections,
         UNCHANGED <<tenantIds, broadcasts, finished, sent>>
  PROVE  SocketInv'
<1>1. SocketTypeOK'
  BY DEF SocketInv, SocketTypeOK, Kept
<1> QED
  BY <1>1, KeptTable, KeptIndex, KeptSending, KeptFinished DEF SocketInv

\* Entries that are taken out of the table, and out of the index under the tenants they
\* have by then.
LEMMA KeptRemoval ==
  ASSUME SocketInv, NEW gone, Removed(gone), UNCHANGED <<serials, tenantOf, moved>>,
         \/ UNCHANGED sockets
         \/ sockets' = [x \in DOMAIN sockets \ gone |-> sockets[x]]
  PROVE  /\ Kept /\ TableInv' /\ IndexInv'
         /\ tenantIds' \in [SocketTenants -> SUBSET Addresses]
         /\ DOMAIN sockets' \subseteq Addresses
<1>1. /\ connections' = [id \in DOMAIN connections \ gone |-> connections[id]]
      /\ tenantIds' = [t \in SocketTenants |->
           tenantIds[t] \ {id \in gone \cap DOMAIN connections :
                             tenantOf[connections[id].serial] = t}]
  BY DEF Removed
<1>2. /\ DOMAIN connections' = DOMAIN connections \ gone
      /\ \A id \in DOMAIN connections' : connections'[id] = connections[id]
      /\ connections' \in [DOMAIN connections' -> Connection]
  BY <1>1 DEF SocketInv, SocketTypeOK
<1>3. /\ DOMAIN sockets' \subseteq DOMAIN sockets
      /\ DOMAIN sockets \ gone \subseteq DOMAIN sockets'
      /\ \A id \in DOMAIN sockets' : sockets'[id] = sockets[id]
      /\ sockets' \in [DOMAIN sockets' -> 1..serials]
  BY DEF SocketInv, SocketTypeOK
<1>4. Kept
  BY <1>2, <1>3 DEF Kept, SocketInv, TableInv
<1>5. TableInv'
  BY <1>4, KeptTable
<1>6. tenantIds' \in [SocketTenants -> SUBSET Addresses]
  BY <1>1 DEF SocketInv, SocketTypeOK
<1>7. IndexInv'
  <2>1. \A id \in DOMAIN connections' :
          \/ id \in ToSet(moved')
          \/ tenantOf'[connections'[id].serial] = connections'[id].joined
    BY <1>2 DEF SocketInv, IndexInv
  <2>2. ASSUME NEW t \in SocketTenants
        PROVE  \A id \in DOMAIN connections' :
                 connections'[id].joined = t => id \in tenantIds'[t]
    BY <1>1, <1>2 DEF SocketInv, IndexInv
  <2>3. ASSUME NEW t \in SocketTenants, NEW id \in tenantIds'[t], id \notin ToSet(moved)
        PROVE  id \in DOMAIN connections' /\ connections'[id].joined = t
    <3>1. /\ id \in tenantIds[t]
          /\ ~ (id \in gone /\ id \in DOMAIN connections
                 /\ tenantOf[connections[id].serial] = t)
      BY <1>1, <2>3
    <3>2. id \in DOMAIN connections /\ connections[id].joined = t
      BY <2>3, <3>1 DEF SocketInv, IndexInv
    <3>3. tenantOf[connections[id].serial] = t
      BY <2>3, <3>2 DEF SocketInv, IndexInv
    <3> QED
      BY <1>2, <3>1, <3>2, <3>3
  <2> QED
    BY <2>1, <2>2, <2>3 DEF IndexInv
<1>8. DOMAIN sockets' \subseteq Addresses
  BY <1>3 DEF SocketInv, SocketTypeOK
<1> QED
  BY <1>4, <1>5, <1>6, <1>7, <1>8

LEMMA RemovalKeeps ==
  ASSUME SocketInv, NEW gone, Removed(gone),
         \/ UNCHANGED sockets
         \/ sockets' = [x \in DOMAIN sockets \ gone |-> sockets[x]],
         UNCHANGED <<tenantOf, moved, broadcasts, finished, serials, sent>>
  PROVE  SocketInv'
<1>1. /\ Kept /\ TableInv' /\ IndexInv'
      /\ tenantIds' \in [SocketTenants -> SUBSET Addresses]
      /\ DOMAIN sockets' \subseteq Addresses
  BY KeptRemoval
<1>2. SocketTypeOK'
  BY <1>1 DEF SocketInv, SocketTypeOK, Kept
<1> QED
  BY <1>1, <1>2, KeptSending, KeptFinished DEF SocketInv

----------------------------------------------------------------------------
\* Connections.

\* A new connection has a serial that no broadcast knows of.
LEMMA ConnectKeeps ==
  ASSUME SocketInv, NEW id \in Addresses, NEW tenant \in SocketTenants \cup {None},
         Connect(id, tenant)
  PROVE  SocketInv'
<1> DEFINE new == [serial |-> serials + 1, joined |-> tenant, topics |-> {}, idle |-> FALSE]
<1> USE DEF SocketInv
<1>1. /\ id \notin DOMAIN sockets
      /\ sockets' = [i \in DOMAIN sockets \cup {id} |->
                      IF i = id THEN serials + 1 ELSE sockets[i]]
      /\ connections' = [i \in DOMAIN connections \cup {id} |->
                          IF i = id THEN new ELSE connections[i]]
      /\ tenantOf' = [n \in DOMAIN tenantOf \cup {serials + 1} |->
                       IF n = serials + 1 THEN tenant ELSE tenantOf[n]]
      /\ tenantIds' = IF tenant = None THEN tenantIds
                      ELSE [tenantIds EXCEPT ![tenant] = @ \cup {id}]
      /\ serials' = serials + 1
      /\ UNCHANGED <<moved, broadcasts, finished, sent>>
  BY DEF Connect, With
<1>2. id \notin DOMAIN connections
  BY <1>1 DEF TableInv
<1>3. new \in Connection /\ new.serial = serials + 1 /\ new.joined = tenant
  BY DEF Connection, SocketTypeOK
<1> HIDE DEF new
<1>4. /\ serials \in Nat /\ 1..serials \subseteq 1..(serials + 1)
      /\ serials + 1 \in 1..(serials + 1) /\ serials + 1 \notin 1..serials
      /\ 1..(serials + 1) = 1..serials \cup {serials + 1}
  BY DEF SocketTypeOK
<1>5. /\ DOMAIN sockets' = DOMAIN sockets \cup {id}
      /\ sockets'[id] = serials + 1
      /\ \A i \in DOMAIN sockets : sockets'[i] = sockets[i] /\ sockets[i] \in 1..serials
      /\ sockets' \in [DOMAIN sockets' -> 1..serials']
  BY <1>1, <1>4 DEF SocketTypeOK
<1>6. /\ DOMAIN connections' = DOMAIN connections \cup {id}
      /\ connections'[id] = new
      /\ \A i \in DOMAIN connections :
           connections'[i] = connections[i] /\ connections[i].serial \in 1..serials
      /\ connections' \in [DOMAIN connections' -> Connection]
  BY <1>1, <1>2, <1>3, <1>5 DEF SocketTypeOK, TableInv
<1>7. /\ tenantOf' \in [1..serials' -> SocketTenants \cup {None}]
      /\ tenantOf'[serials + 1] = tenant
      /\ \A n \in 1..serials : tenantOf'[n] = tenantOf[n]
  BY <1>1, <1>4 DEF SocketTypeOK
<1>8. /\ tenantIds' \in [SocketTenants -> SUBSET Addresses]
      /\ \A t \in SocketTenants :
           tenantIds'[t] = IF t = tenant THEN tenantIds[t] \cup {id} ELSE tenantIds[t]
  BY <1>1, SocketAssumption DEF SocketTypeOK
<1>9. SocketTypeOK'
  BY <1>1, <1>4, <1>5, <1>6, <1>7, <1>8 DEF SocketTypeOK
<1>10. TableInv'
  BY <1>1, <1>3, <1>4, <1>5, <1>6 DEF TableInv
<1>11. IndexInv'
  <2>1. \A i \in DOMAIN connections' :
          \/ i \in ToSet(moved)
          \/ tenantOf'[connections'[i].serial] = connections'[i].joined
    BY <1>3, <1>6, <1>7 DEF IndexInv
  <2>2. ASSUME NEW t \in SocketTenants
        PROVE  /\ \A i \in DOMAIN connections' :
                    connections'[i].joined = t => i \in tenantIds'[t]
               /\ \A i \in tenantIds'[t] :
                    \/ i \in ToSet(moved)
                    \/ i \in DOMAIN connections' /\ connections'[i].joined = t
    BY <1>3, <1>6, <1>8 DEF IndexInv
  <2> QED
    BY <1>1, <2>1, <2>2 DEF IndexInv
<1>12. SendingInv'
  <2> SUFFICES ASSUME NEW c \in Calls, broadcasts[c].stage = "sending"
               PROVE  SendsSound(broadcasts[c], connections', tenantOf', serials + 1)
    BY <1>1 DEF SendingInv
  <2>1. SendsSound(broadcasts[c], connections, tenantOf, serials)
    BY DEF SendingInv
  <2>2. /\ broadcasts[c].due \subseteq 1..serials
        /\ broadcasts[c].barred \subseteq 1..serials
    BY <2>1 DEF SendsSound
  <2>3. ASSUME NEW i \in DOMAIN connections', connections'[i].serial \in broadcasts[c].due
        PROVE  Pending(broadcasts[c], i, connections')
    <3>1. i \in DOMAIN connections /\ connections'[i] = connections[i]
      BY <1>3, <1>4, <1>6, <2>2, <2>3
    <3> QED
      BY <2>1, <2>3, <3>1 DEF SendsSound, Pending
  <2>4. /\ broadcasts[c].due \subseteq 1..(serials + 1)
        /\ broadcasts[c].barred \subseteq 1..(serials + 1)
    BY <1>4, <2>2
  <2> QED
    BY <1>7, <2>1, <2>2, <2>3, <2>4 DEF SendsSound
<1>13. FinishedInv'
  <2> SUFFICES ASSUME NEW b \in finished
               PROVE  /\ b.due \subseteq 1..(serials + 1)
                      /\ \A i \in DOMAIN connections' :
                           connections'[i].serial \in b.due => connections'[i].serial \in b.got
                      /\ b.got \cap b.barred = {}
    BY <1>1 DEF FinishedInv
  <2> QED
    BY <1>3, <1>4, <1>6 DEF FinishedInv
<1> QED
  BY <1>9, <1>10, <1>11, <1>12, <1>13

LEMMA DisconnectKeeps ==
  ASSUME SocketInv, NEW id \in DOMAIN sockets, Disconnect(id)
  PROVE  SocketInv'
BY RemovalKeeps DEF Disconnect, Without

\* A route writes another tenant into a connection: the index does not learn of it, and a
\* broadcast under way to all is told.
LEMMA SetConnectionTenantKeeps ==
  ASSUME SocketInv, NEW id \in DOMAIN sockets, NEW tenant \in SocketTenants \cup {None},
         SetConnectionTenant(id, tenant)
  PROVE  SocketInv'
<1> DEFINE serial == sockets[id]
<1>1. /\ tenantOf' = [tenantOf EXCEPT ![serial] = tenant]
      /\ moved' = Append(moved, id)
      /\ broadcasts' = [c \in Calls |-> Retold(broadcasts[c], serial, tenant)]
      /\ UNCHANGED <<sockets, connections, tenantIds, finished, serials, sent>>
  BY DEF SetConnectionTenant
<1>2. serial \in 1..serials /\ id \in Addresses
  BY DEF SocketInv, SocketTypeOK
<1>3. \A i \in DOMAIN connections : i = id \/ connections[i].serial # serial
  BY DEF SocketInv, TableInv
<1> HIDE DEF serial
<1>4. /\ tenantOf' \in [1..serials -> SocketTenants \cup {None}]
      /\ tenantOf'[serial] = tenant
      /\ \A n \in 1..serials : n # serial => tenantOf'[n] = tenantOf[n]
  BY <1>1, <1>2 DEF SocketInv, SocketTypeOK
<1>5. moved' \in Seq(Addresses) /\ ToSet(moved') = ToSet(moved) \cup {id}
  <2>1. /\ moved \in Seq(Addresses) /\ moved' \in Seq(Addresses)
        /\ DOMAIN moved = 1..Len(moved) /\ Len(moved) \in Nat
        /\ DOMAIN moved' = 1..(Len(moved) + 1)
        /\ moved'[Len(moved) + 1] = id
        /\ \A n \in 1..Len(moved) : moved'[n] = moved[n]
    BY <1>1, <1>2 DEF SocketInv, SocketTypeOK
  <2> QED
    BY <2>1 DEF ToSet
<1>6. ASSUME NEW c \in Calls
      PROVE  /\ broadcasts'[c] \in Broadcast \cup {NoBroadcast}
             /\ broadcasts'[c].stage = "sending" =>
                  SendsSound(broadcasts'[c], connections', tenantOf', serials')
  <2> DEFINE b == broadcasts[c]
             told == Retold(b, serial, tenant)
  <2>1. b \in Broadcast \cup {NoBroadcast}
    BY DEF SocketInv, SocketTypeOK
  <2>2. broadcasts'[c] = told
    BY <1>1
  <2>3. CASE b.stage # "sending"
    <3>1. told = b
      BY <2>1, <2>3 DEF Retold, Broadcast, NoBroadcast
    <3> QED
      BY <2>1, <2>2, <2>3, <3>1
  <2>4. CASE b.stage = "sending"
    <3>1. b \in Broadcast /\ SendsSound(b, connections, tenantOf, serials)
      BY <2>1, <2>4 DEF SocketInv, SendingInv, NoBroadcast
    <3> HIDE DEF b
    <3>2. CASE b.excluded = None
      <4>1. told = b
        BY <3>2 DEF Retold
      <4> QED
        BY <1>1, <2>2, <3>1, <3>2, <4>1 DEF SendsSound, Pending
    <3>3. CASE b.excluded # None /\ tenant = b.excluded
      <4>1. told = [b EXCEPT !.due = @ \ {serial}]
        BY <2>4, <3>3 DEF Retold
      <4>2. /\ told \in Broadcast /\ told.due = b.due \ {serial} /\ told.barred = b.barred
            /\ told.excluded = b.excluded /\ told.got = b.got /\ told.dead = b.dead
            /\ told.targets = b.targets
        BY <3>1, <4>1 DEF Broadcast
      <4> HIDE DEF told
      <4>3. SendsSound(told, connections, tenantOf', serials)
        BY <1>4, <3>1, <3>3, <4>2 DEF SendsSound, Pending
      <4> QED
        BY <1>1, <2>2, <4>2, <4>3
    <3>4. CASE b.excluded # None /\ tenant # b.excluded
      <4>1. told = [b EXCEPT !.barred = @ \ {serial}]
        BY <2>4, <3>4 DEF Retold
      <4>2. /\ told \in Broadcast /\ told.due = b.due /\ told.barred = b.barred \ {serial}
            /\ told.excluded = b.excluded /\ told.got = b.got /\ told.dead = b.dead
            /\ told.targets = b.targets
        BY <3>1, <4>1 DEF Broadcast
      <4> HIDE DEF told
      <4>3. SendsSound(told, connections, tenantOf', serials)
        BY <1>4, <3>1, <3>4, <4>2 DEF SendsSound, Pending
      <4> QED
        BY <1>1, <2>2, <4>2, <4>3
    <3> QED
      BY <3>2, <3>3, <3>4
  <2> QED
    BY <2>3, <2>4
<1>7. SocketTypeOK'
  <2>1. broadcasts' \in [Calls -> Broadcast \cup {NoBroadcast}]
    BY <1>1, <1>6
  <2> QED
    BY <1>1, <1>4, <1>5, <2>1 DEF SocketInv, SocketTypeOK
<1>8. IndexInv'
  <2>1. ASSUME NEW i \in DOMAIN connections
        PROVE  \/ i \in ToSet(moved')
               \/ tenantOf'[connections[i].serial] = connections[i].joined
    <3>1. connections[i].serial \in 1..serials
      BY DEF SocketInv, SocketTypeOK, TableInv
    <3> QED
      BY <1>3, <1>4, <1>5, <3>1 DEF SocketInv, IndexInv
  <2> QED
    BY <1>1, <1>5, <2>1 DEF SocketInv, IndexInv
<1>9. TableInv' /\ FinishedInv'
  BY <1>1 DEF SocketInv, TableInv, FinishedInv
<1>10. SendingInv'
  BY <1>6 DEF SendingInv
<1> QED
  BY <1>7, <1>8, <1>9, <1>10 DEF SocketInv

\* Activity on a connection changes neither its serial nor the tenant it joined with.
LEMMA EntryChanges ==
  ASSUME NEW conn \in Connection
  PROVE  /\ \A idle \in BOOLEAN :
              LET active == [conn EXCEPT !.idle = idle]
              IN  active \in Connection /\ active.serial = conn.serial
                    /\ active.joined = conn.joined
         /\ \A topics \in SUBSET Topics :
              LET interested == [conn EXCEPT !.topics = topics]
              IN  interested \in Connection /\ interested.serial = conn.serial
                    /\ interested.joined = conn.joined
BY DEF Connection

LEMMA EntryKeeps ==
  ASSUME SocketInv, NEW id \in DOMAIN connections, NEW topics \in SUBSET Topics,
         NEW idle \in BOOLEAN,
         \/ connections' = [connections EXCEPT ![id].topics = topics]
         \/ connections' = [connections EXCEPT ![id].idle = idle],
         UNCHANGED <<sockets, tenantOf, tenantIds, moved, broadcasts, finished, serials, sent>>
  PROVE  SocketInv'
<1>1. /\ connections \in [DOMAIN connections -> Connection] /\ connections[id] \in Connection
      /\ DOMAIN connections' = DOMAIN connections
      /\ connections' = [i \in DOMAIN connections |-> connections'[i]]
  BY DEF SocketInv, SocketTypeOK
<1>2. /\ connections'[id] \in Connection
      /\ connections'[id].serial = connections[id].serial
      /\ connections'[id].joined = connections[id].joined
  <2>1. CASE connections' = [connections EXCEPT ![id].topics = topics]
    <3>1. connections'[id] = [connections[id] EXCEPT !.topics = topics]
      BY <2>1
    <3> QED
      BY <1>1, <3>1, EntryChanges
  <2>2. CASE connections' = [connections EXCEPT ![id].idle = idle]
    <3>1. connections'[id] = [connections[id] EXCEPT !.idle = idle]
      BY <2>2
    <3> QED
      BY <1>1, <3>1, EntryChanges
  <2> QED
    BY <2>1, <2>2
<1>3. \A i \in DOMAIN connections : i # id => connections'[i] = connections[i]
  OBVIOUS
<1>4. connections' \in [DOMAIN connections' -> Connection]
  BY <1>1, <1>2, <1>3
<1>5. Kept
  BY <1>1, <1>2, <1>3, <1>4 DEF Kept, SocketInv, SocketTypeOK, TableInv
<1> QED
  BY <1>1, <1>5, KeptEntries

\* A failed send to one connection removes it, while its socket lives on.
LEMMA SendToKeeps ==
  ASSUME SocketInv, NEW id \in DOMAIN connections, NEW ok \in BOOLEAN, SendTo(id, ok)
  PROVE  SocketInv'
<1>1. CASE ok
  <2>1. connections' = [connections EXCEPT ![id].idle = FALSE]
    BY <1>1 DEF SendTo
  <2>2. UNCHANGED <<sockets, tenantOf, tenantIds, moved, broadcasts, finished, serials, sent>>
    BY <1>1 DEF SendTo
  <2>3. {} \in SUBSET Topics
    OBVIOUS
  <2> QED
    BY <2>1, <2>2, <2>3, EntryKeeps
<1>2. CASE ~ ok
  BY <1>2, RemovalKeeps DEF SendTo
<1> QED
  BY <1>1, <1>2

LEMMA CleanupKeeps ==
  ASSUME SocketInv, CleanupStale
  PROVE  SocketInv'
BY RemovalKeeps DEF CleanupStale

----------------------------------------------------------------------------
\* Broadcasts.

\* Whoever a broadcast is due to is among its targets from the start.
LEMMA StartKeeps ==
  ASSUME SocketInv, NEW c \in Calls, NEW targets \in SUBSET Target, NEW due, NEW barred,
         NEW excluded \in SocketTenants \cup {None},
         SendsSound([stage |-> "sending", targets |-> targets, got |-> {}, dead |-> {},
                due |-> due, excluded |-> excluded, barred |-> barred],
               connections, tenantOf, serials),
         Start(c, targets, due, excluded, barred)
  PROVE  SocketInv'
<1> DEFINE new == [stage |-> "sending", targets |-> targets, got |-> {}, dead |-> {},
                   due |-> due, excluded |-> excluded, barred |-> barred]
<1>1. /\ broadcasts' = [broadcasts EXCEPT ![c] = new]
      /\ sent' = sent + 1
      /\ UNCHANGED <<sockets, connections, tenantOf, tenantIds, moved, finished, serials>>
  BY DEF Start
<1>2. SendsSound(new, connections, tenantOf, serials)
  OBVIOUS
<1>3. new.due \subseteq 1..serials /\ new.barred \subseteq 1..serials
  BY <1>2 DEF SendsSound
<1>4. new \in Broadcast
  <2>1. 1..serials \subseteq Nat
    OBVIOUS
  <2> QED
    BY <1>3, <2>1 DEF Broadcast
<1> HIDE DEF new
<1>5. broadcasts'[c] = new /\ \A d \in Calls \ {c} : broadcasts'[d] = broadcasts[d]
  BY <1>1 DEF SocketInv, SocketTypeOK
<1>6. SocketTypeOK'
  <2>1. broadcasts' \in [Calls -> Broadcast \cup {NoBroadcast}]
    BY <1>1, <1>4 DEF SocketInv, SocketTypeOK
  <2> QED
    BY <1>1, <2>1 DEF SocketInv, SocketTypeOK
<1>7. TableInv' /\ IndexInv' /\ FinishedInv'
  BY <1>1 DEF SocketInv, TableInv, IndexInv, FinishedInv
<1>8. SendingInv'
  BY <1>1, <1>2, <1>5 DEF SocketInv, SendingInv
<1> QED
  BY <1>6, <1>7, <1>8 DEF SocketInv

\* To a tenant: the index holds the ids of all who joined under it.
LEMMA BroadcastToTenantKeeps ==
  ASSUME SocketInv, NEW c \in Calls, NEW tenant \in SocketTenants,
         BroadcastToTenant(c, tenant)
  PROVE  SocketInv'
<1> DEFINE targets == {[id |-> id, serial |-> 0] : id \in tenantIds[tenant]}
           joined == {id \in DOMAIN connections : connections[id].joined = tenant}
           due == SerialsAt(joined)
           b == [stage |-> "sending", targets |-> targets, got |-> {}, dead |-> {},
                 due |-> due, excluded |-> None, barred |-> {}]
<1>1. targets \in SUBSET Target
  BY DEF Target, SocketInv, SocketTypeOK
<1>2. due \subseteq 1..serials
  BY DEF SerialsAt, SocketInv, SocketTypeOK, TableInv
<1>3. ASSUME NEW id \in DOMAIN connections, connections[id].serial \in due
      PROVE  Pending(b, id, connections)
  <2>1. PICK jd \in joined : connections[jd].serial = connections[id].serial
    BY <1>3 DEF SerialsAt
  <2>2. jd = id
    BY <2>1 DEF SocketInv, TableInv
  <2>3. id \in tenantIds[tenant]
    BY <2>1, <2>2 DEF SocketInv, IndexInv
  <2>4. [id |-> id, serial |-> 0] \in b.targets
    BY <2>3
  <2> QED
    BY <2>4 DEF Pending
<1>4. Start(c, targets, due, None, {})
  BY DEF BroadcastToTenant
<1> HIDE DEF targets, due
<1>5. SendsSound(b, connections, tenantOf, serials)
  BY <1>2, <1>3 DEF SendsSound
<1> QED
  BY <1>1, <1>4, <1>5, StartKeeps

\* To all: the connections themselves are the targets.
LEMMA BroadcastToAllKeeps ==
  ASSUME SocketInv, NEW c \in Calls, NEW excluded \in SocketTenants \cup {None},
         BroadcastToAll(c, excluded)
  PROVE  SocketInv'
<1> DEFINE kept == {id \in DOMAIN connections :
                      excluded # None /\ tenantOf[connections[id].serial] = excluded}
           targets == {[id |-> id, serial |-> connections[id].serial] :
                         id \in DOMAIN connections}
           due == SerialsAt(DOMAIN connections \ kept)
           barred == SerialsAt(kept)
           b == [stage |-> "sending", targets |-> targets, got |-> {}, dead |-> {},
                 due |-> due, excluded |-> excluded, barred |-> barred]
<1>1. targets \in SUBSET Target
  <2>1. \A id \in DOMAIN connections : id \in Addresses /\ connections[id].serial \in Nat
    BY DEF SocketInv, SocketTypeOK, TableInv, Connection
  <2>2. \A id \in DOMAIN connections :
          [id |-> id, serial |-> connections[id].serial] \in Target
    BY <2>1 DEF Target
  <2> QED
    BY <2>2
<1>2. due \subseteq 1..serials /\ barred \subseteq 1..serials
  BY DEF SerialsAt, SocketInv, SocketTypeOK, TableInv
<1>3. /\ excluded = None => barred = {}
      /\ excluded # None => /\ \A n \in due : tenantOf[n] # excluded
                            /\ \A n \in barred : tenantOf[n] = excluded
  BY DEF SerialsAt
<1>4. ASSUME NEW id \in DOMAIN connections
      PROVE  Pending(b, id, connections)
  <2>1. [id |-> id, serial |-> connections[id].serial] \in b.targets
    OBVIOUS
  <2> QED
    BY <2>1 DEF Pending
<1>5. Start(c, targets, due, excluded, barred)
  BY DEF BroadcastToAll
<1> HIDE DEF targets, due, barred
<1>6. SendsSound(b, connections, tenantOf, serials)
  BY <1>2, <1>3, <1>4 DEF SendsSound
<1> QED
  BY <1>1, <1>5, <1>6, StartKeeps

LEMMA SendNextKeeps ==
  ASSUME SocketInv, NEW c \in Calls, NEW target, NEW ok \in BOOLEAN, SendNext(c, target, ok)
  PROVE  SocketInv'
<1> DEFINE b == broadcasts[c]
           here == {n \in Found(target) : b.excluded = None \/ tenantOf[n] # b.excluded}
           new == [b EXCEPT !.targets = @ \ {target},
                            !.got = IF ok THEN @ \cup here ELSE @,
                            !.dead = IF ok THEN @ ELSE @ \cup {target.id}]
<1>1. /\ b.stage = "sending" /\ target \in b.targets
      /\ broadcasts' = [broadcasts EXCEPT ![c] = new]
      /\ connections' = [id \in DOMAIN connections |->
           IF ok /\ connections[id].serial \in here
           THEN [connections[id] EXCEPT !.idle = FALSE] ELSE connections[id]]
      /\ UNCHANGED <<sockets, tenantOf, tenantIds, moved, finished, serials, sent>>
  <2>1. broadcasts' = [broadcasts EXCEPT
           ![c].targets = @ \ {target},
           ![c].got = IF ok THEN @ \cup here ELSE @,
           ![c].dead = IF ok THEN @ ELSE @ \cup {target.id}]
    BY DEF SendNext
  <2>2. broadcasts' = [broadcasts EXCEPT ![c] = new]
    BY <2>1 DEF SocketInv, SocketTypeOK
  <2> QED
    BY <2>2 DEF SendNext
<1>2. b \in Broadcast /\ SendsSound(b, connections, tenantOf, serials)
  BY <1>1 DEF SocketInv, SocketTypeOK, SendingInv, NoBroadcast
<1>3. target \in Target
  BY <1>1, <1>2 DEF Broadcast
<1>4. here \subseteq Nat
  BY <1>3 DEF Found, SerialsAt, Target, SocketInv, SocketTypeOK, Connection
<1>5. new \in Broadcast
  BY <1>2, <1>3, <1>4 DEF Broadcast, Target
<1>6. /\ new.due = b.due /\ new.targets = b.targets \ {target}
      /\ new.excluded = b.excluded /\ new.barred = b.barred
      /\ new.got \subseteq b.got \cup here /\ b.got \subseteq new.got
      /\ b.dead \subseteq new.dead
      /\ ok => here \subseteq new.got
      /\ ~ ok => target.id \in new.dead
  BY <1>2 DEF Broadcast
<1>7. here \cap b.barred = {}
  BY <1>2 DEF SendsSound
<1>8. \A id \in DOMAIN connections :
        /\ target.id = id /\ (target.serial = 0 \/ target.serial = connections[id].serial)
        /\ connections[id].serial \in b.due
        => connections[id].serial \in here
  BY <1>2 DEF Found, SerialsAt, SendsSound
<1>9. /\ DOMAIN connections' = DOMAIN connections
      /\ connections' \in [DOMAIN connections' -> Connection]
      /\ \A id \in DOMAIN connections' :
           /\ connections'[id].serial = connections[id].serial
           /\ connections'[id].joined = connections[id].joined
  <2>1. connections \in [DOMAIN connections -> Connection]
    BY DEF SocketInv, SocketTypeOK
  <2>2. ASSUME NEW id \in DOMAIN connections
        PROVE  /\ connections'[id] \in Connection
               /\ connections'[id].serial = connections[id].serial
               /\ connections'[id].joined = connections[id].joined
    <3>1. \/ connections'[id] = connections[id]
          \/ connections'[id] = [connections[id] EXCEPT !.idle = FALSE]
      BY <1>1
    <3>2. connections[id] \in Connection /\ FALSE \in BOOLEAN
      BY <2>1
    <3> QED
      BY <3>1, <3>2, EntryChanges
  <2>3. connections' = [id \in DOMAIN connections |-> connections'[id]]
    BY <1>1
  <2> QED
    BY <1>1, <2>2, <2>3
<1> HIDE DEF b, here, new
<1>10. broadcasts'[c] = new /\ \A d \in Calls \ {c} : broadcasts'[d] = broadcasts[d]
  BY <1>1 DEF SocketInv, SocketTypeOK
<1>11. SocketTypeOK'
  <2>1. broadcasts' \in [Calls -> Broadcast \cup {NoBroadcast}]
    BY <1>1, <1>5 DEF SocketInv, SocketTypeOK
  <2> QED
    BY <1>1, <1>9, <2>1 DEF SocketInv, SocketTypeOK
<1>12. Kept
  BY <1>1, <1>9 DEF Kept, SocketInv, SocketTypeOK, TableInv
<1>13. TableInv' /\ IndexInv' /\ FinishedInv'
  BY <1>1, <1>9, <1>12, KeptTable, KeptIndex, KeptFinished
<1>14. SendsSound(new, connections, tenantOf, serials)
  <2>1. ASSUME NEW id \in DOMAIN connections, connections[id].serial \in b.due
        PROVE  Pending(new, id, connections)
    <3>1. Pending(b, id, connections)
      BY <1>2, <2>1 DEF SendsSound
    <3> QED
      BY <1>6, <1>8, <2>1, <3>1 DEF Pending
  <2> QED
    BY <1>2, <1>6, <1>7, <2>1 DEF SendsSound
<1>15. SendingInv'
  <2> SUFFICES ASSUME NEW d \in Calls, broadcasts'[d].stage = "sending"
               PROVE  SendsSound(broadcasts'[d], connections', tenantOf', serials')
    BY DEF SendingInv
  <2>1. CASE d = c
    BY <1>10, <1>12, <1>14, <2>1, SoundKept
  <2>2. CASE d # c
    <3>1. broadcasts'[d] = broadcasts[d]
      BY <1>10, <2>2
    <3>2. SendsSound(broadcasts[d], connections, tenantOf, serials)
      BY <3>1 DEF SocketInv, SendingInv
    <3> QED
      BY <1>12, <3>1, <3>2, SoundKept
  <2> QED
    BY <2>1, <2>2
<1> QED
  BY <1>11, <1>13, <1>15 DEF SocketInv

\* When the last send is done, whoever was not reached is disconnected.
LEMMA EndBroadcastKeeps ==
  ASSUME SocketInv, NEW c \in Calls, EndBroadcast(c)
  PROVE  SocketInv'
<1> DEFINE b == broadcasts[c]
           new == [due |-> b.due, got |-> b.got, barred |-> b.barred]
<1>1. /\ b.stage = "sending" /\ b.targets = {} /\ Removed(b.dead)
      /\ finished' = finished \cup {new}
      /\ broadcasts' = [broadcasts EXCEPT ![c] = NoBroadcast]
      /\ UNCHANGED <<sockets, tenantOf, moved, serials, sent>>
  BY DEF EndBroadcast
<1>2. b \in Broadcast /\ SendsSound(b, connections, tenantOf, serials)
  BY <1>1 DEF SocketInv, SocketTypeOK, SendingInv, NoBroadcast
<1>3. \A d \in Calls : broadcasts'[d] = broadcasts[d] \/ broadcasts'[d].stage # "sending"
  BY <1>1 DEF SocketInv, SocketTypeOK, NoBroadcast
<1>4. broadcasts' \in [Calls -> Broadcast \cup {NoBroadcast}]
  BY <1>1 DEF SocketInv, SocketTypeOK
<1>5. new \in [due : SUBSET Nat, got : SUBSET Nat, barred : SUBSET Nat]
  BY <1>2 DEF Broadcast
<1>6. new.due = b.due /\ new.got = b.got /\ new.barred = b.barred
  OBVIOUS
<1> HIDE DEF b, new
<1>7. /\ Kept /\ TableInv' /\ IndexInv'
      /\ tenantIds' \in [SocketTenants -> SUBSET Addresses]
      /\ DOMAIN sockets' \subseteq Addresses
  BY <1>1, KeptRemoval
<1>8. SocketTypeOK'
  <2>1. finished' \subseteq [due : SUBSET Nat, got : SUBSET Nat, barred : SUBSET Nat]
    BY <1>1, <1>5 DEF SocketInv, SocketTypeOK
  <2> QED
    BY <1>1, <1>4, <1>7, <2>1 DEF SocketInv, SocketTypeOK, Kept
<1>9. SendingInv'
  BY <1>3, <1>7, KeptSending
<1>10. FinishedInv'
  <2>1. \A f \in finished :
          /\ f.due \subseteq 1..serials
          /\ \A id \in DOMAIN connections' :
               connections'[id].serial \in f.due => connections'[id].serial \in f.got
          /\ f.got \cap f.barred = {}
    BY <1>7 DEF SocketInv, FinishedInv, Kept
  <2>2. ASSUME NEW id \in DOMAIN connections', connections'[id].serial \in b.due
        PROVE  connections'[id].serial \in b.got
    <3>1. id \in DOMAIN connections /\ id \notin b.dead /\ connections'[id] = connections[id]
      BY <1>1 DEF Removed
    <3>2. Pending(b, id, connections)
      BY <1>2, <2>2, <3>1 DEF SendsSound
    <3> QED
      BY <1>1, <3>1, <3>2 DEF Pending
  <2>3. b.due \subseteq 1..serials /\ b.got \cap b.barred = {}
    BY <1>2 DEF SendsSound
  <2> QED
    BY <1>1, <1>6, <2>1, <2>2, <2>3 DEF FinishedInv
<1> QED
  BY <1>7, <1>8, <1>9, <1>10 DEF SocketInv

----------------------------------------------------------------------------
LEMMA SocketStepHolds == SocketInv /\ [SocketNext]_wsVars => SocketInv'
<1> SUFFICES ASSUME SocketInv, [SocketNext]_wsVars PROVE SocketInv'
  OBVIOUS
<1>1. CASE UNCHANGED wsVars
  BY <1>1 DEF wsVars, SocketInv, SocketTypeOK, TableInv, IndexInv, SendingInv, FinishedInv
<1>2. ASSUME NEW id \in Addresses, NEW tenant \in SocketTenants \cup {None}, Connect(id, tenant)
      PROVE  SocketInv'
  BY <1>2, ConnectKeeps
<1>3. ASSUME NEW id \in DOMAIN sockets,
             \/ Disconnect(id)
             \/ \E tenant \in SocketTenants \cup {None} : SetConnectionTenant(id, tenant)
      PROVE  SocketInv'
  BY <1>3, DisconnectKeeps, SetConnectionTenantKeeps
<1>4. ASSUME NEW id \in DOMAIN connections,
             \/ \E topics \in SUBSET Topics : Subscribe(id, topics) \/ Unsubscribe(id, topics)
             \/ GrowIdle(id)
      PROVE  SocketInv'
  <2>1. connections[id].topics \in SUBSET Topics
    BY DEF SocketInv, SocketTypeOK, Connection
  <2>2. \/ \E topics \in SUBSET Topics :
             \/ connections' = [connections EXCEPT ![id].topics = @ \cup topics]
             \/ connections' = [connections EXCEPT ![id].topics = @ \ topics]
        \/ connections' = [connections EXCEPT ![id].idle = TRUE]
    BY <1>4 DEF Subscribe, Unsubscribe, GrowIdle
  <2>3. PICK topics \in SUBSET Topics :
          \/ connections' = [connections EXCEPT ![id].topics = topics]
          \/ connections' = [connections EXCEPT ![id].idle = TRUE]
    <3>1. CASE connections' = [connections EXCEPT ![id].idle = TRUE]
      BY <2>1, <3>1
    <3>2. ASSUME NEW topics \in SUBSET Topics,
                 connections' = [connections EXCEPT ![id].topics = @ \cup topics]
          PROVE  \E some \in SUBSET Topics :
                   connections' = [connections EXCEPT ![id].topics = some]
      <4>1. connections[id].topics \cup topics \in SUBSET Topics
        BY <2>1
      <4> QED
        BY <3>2, <4>1
    <3>3. ASSUME NEW topics \in SUBSET Topics,
                 connections' = [connections EXCEPT ![id].topics = @ \ topics]
          PROVE  \E some \in SUBSET Topics :
                   connections' = [connections EXCEPT ![id].topics = some]
      <4>1. connections[id].topics \ topics \in SUBSET Topics
        BY <2>1
      <4> QED
        BY <3>3, <4>1
    <3> QED
      BY <2>2, <3>1, <3>2, <3>3
  <2>4. UNCHANGED <<sockets, tenantOf, tenantIds, moved, broadcasts, finished, serials, sent>>
    BY <1>4 DEF Subscribe, Unsubscribe, GrowIdle
  <2> QED
    BY <2>3, <2>4, EntryKeeps
<1>5. ASSUME NEW id \in DOMAIN connections, NEW ok \in BOOLEAN, SendTo(id, ok)
      PROVE  SocketInv'
  BY <1>5, SendToKeeps
<1>6. CASE CleanupStale
  BY <1>6, CleanupKeeps
<1>7. ASSUME NEW c \in Calls, NEW tenant \in SocketTenants, BroadcastToTenant(c, tenant)
      PROVE  SocketInv'
  BY <1>7, BroadcastToTenantKeeps
<1>8. ASSUME NEW c \in Calls, NEW excluded \in SocketTenants \cup {None},
             BroadcastToAll(c, excluded)
      PROVE  SocketInv'
  BY <1>8, BroadcastToAllKeeps
<1>9. ASSUME NEW c \in Calls, NEW target, NEW ok \in BOOLEAN, SendNext(c, target, ok)
      PROVE  SocketInv'
  BY <1>9, SendNextKeeps
<1>10. ASSUME NEW c \in Calls, EndBroadcast(c)
       PROVE  SocketInv'
  BY <1>10, EndBroadcastKeeps
<1> QED
  BY <1>1, <1>2, <1>3, <1>4, <1>5, <1>6, <1>7, <1>8, <1>9, <1>10 DEF SocketNext

----------------------------------------------------------------------------
\* The invariant of the connection manager holds: the table and the sockets agree, the
\* index by tenant (_tenant_connections) is off only at ids where a route changed a
\* tenant, and each broadcast under way has everyone it is due to before it or behind it,
\* whatever the ids of the sockets.
THEOREM SocketInvariant == SocketSpec => []SocketInv
BY SocketInitHolds, SocketStepHolds, PTL DEF SocketSpec

\* The index lists every connection under the tenant it joined with, and nothing else but
\* ids at which a tenant was changed; a broadcast that ended reached everyone it was due
\* to who is still connected, and nobody of the excluded tenant, although tenants change
\* and ids are used again while it waits at its sends.
THEOREM BroadcastsReachCorrect == SocketSpec => []BroadcastsReach
<1>1. ASSUME SocketInv PROVE BroadcastsReach
  BY <1>1 DEF SocketInv, IndexInv, FinishedInv, BroadcastsReach
<1> QED
  BY <1>1, SocketInvariant, PTL
=================================================================================
