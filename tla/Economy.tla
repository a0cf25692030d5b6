-------------------------------- MODULE Economy --------------------------------
(***************************************************************************)
(* The money of the platform: the billing engine's accounts, revenue       *)
(* shares, usage and invoices; the agent economy and the plugin runtime    *)
(* that sell through it; the revenue-share engine, the usage service, the  *)
(* two marketplace stores and the agent service over them.                 *)
(*                                                                         *)
(* Publishing an event suspends a request.  Where nothing but the event is *)
(* left to do, the request is one action; the requests that change state   *)
(* after an event wait in "calls".  Amounts are whole units, of which the  *)
(* prices are chosen so that every percentage is exact.  Names, dates,     *)
(* texts, licences and currencies are left out.                            *)
(***************************************************************************)
EXTENDS Sums, FiniteSets, SequencesExt

CONSTANTS
  Tenants, AgentIds, Calls, None,
  AgentShare,      \* agent_revenue_share: [creator, platform, affiliate], in percent
  PluginShare,     \* plugin_revenue_share: [developer, platform]
  Pricings,        \* [model, price, perCall] an agent may be given
  PluginPrices, Categories,
  PageLimit,       \* listings in one answer of the store: "limit", 50 in the code
  PluginLimit, RequestLimit, BooksLimit   \* bounds: plugins made, requests served, and
                             \* the last of them that may be one to the books alone

\* Tenants have generated ids; "platform" is the payee of the platform's fee.
ASSUME PartiesAssumption ==
  /\ "platform" \notin Tenants /\ None \notin AgentIds
  /\ IsFiniteSet(Tenants) /\ IsFiniteSet(Calls)

\* The percentages of a price are whole numbers, and no share is empty.
Exact(prices, table) ==
  \A price \in prices, k \in DOMAIN table : (price * table[k]) % 100 = 0

ASSUME SharesAssumption ==
  /\ AgentShare \in [{"creator", "platform", "affiliate"} -> 1..100]
  /\ AgentShare.creator + AgentShare.platform + AgentShare.affiliate = 100
  /\ PluginShare \in [{"developer", "platform"} -> 1..100]
  /\ PluginShare.developer + PluginShare.platform = 100
  /\ Pricings \subseteq [model : {"flat", "per_call"}, price : Nat, perCall : Nat]
  /\ Exact(UNION {{p.price, p.perCall} : p \in Pricings}, AgentShare)
  /\ PluginPrices \subseteq Nat /\ Exact(PluginPrices, PluginShare)

ASSUME PageAssumption == PageLimit \in Nat

VARIABLES
  books,   \* BillingEngine, RevenueShareEngine and UsageService
  market,  \* AgentEconomy, AgentStore and the configurations of the runtime
  store,   \* PluginRuntime, PluginStore
  calls,   \* requests waiting for an event or for a plugin to end
  served

vars == <<books, market, store, calls, served>>

Idle == [op |-> "idle"]

Init ==
  /\ books = [accounts |-> [t \in Tenants |-> [earned |-> 0, spent |-> 0, balance |-> 0]],
              granted  |-> [t \in Tenants |-> 0],   \* of the credits, those a client added
              shares   |-> <<>>, usage |-> <<>>, invoices |-> <<>>, subscriptions |-> <<>>,
              contracts |-> {}, payouts |-> <<>>, records |-> <<>>, quotas |-> <<>>]
  /\ market = [agents |-> <<>>, configs |-> {}, purchases |-> <<>>, reviews |-> <<>>,
               listings |-> <<>>]
  /\ store = [plugins |-> <<>>, installed |-> [t \in Tenants |-> <<>>], listings |-> <<>>,
              files |-> 0, abandoned |-> 0, unstarted |-> 0]
  /\ calls = [c \in Calls |-> Idle]
  /\ served = 0

Put(f, k, v) == [x \in DOMAIN f \cup {k} |-> IF x = k THEN v ELSE f[x]]
Lookup(f, k, default) == IF k \in DOMAIN f THEN f[k] ELSE default
Percent(amount, percent) == (amount * percent) \div 100

Serve == served < RequestLimit /\ served' = served + 1
Now == served + 1               \* the id of what this request makes
Free(c) == calls[c] = Idle
Finish(c) == calls' = [calls EXCEPT ![c] = Idle]

-----------------------------------------------------------------------------
(* BillingEngine: from one state of the books to the next.                   *)

AddCredits(b, t, amount) ==
  [b EXCEPT !.accounts[t] = [earned |-> @.earned + amount, spent |-> @.spent,
                             balance |-> @.earned + amount - @.spent]]

\* Mutant: the balance is what it was.
RecordUsageOnly(b, t, amount) ==
  [b EXCEPT !.usage = Append(@, [tenant |-> t, amount |-> amount]),
            !.accounts[t].spent = @ + amount]

RecordUsage(b, t, amount) ==
  [b EXCEPT !.usage = Append(@, [tenant |-> t, amount |-> amount]),
            !.accounts[t] = [earned |-> @.earned, spent |-> @.spent + amount,
                             balance |-> @.earned - (@.spent + amount)]]

ShareEntry(b, type, tx, from, to, amount) ==
  IF amount = 0 THEN b
  ELSE [b EXCEPT !.shares = Append(@, [type |-> type, tx |-> tx, from |-> from, to |-> to,
                                       amount |-> amount])]

Distribute(b, type, tx, buyer, seller, fee, cut) ==
  LET paid == ShareEntry(b, type, tx, buyer, "platform", fee)
  IN  ShareEntry(IF cut > 0 THEN AddCredits(paid, seller, cut) ELSE paid,
                 type, tx, buyer, seller, cut)

\* The share of an affiliate is computed and booked for nobody; the buyer's account
\* is not charged.
DistributeAgentRevenue(b, tx, buyer, seller, amount) ==
  Distribute(b, "agent", tx, buyer, seller,
             Percent(amount, AgentShare.platform), Percent(amount, AgentShare.creator))

DistributePluginRevenue(b, tx, buyer, seller, amount) ==
  Distribute(b, "plugin", tx, buyer, seller,
             Percent(amount, PluginShare.platform), Percent(amount, PluginShare.developer))

CreateInvoice(b, t, amount) ==
  [b EXCEPT !.invoices = Append(@, [tenant |-> t, amount |-> amount, status |-> "pending",
                                    receipts |-> 0])]

\* No status is tested: an invoice paid again is acknowledged again.
PayInvoice(b, i) ==
  LET invoice == b.invoices[i]
  IN  [b EXCEPT !.invoices[i] = [invoice EXCEPT !.status = "paid", !.receipts = @ + 1]]

CreateSubscription(b, t, tier) ==
  [b EXCEPT !.subscriptions = Append(@, [tenant |-> t, tier |-> tier])]

\* The oldest one that is active; nothing deactivates a subscription.
GetSubscription(b, t) ==
  LET own == {i \in DOMAIN b.subscriptions : b.subscriptions[i].tenant = t}
  IN  IF own = {} THEN None
      ELSE b.subscriptions[CHOOSE i \in own : \A j \in own : i <= j].tier

-----------------------------------------------------------------------------
(* RevenueShareEngine and UsageService *)

CreateContract(b, t, creator, platform, affiliate) ==
  IF creator + platform + affiliate # 100 THEN b
  ELSE [b EXCEPT !.contracts = @ \cup {[tenant |-> t, creator |-> creator]}]

\* A table of shares without a creator, as that of plugins, raises before any change.
DistributeRevenue(b, tx, seller, amount, table) ==
  IF "creator" \notin DOMAIN table \/ amount = 0 THEN b
  ELSE AddCredits([b EXCEPT !.payouts = Append(@, [tenant |-> seller, tx |-> tx,
                                                   amount |-> Percent(amount, table.creator)])],
                  seller, Percent(amount, table.creator))

GetTotalRevenue(b, t) == Total(b.payouts, LAMBDA p : p.tenant = t, LAMBDA p : p.amount)

TrackUsage(b, t, resource, quantity, cost) ==
  LET noted == [b EXCEPT !.records = Append(@, [tenant |-> t, resource |-> resource,
                                                quantity |-> quantity, cost |-> cost])]
  IN  IF cost > 0 THEN RecordUsage(noted, t, cost) ELSE noted

GetUsageSummary(b, t) ==
  [calls |-> Total(b.records, LAMBDA r : r.tenant = t, LAMBDA r : r.quantity),
   cost  |-> Total(b.records, LAMBDA r : r.tenant = t, LAMBDA r : r.cost),
   by    |-> [k \in {"agent", "plugin"} |->
                Total(b.records, LAMBDA r : r.tenant = t /\ r.resource = k, LAMBDA r : r.quantity)]]

SetQuota(b, t, resource, quota) == [b EXCEPT !.quotas = Put(@, <<t, resource>>, quota)]

\* A quota is reported and never enforced; one of 0 or less is no quota.
CheckQuota(b, t, resource) ==
  LET quota == Lookup(b.quotas, <<t, resource>>, -1)
      used  == GetUsageSummary(b, t).by[resource]
  IN  IF quota > 0 THEN [limited |-> TRUE, remaining |-> quota - used]
      ELSE [limited |-> FALSE, remaining |-> 0]

-----------------------------------------------------------------------------
(* Requests that only touch the books *)

BooksOnly(b) ==
  /\ Serve /\ served < BooksLimit
  /\ books' = b /\ UNCHANGED <<market, store, calls>>

PostCredits(t, amount) ==
  BooksOnly([AddCredits(books, t, amount) EXCEPT !.granted[t] = @ + amount])

PostUsage(t, resource, quantity, cost) ==
  BooksOnly(TrackUsage(books, t, resource, quantity, cost))

PostInvoice(t, amount) == BooksOnly(CreateInvoice(books, t, amount))
PostPayment(i) == BooksOnly(PayInvoice(books, i))

-----------------------------------------------------------------------------
(* AgentService and AgentEconomy *)

\* The asset can be found, published and bought before the runtime knows it.
RegisterAgent(c, a, t, pricing, category) ==
  /\ Serve /\ Free(c) /\ a \notin DOMAIN market.agents
  /\ market' = [market EXCEPT !.agents = Put(@, a,
       [tenant |-> t, status |-> "draft", pricing |-> pricing, category |-> category,
        purchases |-> 0, revenue |-> 0, rating |-> <<0, 0>>])]
  /\ calls' = [calls EXCEPT ![c] = [op |-> "create_agent", agent |-> a]]
  /\ UNCHANGED <<books, store>>

AgentRegistered(c) ==
  /\ calls[c].op = "create_agent"
  /\ market' = [market EXCEPT !.configs = @ \cup {calls[c].agent}]
  /\ Finish(c) /\ UNCHANGED <<books, store, served>>

PublishAgent(a) ==
  /\ Serve /\ a \in DOMAIN market.agents
  /\ market' = [market EXCEPT !.agents[a].status = "published"]
  /\ UNCHANGED <<books, store, calls>>

\* Mutant: a new price makes the agent a draft again.
UpdatePricingOfDraft(a, pricing) ==
  /\ Serve /\ a \in DOMAIN market.agents
  /\ market' = [market EXCEPT !.agents[a].pricing = pricing, !.agents[a].status = "draft"]
  /\ UNCHANGED <<books, store, calls>>

UpdatePricing(a, pricing) ==
  /\ Serve /\ a \in DOMAIN market.agents
  /\ market' = [market EXCEPT !.agents[a].pricing = pricing]
  /\ UNCHANGED <<books, store, calls>>

Amount(pricing) == IF pricing.model = "per_call" THEN pricing.perCall ELSE pricing.price

\* Mutant: the shares are those of the listed price.
PurchaseAgentListed(a, buyer) ==
  /\ Serve /\ a \in DOMAIN market.agents /\ market.agents[a].status = "published"
  /\ LET agent == market.agents[a]
         amount == Amount(agent.pricing)
     IN  /\ market' = [market EXCEPT
              !.purchases = Append(@, [tx |-> Now, agent |-> a, buyer |-> buyer, amount |-> amount]),
              !.agents[a].purchases = @ + 1, !.agents[a].revenue = @ + amount]
         /\ books' = DistributeAgentRevenue(books, Now, buyer, agent.tenant, agent.pricing.price)
  /\ UNCHANGED <<store, calls>>

PurchaseAgent(a, buyer) ==
  /\ Serve /\ a \in DOMAIN market.agents
  /\ LET agent == market.agents[a]
         amount == Amount(agent.pricing)
     IN  /\ agent.status = "published"
         /\ market' = [market EXCEPT
              !.purchases = Append(@, [tx |-> Now, agent |-> a, buyer |-> buyer, amount |-> amount]),
              !.agents[a].purchases = @ + 1, !.agents[a].revenue = @ + amount]
         /\ books' = DistributeAgentRevenue(books, Now, buyer, agent.tenant, amount)
  /\ UNCHANGED <<store, calls>>

\* The review is kept before the agent is looked up, so one of an unknown agent,
\* None, is kept and then refused.
AddReview(a, rating) ==
  /\ Serve /\ a \in DOMAIN market.agents \cup {None}
  /\ LET all == Append(Lookup(market.reviews, a, <<>>), rating)
         kept == [market EXCEPT !.reviews = Put(@, a, all)]
     IN  market' = IF a \notin DOMAIN market.agents THEN kept
                   ELSE [kept EXCEPT !.agents[a].rating = <<SumList(all), Len(all)>>]
  /\ UNCHANGED <<books, store, calls>>

\* AgentStore: a listing is filed under the category its agent has now.
ListAgent(a, featured) ==
  /\ Serve /\ a \in DOMAIN market.agents
  /\ market' = [market EXCEPT !.listings = Append(@, [agent |-> a, featured |-> featured,
                                               category |-> market.agents[a].category])]
  /\ UNCHANGED <<books, store, calls>>

Matching(m, category, featuredOnly) ==
  {i \in DOMAIN m.listings :
     LET l == m.listings[i] IN
     /\ featuredOnly => l.featured
     /\ category # None => l.category = category
     /\ l.agent \in DOMAIN m.agents /\ m.agents[l.agent].status = "published"}

Newer(m, category, featuredOnly, i) == {j \in Matching(m, category, featuredOnly) : j > i}

\* The first page, sorted as it is by default, newest first, and cut.
ListMarketplace(m, category, featuredOnly) ==
  {i \in Matching(m, category, featuredOnly) :
     Cardinality(Newer(m, category, featuredOnly, i)) < PageLimit}

-----------------------------------------------------------------------------
(* PluginRuntime.  A plugin is the number of its registration.               *)

RegisterPlugin(t, price, hasCode, mode) ==
  /\ Serve /\ Len(store.plugins) < PluginLimit
  /\ store' = [store EXCEPT !.plugins = Append(@,
       [tenant |-> t, status |-> "draft", price |-> price, code |-> hasCode, mode |-> mode,
        versions |-> 1, installs |-> 0, revenue |-> 0])]
  /\ UNCHANGED <<books, market, calls>>

PublishPlugin(p) ==
  /\ Serve
  /\ store' = [store EXCEPT !.plugins[p].status = "published"]
  /\ UNCHANGED <<books, market, calls>>

AddVersion(p) ==
  /\ Serve
  /\ store' = [store EXCEPT !.plugins[p].versions = @ + 1]
  /\ UNCHANGED <<books, market, calls>>

\* An installed plugin is not installed twice, and is paid for each time.
InstallPlugin(c, p, t) ==
  /\ Serve /\ store.plugins[p].status = "published"
  /\ store' = IF Contains(store.installed[t], p) THEN store
              ELSE [store EXCEPT !.installed[t] = Append(@, p), !.plugins[p].installs = @ + 1]
  /\ IF store.plugins[p].price = 0 THEN UNCHANGED <<books, calls>>
     ELSE /\ Free(c)
          /\ books' = DistributePluginRevenue(books, Now, t, store.plugins[p].tenant,
                                              store.plugins[p].price)
          /\ calls' = [calls EXCEPT ![c] = [op |-> "install", plugin |-> p]]
  /\ UNCHANGED market

\* Back from the event of the shares: only now is the plugin credited.
PluginPaid(c) ==
  /\ calls[c].op = "install"
  /\ store' = [store EXCEPT !.plugins[calls[c].plugin].revenue
                              = @ + store.plugins[calls[c].plugin].price]
  /\ Finish(c) /\ UNCHANGED <<books, market, served>>

\* A process gets a temporary file; the restricted mode runs inside the request.
ExecutePlugin(c, p, t) ==
  /\ Serve /\ Contains(store.installed[t], p)
  /\ store.plugins[p].code
  /\ IF store.plugins[p].mode = "restricted" THEN UNCHANGED <<store, calls>>
     ELSE /\ Free(c)
          /\ store' = [store EXCEPT !.files = @ + 1]
          /\ calls' = [calls EXCEPT ![c] = [op |-> "execute", plugin |-> p]]
  /\ UNCHANGED <<books, market>>

PluginEnds(c) ==
  /\ calls[c].op = "execute"
  /\ store' = [store EXCEPT !.files = @ - 1]
  /\ Finish(c) /\ UNCHANGED <<books, market, served>>

\* After 30 seconds the file and the process are left as they are.
PluginTimesOut(c) ==
  /\ calls[c].op = "execute"
  /\ store' = [store EXCEPT !.abandoned = @ + 1]
  /\ Finish(c) /\ UNCHANGED <<books, market, served>>

\* The process cannot be started: the exception becomes the answer, the file stays.
PluginFails(c) ==
  /\ calls[c].op = "execute"
  /\ store' = [store EXCEPT !.unstarted = @ + 1]
  /\ Finish(c) /\ UNCHANGED <<books, market, served>>

ListPlugin(p) ==
  /\ Serve
  /\ store' = [store EXCEPT !.listings = Append(@, p)]
  /\ UNCHANGED <<books, market, calls>>

-----------------------------------------------------------------------------
BooksStep ==
  \E t \in Tenants :
    \/ PostCredits(t, 10)
    \/ \E k \in {"agent", "plugin"}, n \in {1, 2}, cost \in {0, 10} : PostUsage(t, k, n, cost)
    \/ PostInvoice(t, 10)
    \/ BooksOnly(RecordUsage(books, t, 10))
    \/ \E tier \in {"free", "pro"} : BooksOnly(CreateSubscription(books, t, tier))
    \/ \E creator \in {70, 80} : BooksOnly(CreateContract(books, t, creator, 15, 15))
    \/ \E table \in {AgentShare, PluginShare} : BooksOnly(DistributeRevenue(books, Now, t, 20, table))
    \/ BooksOnly(SetQuota(books, t, "agent", 3))

AgentStep(a) ==
  \/ PublishAgent(a)
  \/ \E pricing \in Pricings : UpdatePricing(a, pricing)
  \/ \E t \in Tenants : PurchaseAgent(a, t)
  \/ \E rating \in {1, 5} : AddReview(a, rating) \/ AddReview(None, rating)
  \/ \E featured \in BOOLEAN : ListAgent(a, featured)
  \/ \E c \in Calls, t \in Tenants, pricing \in Pricings, k \in Categories :
       RegisterAgent(c, a, t, pricing, k)

PluginStep(p) ==
  \/ PublishPlugin(p) \/ AddVersion(p) \/ ListPlugin(p)
  \/ \E c \in Calls, t \in Tenants : InstallPlugin(c, p, t) \/ ExecutePlugin(c, p, t)

Next ==
  \/ BooksStep
  \/ \E i \in DOMAIN books.invoices : PostPayment(i)
  \/ \E a \in AgentIds : AgentStep(a)
  \/ \E t \in Tenants, price \in PluginPrices, code \in BOOLEAN, mode \in {"process", "restricted"} :
       RegisterPlugin(t, price, code, mode)
  \/ \E p \in DOMAIN store.plugins : PluginStep(p)
  \/ \E c \in Calls : \/ AgentRegistered(c) \/ PluginPaid(c)
                     \/ PluginEnds(c) \/ PluginTimesOut(c) \/ PluginFails(c)

Spec == Init /\ [][Next]_vars

-----------------------------------------------------------------------------
(* Properties *)

Used(t) == Total(books.usage, LAMBDA r : r.tenant = t, LAMBDA r : r.amount)
SharesTo(t) == Total(books.shares, LAMBDA e : e.to = t, LAMBDA e : e.amount)
Shared(tx) == Total(books.shares, LAMBDA e : e.tx = tx, LAMBDA e : e.amount)
Entries(tx) == Total(books.shares, LAMBDA e : e.tx = tx, LAMBDA e : 1)

\* Every account agrees with the tables that other reports are made from: what a
\* tenant earned is what clients granted it, its shares and its payouts; what it
\* spent is its recorded usage; the tracked usage that costs was all charged.
\* (Five operations of three services change an account, each with its own table.)
BooksBalance ==
  \A t \in Tenants :
    LET account == books.accounts[t] IN
    /\ account.balance = account.earned - account.spent
    /\ account.earned = books.granted[t] + SharesTo(t) + GetTotalRevenue(books, t)
    /\ account.spent = Used(t)
    /\ GetUsageSummary(books, t).cost <= account.spent

\* A sale is shared once: the entries of a purchase add up to its amount less the
\* share of the affiliate, at the price of the time of sale, whatever it was
\* changed to since; the totals of an agent are those of its purchases, its rating
\* counts every review kept for it; and the runtime knows an agent that can be
\* found and bought, or its registration is still on the way.
AgentsAccounted ==
  /\ \A i \in DOMAIN market.purchases :
       LET sale == market.purchases[i] IN
       /\ Shared(sale.tx) = sale.amount - Percent(sale.amount, AgentShare.affiliate)
       /\ \A j \in DOMAIN books.shares :
            books.shares[j].tx = sale.tx => books.shares[j].from = sale.buyer
       /\ Entries(sale.tx) \in {0, 2}
  /\ \A a \in DOMAIN market.agents :
       LET agent   == market.agents[a]
           ratings == Lookup(market.reviews, a, <<>>)
       IN  /\ agent.purchases = Total(market.purchases, LAMBDA s : s.agent = a, LAMBDA s : 1)
           /\ agent.revenue = Total(market.purchases, LAMBDA s : s.agent = a, LAMBDA s : s.amount)
           /\ agent.rating = <<SumList(ratings), Len(ratings)>>
           /\ \/ a \in market.configs
              \/ \E c \in Calls : calls[c] = [op |-> "create_agent", agent |-> a]

\* What plugins earned, with the installs that are still waiting for their event,
\* is what was shared for plugins; a plugin is installed once for each tenant that
\* lists it; and each temporary file belongs to a process that runs, or to one that was
\* abandoned after its time, or to one that could not be started.
Waiting(op) == {c \in Calls : calls[c].op = op}
Unpaid(p) == {c \in Waiting("install") : calls[c].plugin = p}

InstallsAccounted ==
  /\ Total(books.shares, LAMBDA e : e.type = "plugin", LAMBDA e : e.amount)
       = SumList([p \in 1..Len(store.plugins) |->
                store.plugins[p].revenue + store.plugins[p].price * Cardinality(Unpaid(p))])
  /\ \A p \in DOMAIN store.plugins :
       store.plugins[p].installs = Cardinality({t \in Tenants : Contains(store.installed[t], p)})
  /\ \A t \in Tenants : IsInjective(store.installed[t])
  /\ store.files = Cardinality(Waiting("execute")) + store.abandoned + store.unstarted

\* Every sale, of an agent or of a plugin, is shared once and counted once, although the
\* shares, the counters and the events are written one after the other; and what the
\* processes of plugins leave behind is accounted for, however they end.
SalesAccounted == AgentsAccounted /\ InstallsAccounted

\* What clients were shown stays: a listing leaves the first page of the marketplace, or
\* of its category, only when newer ones fill the page; a tenant's subscription stays the
\* first it got, even when it asks for another tier; what remains of a quota shrinks until
\* the quota is set anew.
ShownStays ==
  [][/\ \A k \in Categories \cup {None}, featured \in BOOLEAN :
          \A i \in ListMarketplace(market, k, featured) :
            \/ i \in ListMarketplace(market', k, featured)
            \/ Cardinality(Newer(market', k, featured, i)) >= PageLimit
     /\ \A t \in Tenants :
          /\ GetSubscription(books, t) \in {None, GetSubscription(books', t)}
          /\ books'.quotas = books.quotas =>
               CheckQuota(books', t, "agent").remaining <= CheckQuota(books, t, "agent").remaining]_vars
================================================================================
