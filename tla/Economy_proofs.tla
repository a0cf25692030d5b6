----------------------------- MODULE Economy_proofs -----------------------------
(***************************************************************************)
(* Proofs about Economy, for any tenants, agents, prices and shares, and   *)
(* any number of requests that wait.                                       *)
(***************************************************************************)
EXTENDS Economy, FiniteSetTheorems, WellFoundedInduction, TLAPS

\* A set of natural numbers that is not empty has a least member.
LEMMA LeastMember ==
  ASSUME NEW S \in SUBSET Nat, S # {}
  PROVE  \E n \in S : \A m \in S : n <= m
<1>1. PICK n \in S : \A m \in S : ~ (<<m, n>> \in OpToRel(<, Nat))
  BY NatLessThanWellFounded, WFMin
<1>2. \A m \in S : ~ (m < n)
  BY <1>1 DEF OpToRel
<1> QED
  BY <1>2

----------------------------------------------------------------------------
(* Sums. *)

\* f holds the partial sums of s.
Partial(f, s) ==
  /\ f \in [0..Len(s) -> Int]
  /\ f[0] = 0
  /\ \A n \in 1..Len(s) : f[n] = f[n - 1] + s[n]

LEMMA PartialExists ==
  ASSUME NEW s \in Seq(Int)
  PROVE  \E f : Partial(f, s)
<1> DEFINE Upto(k, f) == /\ f \in [0..k -> Int] /\ f[0] = 0
                         /\ \A n \in 1..k : f[n] = f[n - 1] + s[n]
           bad == {k \in 0..Len(s) : ~ \E f : Upto(k, f)}
<1>1. CASE bad = {}
  <2>1. Len(s) \in 0..Len(s)
    OBVIOUS
  <2>2. \E f : Upto(Len(s), f)
    BY <1>1, <2>1
  <2> QED
    BY <2>2 DEF Partial
<1>2. CASE bad # {}
  <2>1. PICK k \in bad : \A m \in bad : k <= m
    <3>1. bad \in SUBSET Nat
      OBVIOUS
    <3> HIDE DEF bad
    <3> QED
      BY <1>2, <3>1, LeastMember
  <2>2. CASE k = 0
    <3>1. Upto(0, [n \in 0..0 |-> 0])
      OBVIOUS
    <3> QED
      BY <2>2, <3>1
  <2>3. CASE k # 0
    <3>1. k \in 1..Len(s) /\ k - 1 \in 0..Len(s) /\ k - 1 \notin bad
      <4>1. k \in 0..Len(s)
        BY <2>1
      <4>2. k \in 1..Len(s) /\ k - 1 \in 0..Len(s) /\ ~ (k <= k - 1)
        BY <2>3, <4>1
      <4> HIDE DEF bad
      <4> QED
        BY <2>1, <4>2
    <3>2. PICK f : Upto(k - 1, f)
      BY <3>1
    <3> DEFINE g == [n \in 0..k |-> IF n = k THEN f[k - 1] + s[k] ELSE f[n]]
    <3>3. s[k] \in Int /\ f[k - 1] \in Int
      BY <3>1, <3>2
    <3>4. g \in [0..k -> Int] /\ g[0] = 0
      BY <3>1, <3>2, <3>3
    <3>5. ASSUME NEW n \in 1..k PROVE g[n] = g[n - 1] + s[n]
      <4>1. n \in 0..k /\ n - 1 \in 0..k /\ n - 1 # k
        BY <3>1
      <4>2. g[n - 1] = f[n - 1]
        BY <4>1
      <4>3. CASE n = k
        BY <4>1, <4>2, <4>3
      <4>4. CASE n # k
        <5>1. n \in 1..(k - 1) /\ g[n] = f[n]
          BY <3>1, <4>1, <4>4
        <5> QED
          BY <3>2, <4>2, <5>1
      <4> QED
        BY <4>3, <4>4
    <3>6. Upto(k, g)
      BY <3>4, <3>5
    <3> QED
      BY <2>1, <3>6
  <2> QED
    BY <2>2, <2>3
<1> QED
  BY <1>1, <1>2

LEMMA PartialUnique ==
  ASSUME NEW s \in Seq(Int), NEW f, NEW g, Partial(f, s), Partial(g, s)
  PROVE  f = g
<1> DEFINE bad == {n \in 0..Len(s) : f[n] # g[n]}
<1>1. CASE bad = {}
  BY SMTT(30), <1>1 DEF Partial
<1>2. CASE bad # {}
  <2>1. PICK n \in bad : \A m \in bad : n <= m
    <3>1. bad \in SUBSET Nat
      OBVIOUS
    <3> HIDE DEF bad
    <3> QED
      BY <1>2, <3>1, LeastMember
  <2>2. n # 0
    BY <2>1 DEF Partial
  <2>3. n - 1 \in 0..Len(s) /\ n - 1 \notin bad
    BY <2>1, <2>2
  <2> QED
    BY <2>1, <2>2, <2>3 DEF Partial
<1> QED
  BY <1>1, <1>2

\* Whatever holds the partial sums ends with the sum.
LEMMA SumIs ==
  ASSUME NEW s \in Seq(Int), NEW f, Partial(f, s)
  PROVE  SumList(s) = f[Len(s)]
<1> DEFINE upto == CHOOSE g : g = [n \in 0..Len(s) |-> IF n = 0 THEN 0 ELSE g[n - 1] + s[n]]
<1>1. f = [n \in 0..Len(s) |-> IF n = 0 THEN 0 ELSE f[n - 1] + s[n]]
  BY DEF Partial
<1>2. upto = [n \in 0..Len(s) |-> IF n = 0 THEN 0 ELSE upto[n - 1] + s[n]]
  BY <1>1
<1> HIDE DEF upto
<1>3. Partial(upto, s)
  <2>1. upto[0] = 0 /\ \A n \in 1..Len(s) : upto[n] = upto[n - 1] + s[n]
    <3>1. \A n \in 0..Len(s) : upto[n] = IF n = 0 THEN 0 ELSE upto[n - 1] + s[n]
      BY <1>2, Zenon
    <3>2. 0 \in 0..Len(s) /\ \A n \in 1..Len(s) : n \in 0..Len(s) /\ n # 0
      OBVIOUS
    <3> QED
      BY <3>1, <3>2, Zenon
  <2>2. \A n \in 0..Len(s) : upto[n] = f[n]
    <3> DEFINE bad == {n \in 0..Len(s) : upto[n] # f[n]}
    <3>1. bad \in SUBSET Nat
      OBVIOUS
    <3>2. CASE bad # {}
      <4>1. PICK n \in bad : \A m \in bad : n <= m
        <5> HIDE DEF bad
        <5> QED
          BY <3>1, <3>2, LeastMember
      <4>2. n # 0
        BY <2>1, <4>1 DEF Partial
      <4>3. n - 1 \in 0..Len(s) /\ n - 1 \notin bad
        BY <4>1, <4>2
      <4> QED
        BY <2>1, <4>1, <4>2, <4>3 DEF Partial
    <3> QED
      BY <3>2
  <2>3. upto \in [0..Len(s) -> Int]
    BY <1>2, <2>2 DEF Partial
  <2> QED
    BY <2>1, <2>3 DEF Partial
<1>4. upto = f
  BY <1>3, PartialUnique
<1>5. SumList(s) = upto[Len(s)]
  BY DEF SumList, upto
<1> QED
  BY <1>4, <1>5

LEMMA SumType ==
  ASSUME NEW s \in Seq(Int)
  PROVE  SumList(s) \in Int
<1>1. PICK f : Partial(f, s)
  BY PartialExists
<1>2. Len(s) \in 0..Len(s)
  OBVIOUS
<1>3. SumList(s) = f[Len(s)]
  BY <1>1, SumIs
<1> QED
  BY <1>1, <1>2, <1>3 DEF Partial

LEMMA SumEmpty == SumList(<<>>) = 0
<1>1. <<>> \in Seq(Int) /\ Len(<<>>) = 0
  OBVIOUS
<1>2. PICK f : Partial(f, <<>>)
  BY <1>1, PartialExists
<1>3. SumList(<<>>) = f[0]
  BY <1>1, <1>2, SumIs
<1> QED
  BY <1>2, <1>3 DEF Partial

LEMMA SumAppend ==
  ASSUME NEW s \in Seq(Int), NEW x \in Int
  PROVE  SumList(Append(s, x)) = SumList(s) + x
<1>1. PICK f : Partial(f, s)
  BY PartialExists
<1> DEFINE r == Append(s, x)
           g == [n \in 0..Len(r) |-> IF n = Len(r) THEN f[Len(s)] + x ELSE f[n]]
<1>2. /\ r \in Seq(Int) /\ Len(r) = Len(s) + 1 /\ Len(s) \in Nat /\ r[Len(r)] = x
      /\ \A n \in 1..Len(s) : r[n] = s[n]
  OBVIOUS
<1> HIDE DEF r
<1>3. f[Len(s)] \in Int
  BY <1>1, <1>2 DEF Partial
<1>4. Partial(g, r)
  <2>1. g \in [0..Len(r) -> Int] /\ g[0] = 0
    BY <1>1, <1>2, <1>3 DEF Partial
  <2>2. ASSUME NEW n \in 1..Len(r) PROVE g[n] = g[n - 1] + r[n]
    <3>1. n \in 0..Len(r) /\ n - 1 \in 0..Len(r) /\ n - 1 # Len(r)
      BY <1>2
    <3>2. g[n - 1] = f[n - 1]
      BY <3>1
    <3>3. CASE n = Len(r)
      BY <1>2, <3>1, <3>2, <3>3
    <3>4. CASE n # Len(r)
      <4>1. n \in 1..Len(s) /\ g[n] = f[n] /\ r[n] = s[n]
        BY <1>2, <3>1, <3>4
      <4> QED
        BY <1>1, <3>2, <4>1 DEF Partial
    <3> QED
      BY <3>3, <3>4
  <2> QED
    BY <2>1, <2>2 DEF Partial
<1>5. g[Len(r)] = f[Len(s)] + x
  BY <1>2
<1> QED
  BY <1>1, <1>2, <1>4, <1>5, SumIs DEF r

\* One element grows by d.
LEMMA SumChanged ==
  ASSUME NEW s \in Seq(Int), NEW r \in Seq(Int), Len(r) = Len(s), NEW i \in 1..Len(s),
         NEW d \in Int, r[i] = s[i] + d, \A n \in 1..Len(s) : n # i => r[n] = s[n]
  PROVE  SumList(r) = SumList(s) + d
<1>1. PICK f : Partial(f, s)
  BY PartialExists
<1> DEFINE g == [n \in 0..Len(r) |-> IF n < i THEN f[n] ELSE f[n] + d]
<1>2. Partial(g, r)
  <2>1. g \in [0..Len(r) -> Int] /\ g[0] = 0
    BY <1>1 DEF Partial
  <2>2. ASSUME NEW n \in 1..Len(r) PROVE g[n] = g[n - 1] + r[n]
    <3>1. n \in 1..Len(s) /\ n \in 0..Len(s) /\ n - 1 \in 0..Len(s)
      OBVIOUS
    <3>2. f[n - 1] \in Int /\ s[n] \in Int /\ f[n] = f[n - 1] + s[n]
      <4>1. s[n] \in Int
        BY <3>1
      <4>2. f \in [0..Len(s) -> Int] /\ \A m \in 1..Len(s) : f[m] = f[m - 1] + s[m]
        BY <1>1 DEF Partial
      <4> QED
        BY <3>1, <4>1, <4>2
    <3>6. /\ g[n] = IF n < i THEN f[n] ELSE f[n] + d
          /\ g[n - 1] = IF n - 1 < i THEN f[n - 1] ELSE f[n - 1] + d
      BY <3>1
    <3> HIDE DEF g
    <3>3. CASE n < i
      BY <3>1, <3>2, <3>3, <3>6
    <3>4. CASE n = i
      BY <3>1, <3>2, <3>4, <3>6
    <3>5. CASE n > i
      BY SMTT(30), <3>1, <3>2, <3>5, <3>6
    <3> QED
      BY <3>1, <3>3, <3>4, <3>5
  <2> QED
    BY <2>1, <2>2 DEF Partial
<1>3. g[Len(r)] = f[Len(s)] + d
  OBVIOUS
<1> QED
  BY <1>1, <1>2, <1>3, SumIs

LEMMA SumZero ==
  ASSUME NEW s \in Seq(Int), \A n \in 1..Len(s) : s[n] = 0
  PROVE  SumList(s) = 0
<1> DEFINE f == [n \in 0..Len(s) |-> 0]
<1>1. Partial(f, s)
  BY DEF Partial
<1>2. f[Len(s)] = 0
  OBVIOUS
<1> QED
  BY <1>1, <1>2, SumIs

\* Lists of integers, given by their length.
LEMMA ListOf ==
  ASSUME NEW n \in Nat, NEW s \in [1..n -> Int]
  PROVE  s \in Seq(Int) /\ Len(s) = n
OBVIOUS

LEMMA SumExtended ==
  ASSUME NEW n \in Nat, NEW s \in [1..n -> Int], NEW r \in [1..(n + 1) -> Int],
         \A i \in 1..n : r[i] = s[i]
  PROVE  SumList(s) \in Int /\ SumList(r) = SumList(s) + r[n + 1]
<1>1. s \in Seq(Int) /\ Len(s) = n /\ r \in Seq(Int) /\ Len(r) = n + 1
  BY ListOf
<1>2. r[n + 1] \in Int /\ r = Append(s, r[n + 1])
  BY <1>1
<1> QED
  BY <1>1, <1>2, SumAppend, SumType

----------------------------------------------------------------------------
(* The types of the books and of the rows of their tables. *)

\* Functions on a part of K.
Partly(K, V) == UNION {[S -> V] : S \in SUBSET K}

Resources == {"agent", "plugin"}
Account == [earned : Int, spent : Int, balance : Int]
Share == [type : Resources, tx : Nat, from : Tenants, to : Tenants \cup {"platform"}, amount : Nat]
Use == [tenant : Tenants, amount : Nat]
Invoice == [tenant : Tenants, amount : Nat, status : {"pending", "paid"}, receipts : Nat]
Subscription == [tenant : Tenants, tier : {"free", "pro"}]
Payout == [tenant : Tenants, tx : Nat, amount : Nat]
Record == [tenant : Tenants, resource : Resources, quantity : Nat, cost : Nat]
Quotas == Partly(Tenants \X Resources, Int)

Books ==
  [accounts : [Tenants -> Account], granted : [Tenants -> Int], shares : Seq(Share),
   usage : Seq(Use), invoices : Seq(Invoice), subscriptions : Seq(Subscription),
   contracts : SUBSET [tenant : Tenants, creator : Int], payouts : Seq(Payout),
   records : Seq(Record), quotas : Quotas]

\* The totals that the properties take, of a table.
UsedIn(rows, t) == Total(rows, LAMBDA r : r.tenant = t, LAMBDA r : r.amount)
SharesIn(rows, t) == Total(rows, LAMBDA e : e.to = t, LAMBDA e : e.amount)
SharedIn(rows, tx) == Total(rows, LAMBDA e : e.tx = tx, LAMBDA e : e.amount)
EntriesIn(rows, tx) == Total(rows, LAMBDA e : e.tx = tx, LAMBDA e : 1)
PluginsIn(rows) == Total(rows, LAMBDA e : e.type = "plugin", LAMBDA e : e.amount)
PaidIn(rows, t) == Total(rows, LAMBDA p : p.tenant = t, LAMBDA p : p.amount)
CostIn(rows, t) == Total(rows, LAMBDA r : r.tenant = t, LAMBDA r : r.cost)
UnitsIn(rows, t, k) ==
  Total(rows, LAMBDA r : r.tenant = t /\ r.resource = k, LAMBDA r : r.quantity)

\* What a table adds up to, when each row counts for val.
SumOf(val, rows) == SumList([i \in 1..Len(rows) |-> val[rows[i]]])

\* One more row adds its value; rows that count for nothing add nothing.
LEMMA SumOfRows ==
  ASSUME NEW Row, NEW val \in [Row -> Int], NEW rows \in Seq(Row)
  PROVE  /\ SumOf(val, rows) \in Int
         /\ \A row \in Row : SumOf(val, Append(rows, row)) = SumOf(val, rows) + val[row]
         /\ (\A i \in 1..Len(rows) : val[rows[i]] = 0) => SumOf(val, rows) = 0
<1> DEFINE s == [i \in 1..Len(rows) |-> val[rows[i]]]
<1>1. Len(rows) \in Nat /\ s \in [1..Len(rows) -> Int]
  OBVIOUS
<1>2. ASSUME NEW row \in Row PROVE SumOf(val, Append(rows, row)) = SumOf(val, rows) + val[row]
  <2> DEFINE more == Append(rows, row)
             r == [i \in 1..Len(more) |-> val[more[i]]]
  <2>1. /\ Len(more) = Len(rows) + 1 /\ more[Len(more)] = row
        /\ \A i \in 1..Len(rows) : more[i] = rows[i]
        /\ \A i \in 1..Len(more) : more[i] \in Row
    OBVIOUS
  <2> HIDE DEF more
  <2>2. r \in [1..(Len(rows) + 1) -> Int]
    BY <1>1, <2>1
  <2>3. r[Len(rows) + 1] = val[row] /\ \A i \in 1..Len(rows) : r[i] = s[i]
    BY <1>1, <2>1
  <2>4. SumOf(val, rows) = SumList(s) /\ SumOf(val, more) = SumList(r)
    BY DEF SumOf
  <2> HIDE DEF s, r
  <2> QED
    BY <1>1, <2>2, <2>3, <2>4, SumExtended DEF more
<1>3. s \in Seq(Int) /\ Len(s) = Len(rows)
  BY <1>1, ListOf
<1>4. SumOf(val, rows) = SumList(s)
  BY DEF SumOf
<1>5. (\A i \in 1..Len(rows) : val[rows[i]] = 0) => \A i \in 1..Len(s) : s[i] = 0
  BY <1>3
<1> HIDE DEF s
<1> QED
  BY <1>2, <1>3, <1>4, <1>5, SumType, SumZero

LEMMA UsedRows ==
  ASSUME NEW rows \in Seq(Use), NEW t
  PROVE  /\ UsedIn(rows, t) \in Int
         /\ \A row \in Use : UsedIn(Append(rows, row), t)
              = UsedIn(rows, t) + (IF row.tenant = t THEN row.amount ELSE 0)
         /\ (\A i \in 1..Len(rows) : ~ (rows[i].tenant = t)) => UsedIn(rows, t) = 0
<1> DEFINE val == [x \in Use |-> IF x.tenant = t THEN x.amount ELSE 0]
<1>1. val \in [Use -> Int]
  BY DEF Use
<1>2. ASSUME NEW q \in Seq(Use) PROVE UsedIn(q, t) = SumOf(val, q)
  <2>1. [i \in 1..Len(q) |-> IF q[i].tenant = t THEN q[i].amount ELSE 0]
          = [i \in 1..Len(q) |-> val[q[i]]]
    OBVIOUS
  <2> HIDE DEF val
  <2> QED
    BY <2>1 DEF UsedIn, Total, SumOf
<1>3. \A row \in Use : Append(rows, row) \in Seq(Use)
  OBVIOUS
<1>4. \A row \in Use : val[row] = (IF row.tenant = t THEN row.amount ELSE 0)
  OBVIOUS
<1>5. \A i \in 1..Len(rows) : rows[i] \in Use
  OBVIOUS
<1> HIDE DEF val
<1>6. /\ SumOf(val, rows) \in Int
      /\ \A row \in Use : SumOf(val, Append(rows, row)) = SumOf(val, rows) + val[row]
      /\ (\A i \in 1..Len(rows) : val[rows[i]] = 0) => SumOf(val, rows) = 0
  BY <1>1, SumOfRows
<1> QED
  BY <1>2, <1>3, <1>4, <1>5, <1>6

LEMMA SharesRows ==
  ASSUME NEW rows \in Seq(Share), NEW t
  PROVE  /\ SharesIn(rows, t) \in Int
         /\ \A row \in Share : SharesIn(Append(rows, row), t)
              = SharesIn(rows, t) + (IF row.to = t THEN row.amount ELSE 0)
         /\ (\A i \in 1..Len(rows) : ~ (rows[i].to = t)) => SharesIn(rows, t) = 0
<1> DEFINE val == [x \in Share |-> IF x.to = t THEN x.amount ELSE 0]
<1>1. val \in [Share -> Int]
  BY DEF Share
<1>2. ASSUME NEW q \in Seq(Share) PROVE SharesIn(q, t) = SumOf(val, q)
  <2>1. [i \in 1..Len(q) |-> IF q[i].to = t THEN q[i].amount ELSE 0]
          = [i \in 1..Len(q) |-> val[q[i]]]
    OBVIOUS
  <2> HIDE DEF val
  <2> QED
    BY <2>1 DEF SharesIn, Total, SumOf
<1>3. \A row \in Share : Append(rows, row) \in Seq(Share)
  OBVIOUS
<1>4. \A row \in Share : val[row] = (IF row.to = t THEN row.amount ELSE 0)
  OBVIOUS
<1>5. \A i \in 1..Len(rows) : rows[i] \in Share
  OBVIOUS
<1> HIDE DEF val
<1>6. /\ SumOf(val, rows) \in Int
      /\ \A row \in Share : SumOf(val, Append(rows, row)) = SumOf(val, rows) + val[row]
      /\ (\A i \in 1..Len(rows) : val[rows[i]] = 0) => SumOf(val, rows) = 0
  BY <1>1, SumOfRows
<1> QED
  BY <1>2, <1>3, <1>4, <1>5, <1>6

LEMMA SharedRows ==
  ASSUME NEW rows \in Seq(Share), NEW tx
  PROVE  /\ SharedIn(rows, tx) \in Int
         /\ \A row \in Share : SharedIn(Append(rows, row), tx)
              = SharedIn(rows, tx) + (IF row.tx = tx THEN row.amount ELSE 0)
         /\ (\A i \in 1..Len(rows) : ~ (rows[i].tx = tx)) => SharedIn(rows, tx) = 0
<1> DEFINE val == [x \in Share |-> IF x.tx = tx THEN x.amount ELSE 0]
<1>1. val \in [Share -> Int]
  BY DEF Share
<1>2. ASSUME NEW q \in Seq(Share) PROVE SharedIn(q, tx) = SumOf(val, q)
  <2>1. [i \in 1..Len(q) |-> IF q[i].tx = tx THEN q[i].amount ELSE 0]
          = [i \in 1..Len(q) |-> val[q[i]]]
    OBVIOUS
  <2> HIDE DEF val
  <2> QED
    BY <2>1 DEF SharedIn, Total, SumOf
<1>3. \A row \in Share : Append(rows, row) \in Seq(Share)
  OBVIOUS
<1>4. \A row \in Share : val[row] = (IF row.tx = tx THEN row.amount ELSE 0)
  OBVIOUS
<1>5. \A i \in 1..Len(rows) : rows[i] \in Share
  OBVIOUS
<1> HIDE DEF val
<1>6. /\ SumOf(val, rows) \in Int
      /\ \A row \in Share : SumOf(val, Append(rows, row)) = SumOf(val, rows) + val[row]
      /\ (\A i \in 1..Len(rows) : val[rows[i]] = 0) => SumOf(val, rows) = 0
  BY <1>1, SumOfRows
<1> QED
  BY <1>2, <1>3, <1>4, <1>5, <1>6

LEMMA EntriesRows ==
  ASSUME NEW rows \in Seq(Share), NEW tx
  PROVE  /\ EntriesIn(rows, tx) \in Int
         /\ \A row \in Share : EntriesIn(Append(rows, row), tx)
              = EntriesIn(rows, tx) + (IF row.tx = tx THEN 1 ELSE 0)
         /\ (\A i \in 1..Len(rows) : ~ (rows[i].tx = tx)) => EntriesIn(rows, tx) = 0
<1> DEFINE val == [x \in Share |-> IF x.tx = tx THEN 1 ELSE 0]
<1>1. val \in [Share -> Int]
  BY DEF Share
<1>2. ASSUME NEW q \in Seq(Share) PROVE EntriesIn(q, tx) = SumOf(val, q)
  <2>1. [i \in 1..Len(q) |-> IF q[i].tx = tx THEN 1 ELSE 0]
          = [i \in 1..Len(q) |-> val[q[i]]]
    OBVIOUS
  <2> HIDE DEF val
  <2> QED
    BY <2>1 DEF EntriesIn, Total, SumOf
<1>3. \A row \in Share : Append(rows, row) \in Seq(Share)
  OBVIOUS
<1>4. \A row \in Share : val[row] = (IF row.tx = tx THEN 1 ELSE 0)
  OBVIOUS
<1>5. \A i \in 1..Len(rows) : rows[i] \in Share
  OBVIOUS
<1> HIDE DEF val
<1>6. /\ SumOf(val, rows) \in Int
      /\ \A row \in Share : SumOf(val, Append(rows, row)) = SumOf(val, rows) + val[row]
      /\ (\A i \in 1..Len(rows) : val[rows[i]] = 0) => SumOf(val, rows) = 0
  BY <1>1, SumOfRows
<1> QED
  BY <1>2, <1>3, <1>4, <1>5, <1>6

LEMMA PluginsRows ==
  ASSUME NEW rows \in Seq(Share)
  PROVE  /\ PluginsIn(rows) \in Int
         /\ \A row \in Share : PluginsIn(Append(rows, row))
              = PluginsIn(rows) + (IF row.type = "plugin" THEN row.amount ELSE 0)
         /\ (\A i \in 1..Len(rows) : ~ (rows[i].type = "plugin")) => PluginsIn(rows) = 0
<1> DEFINE val == [x \in Share |-> IF x.type = "plugin" THEN x.amount ELSE 0]
<1>1. val \in [Share -> Int]
  BY DEF Share
<1>2. ASSUME NEW q \in Seq(Share) PROVE PluginsIn(q) = SumOf(val, q)
  <2>1. [i \in 1..Len(q) |-> IF q[i].type = "plugin" THEN q[i].amount ELSE 0]
          = [i \in 1..Len(q) |-> val[q[i]]]
    OBVIOUS
  <2> HIDE DEF val
  <2> QED
    BY <2>1 DEF PluginsIn, Total, SumOf
<1>3. \A row \in Share : Append(rows, row) \in Seq(Share)
  OBVIOUS
<1>4. \A row \in Share : val[row] = (IF row.type = "plugin" THEN row.amount ELSE 0)
  OBVIOUS
<1>5. \A i \in 1..Len(rows) : rows[i] \in Share
  OBVIOUS
<1> HIDE DEF val
<1>6. /\ SumOf(val, rows) \in Int
      /\ \A row \in Share : SumOf(val, Append(rows, row)) = SumOf(val, rows) + val[row]
      /\ (\A i \in 1..Len(rows) : val[rows[i]] = 0) => SumOf(val, rows) = 0
  BY <1>1, SumOfRows
<1> QED
  BY <1>2, <1>3, <1>4, <1>5, <1>6

LEMMA PaidRows ==
  ASSUME NEW rows \in Seq(Payout), NEW t
  PROVE  /\ PaidIn(rows, t) \in Int
         /\ \A row \in Payout : PaidIn(Append(rows, row), t)
              = PaidIn(rows, t) + (IF row.tenant = t THEN row.amount ELSE 0)
         /\ (\A i \in 1..Len(rows) : ~ (rows[i].tenant = t)) => PaidIn(rows, t) = 0
<1> DEFINE val == [x \in Payout |-> IF x.tenant = t THEN x.amount ELSE 0]
<1>1. val \in [Payout -> Int]
  BY DEF Payout
<1>2. ASSUME NEW q \in Seq(Payout) PROVE PaidIn(q, t) = SumOf(val, q)
  <2>1. [i \in 1..Len(q) |-> IF q[i].tenant = t THEN q[i].amount ELSE 0]
          = [i \in 1..Len(q) |-> val[q[i]]]
    OBVIOUS
  <2> HIDE DEF val
  <2> QED
    BY <2>1 DEF PaidIn, Total, SumOf
<1>3. \A row \in Payout : Append(rows, row) \in Seq(Payout)
  OBVIOUS
<1>4. \A row \in Payout : val[row] = (IF row.tenant = t THEN row.amount ELSE 0)
  OBVIOUS
<1>5. \A i \in 1..Len(rows) : rows[i] \in Payout
  OBVIOUS
<1> HIDE DEF val
<1>6. /\ SumOf(val, rows) \in Int
      /\ \A row \in Payout : SumOf(val, Append(rows, row)) = SumOf(val, rows) + val[row]
      /\ (\A i \in 1..Len(rows) : val[rows[i]] = 0) => SumOf(val, rows) = 0
  BY <1>1, SumOfRows
<1> QED
  BY <1>2, <1>3, <1>4, <1>5, <1>6

LEMMA CostRows ==
  ASSUME NEW rows \in Seq(Record), NEW t
  PROVE  /\ CostIn(rows, t) \in Int
         /\ \A row \in Record : CostIn(Append(rows, row), t)
              = CostIn(rows, t) + (IF row.tenant = t THEN row.cost ELSE 0)
         /\ (\A i \in 1..Len(rows) : ~ (rows[i].tenant = t)) => CostIn(rows, t) = 0
<1> DEFINE val == [x \in Record |-> IF x.tenant = t THEN x.cost ELSE 0]
<1>1. val \in [Record -> Int]
  BY DEF Record
<1>2. ASSUME NEW q \in Seq(Record) PROVE CostIn(q, t) = SumOf(val, q)
  <2>1. [i \in 1..Len(q) |-> IF q[i].tenant = t THEN q[i].cost ELSE 0]
          = [i \in 1..Len(q) |-> val[q[i]]]
    OBVIOUS
  <2> HIDE DEF val
  <2> QED
    BY <2>1 DEF CostIn, Total, SumOf
<1>3. \A row \in Record : Append(rows, row) \in Seq(Record)
  OBVIOUS
<1>4. \A row \in Record : val[row] = (IF row.tenant = t THEN row.cost ELSE 0)
  OBVIOUS
<1>5. \A i \in 1..Len(rows) : rows[i] \in Record
  OBVIOUS
<1> HIDE DEF val
<1>6. /\ SumOf(val, rows) \in Int
      /\ \A row \in Record : SumOf(val, Append(rows, row)) = SumOf(val, rows) + val[row]
      /\ (\A i \in 1..Len(rows) : val[rows[i]] = 0) => SumOf(val, rows) = 0
  BY <1>1, SumOfRows
<1> QED
  BY <1>2, <1>3, <1>4, <1>5, <1>6

LEMMA UnitsRows ==
  ASSUME NEW rows \in Seq(Record), NEW t, NEW k
  PROVE  /\ UnitsIn(rows, t, k) \in Int
         /\ \A row \in Record : UnitsIn(Append(rows, row), t, k)
              = UnitsIn(rows, t, k) + (IF row.tenant = t /\ row.resource = k THEN row.quantity ELSE 0)
         /\ (\A i \in 1..Len(rows) : ~ (rows[i].tenant = t /\ rows[i].resource = k)) => UnitsIn(rows, t, k) = 0
<1> DEFINE val == [x \in Record |-> IF x.tenant = t /\ x.resource = k THEN x.quantity ELSE 0]
<1>1. val \in [Record -> Int]
  BY DEF Record
<1>2. ASSUME NEW q \in Seq(Record) PROVE UnitsIn(q, t, k) = SumOf(val, q)
  <2>1. [i \in 1..Len(q) |-> IF q[i].tenant = t /\ q[i].resource = k THEN q[i].quantity ELSE 0]
          = [i \in 1..Len(q) |-> val[q[i]]]
    OBVIOUS
  <2> HIDE DEF val
  <2> QED
    BY <2>1 DEF UnitsIn, Total, SumOf
<1>3. \A row \in Record : Append(rows, row) \in Seq(Record)
  OBVIOUS
<1>4. \A row \in Record : val[row] = (IF row.tenant = t /\ row.resource = k THEN row.quantity ELSE 0)
  OBVIOUS
<1>5. \A i \in 1..Len(rows) : rows[i] \in Record
  OBVIOUS
<1> HIDE DEF val
<1>6. /\ SumOf(val, rows) \in Int
      /\ \A row \in Record : SumOf(val, Append(rows, row)) = SumOf(val, rows) + val[row]
      /\ (\A i \in 1..Len(rows) : val[rows[i]] = 0) => SumOf(val, rows) = 0
  BY <1>1, SumOfRows
<1> QED
  BY <1>2, <1>3, <1>4, <1>5, <1>6

----------------------------------------------------------------------------
(* What the operations of the billing engine do to the books. *)

\* The rows that ShareEntry keeps.
Booked(rows, row) == IF row.amount = 0 THEN rows ELSE Append(rows, row)

LEMMA BookedDoes ==
  ASSUME NEW rows \in Seq(Share), NEW row \in Share
  PROVE  LET new == Booked(rows, row) IN
         /\ new \in Seq(Share)
         /\ \A j \in DOMAIN new : (j \in DOMAIN rows /\ new[j] = rows[j]) \/ new[j] = row
         /\ \A t : SharesIn(new, t) = SharesIn(rows, t) + (IF row.to = t THEN row.amount ELSE 0)
         /\ \A x : SharedIn(new, x) = SharedIn(rows, x) + (IF row.tx = x THEN row.amount ELSE 0)
         /\ \A x : EntriesIn(new, x)
                     = EntriesIn(rows, x) + (IF row.tx = x /\ row.amount # 0 THEN 1 ELSE 0)
         /\ PluginsIn(new) = PluginsIn(rows) + (IF row.type = "plugin" THEN row.amount ELSE 0)
<1> DEFINE new == Booked(rows, row)
<1>1. /\ \A t : SharesIn(rows, t) \in Int
      /\ \A x : SharedIn(rows, x) \in Int /\ EntriesIn(rows, x) \in Int
      /\ PluginsIn(rows) \in Int
  BY SharesRows, SharedRows, EntriesRows, PluginsRows
<1>2. CASE row.amount = 0
  <2>1. new = rows
    BY <1>2 DEF Booked
  <2> HIDE DEF new
  <2> QED
    BY <1>1, <1>2, <2>1 DEF new
<1>3. CASE row.amount # 0
  <2>1. new = Append(rows, row)
    BY <1>3 DEF Booked
  <2>2. /\ \A t : SharesIn(new, t) = SharesIn(rows, t) + (IF row.to = t THEN row.amount ELSE 0)
        /\ \A x : SharedIn(new, x) = SharedIn(rows, x) + (IF row.tx = x THEN row.amount ELSE 0)
        /\ \A x : EntriesIn(new, x) = EntriesIn(rows, x) + (IF row.tx = x THEN 1 ELSE 0)
        /\ PluginsIn(new) = PluginsIn(rows) + (IF row.type = "plugin" THEN row.amount ELSE 0)
    BY <2>1, SharesRows, SharedRows, EntriesRows, PluginsRows
  <2>3. /\ new \in Seq(Share)
        /\ \A j \in DOMAIN new : (j \in DOMAIN rows /\ new[j] = rows[j]) \/ new[j] = row
    BY <2>1
  <2> HIDE DEF new
  <2> QED
    BY <1>3, <2>2, <2>3 DEF new
<1> QED
  BY <1>2, <1>3

LEMMA AddCreditsDoes ==
  ASSUME NEW b \in Books, NEW t \in Tenants, NEW amount \in Int
  PROVE  /\ AddCredits(b, t, amount) \in Books
         /\ AddCredits(b, t, amount)
              = [b EXCEPT !.accounts = AddCredits(b, t, amount).accounts]
         /\ AddCredits(b, t, amount).accounts
              = [b.accounts EXCEPT ![t] = [earned |-> b.accounts[t].earned + amount,
                                           spent |-> b.accounts[t].spent,
                                           balance |-> b.accounts[t].earned + amount
                                                         - b.accounts[t].spent]]
<1> DEFINE new == [b.accounts EXCEPT ![t] = [earned |-> b.accounts[t].earned + amount,
                                             spent |-> b.accounts[t].spent,
                                             balance |-> b.accounts[t].earned + amount
                                                           - b.accounts[t].spent]]
<1>1. b.accounts \in [Tenants -> Account]
  BY DEF Books
<1>2. new \in [Tenants -> Account]
  BY <1>1 DEF Account
<1>3. AddCredits(b, t, amount) = [b EXCEPT !.accounts = new]
  BY DEF AddCredits, Books
<1> HIDE DEF new
<1>4. [b EXCEPT !.accounts = new].accounts = new /\ [b EXCEPT !.accounts = new] \in Books
  BY <1>2 DEF Books
<1> QED
  BY <1>3, <1>4 DEF new

\* Shares of a sale: the rows they add, and the credit of the seller.
Sold(b, d, type, tx, buyer, seller, fee, cut) ==
  /\ d \in Books
  /\ d = [b EXCEPT !.shares = d.shares, !.accounts = d.accounts]
  /\ \A t \in Tenants :
       /\ d.accounts[t].earned = b.accounts[t].earned + (IF t = seller THEN cut ELSE 0)
       /\ d.accounts[t].spent = b.accounts[t].spent
       /\ \/ d.accounts[t].balance = d.accounts[t].earned - d.accounts[t].spent
          \/ d.accounts[t] = b.accounts[t]
       /\ SharesIn(d.shares, t) = SharesIn(b.shares, t) + (IF t = seller THEN cut ELSE 0)
  /\ \A j \in DOMAIN d.shares :
       \/ j \in DOMAIN b.shares /\ d.shares[j] = b.shares[j]
       \/ d.shares[j].tx = tx /\ d.shares[j].from = buyer
  /\ \A x : SharedIn(d.shares, x) = SharedIn(b.shares, x) + (IF tx = x THEN fee + cut ELSE 0)
  /\ \A x : EntriesIn(d.shares, x) = EntriesIn(b.shares, x)
              + (IF tx = x /\ fee # 0 THEN 1 ELSE 0) + (IF tx = x /\ cut # 0 THEN 1 ELSE 0)
  /\ PluginsIn(d.shares) = PluginsIn(b.shares) + (IF type = "plugin" THEN fee + cut ELSE 0)

LEMMA DistributeDoes ==
  ASSUME NEW b \in Books, NEW type \in Resources, NEW tx \in Nat, NEW buyer \in Tenants,
         NEW seller \in Tenants, NEW fee \in Nat, NEW cut \in Nat
  PROVE  Sold(b, Distribute(b, type, tx, buyer, seller, fee, cut),
              type, tx, buyer, seller, fee, cut)
<1> DEFINE row1 == [type |-> type, tx |-> tx, from |-> buyer, to |-> "platform", amount |-> fee]
           row2 == [type |-> type, tx |-> tx, from |-> buyer, to |-> seller, amount |-> cut]
           one  == Booked(b.shares, row1)
           two  == Booked(one, row2)
           credited == AddCredits(b, seller, cut).accounts
           accounts == IF cut > 0 THEN credited ELSE b.accounts
           d    == Distribute(b, type, tx, buyer, seller, fee, cut)
<1>1. row1 \in Share /\ row2 \in Share /\ b.shares \in Seq(Share)
  BY DEF Share, Books
<1>2. one \in Seq(Share)
  BY <1>1, BookedDoes
<1>3. two \in Seq(Share)
  BY <1>1, <1>2, BookedDoes
<1>4. d = [b EXCEPT !.shares = two, !.accounts = accounts]
  <2>1. ShareEntry(b, type, tx, buyer, "platform", fee) = [b EXCEPT !.shares = one]
    BY DEF ShareEntry, Booked, Books
  <2>2. AddCredits([b EXCEPT !.shares = one], seller, cut)
          = [b EXCEPT !.shares = one, !.accounts = credited]
    BY DEF AddCredits, Books
  <2> DEFINE paid == [b EXCEPT !.shares = one, !.accounts = accounts]
  <2>3. d = ShareEntry(paid, type, tx, buyer, seller, cut)
    BY <2>1, <2>2 DEF Distribute, Books
  <2> HIDE DEF d, one, accounts
  <2>4. paid.shares = one /\ \A rows : [paid EXCEPT !.shares = rows] = [b EXCEPT !.shares = rows, !.accounts = accounts]
    BY DEF Books
  <2> HIDE DEF paid
  <2>5. CASE cut = 0
    <3>1. d = paid /\ two = one
      BY <2>3, <2>5 DEF ShareEntry, Booked
    <3> QED
      BY <2>4, <3>1 DEF paid
  <2>6. CASE cut # 0
    <3>1. d = [paid EXCEPT !.shares = Append(one, row2)] /\ two = Append(one, row2)
      BY <2>3, <2>4, <2>6 DEF ShareEntry, Booked
    <3> QED
      BY <2>4, <3>1
  <2> QED
    BY <2>5, <2>6
<1> HIDE DEF d
<1>5. /\ b.accounts \in [Tenants -> Account]
      /\ accounts \in [Tenants -> Account]
      /\ \A t \in Tenants :
           /\ accounts[t].earned = b.accounts[t].earned + (IF t = seller THEN cut ELSE 0)
           /\ accounts[t].spent = b.accounts[t].spent
           /\ \/ accounts[t].balance = accounts[t].earned - accounts[t].spent
              \/ accounts[t] = b.accounts[t]
  <2>1. b.accounts \in [Tenants -> Account]
    BY DEF Books
  <2>2. credited = [b.accounts EXCEPT ![seller] = [earned |-> b.accounts[seller].earned + cut,
                                           spent |-> b.accounts[seller].spent,
                                           balance |-> b.accounts[seller].earned + cut
                                                         - b.accounts[seller].spent]]
    BY AddCreditsDoes
  <2> HIDE DEF credited
  <2> QED
    BY <2>1, <2>2 DEF Account
<1> HIDE DEF accounts
<1>6. /\ d \in Books /\ d.shares = two /\ d.accounts = accounts
      /\ d = [b EXCEPT !.shares = d.shares, !.accounts = d.accounts]
  <2> HIDE DEF two
  <2> QED
    BY <1>3, <1>4, <1>5 DEF Books
<1>7. /\ \A j \in DOMAIN one : (j \in DOMAIN b.shares /\ one[j] = b.shares[j]) \/ one[j] = row1
      /\ \A t : SharesIn(one, t) = SharesIn(b.shares, t) + (IF row1.to = t THEN row1.amount ELSE 0)
      /\ \A x : SharedIn(one, x) = SharedIn(b.shares, x) + (IF row1.tx = x THEN row1.amount ELSE 0)
      /\ \A x : EntriesIn(one, x)
                     = EntriesIn(b.shares, x) + (IF row1.tx = x /\ row1.amount # 0 THEN 1 ELSE 0)
      /\ PluginsIn(one) = PluginsIn(b.shares) + (IF row1.type = "plugin" THEN row1.amount ELSE 0)
  <2> HIDE DEF row1
  <2> QED
    BY <1>1, BookedDoes
<1>8. /\ \A j \in DOMAIN two : (j \in DOMAIN one /\ two[j] = one[j]) \/ two[j] = row2
      /\ \A t : SharesIn(two, t) = SharesIn(one, t) + (IF row2.to = t THEN row2.amount ELSE 0)
      /\ \A x : SharedIn(two, x) = SharedIn(one, x) + (IF row2.tx = x THEN row2.amount ELSE 0)
      /\ \A x : EntriesIn(two, x)
                     = EntriesIn(one, x) + (IF row2.tx = x /\ row2.amount # 0 THEN 1 ELSE 0)
      /\ PluginsIn(two) = PluginsIn(one) + (IF row2.type = "plugin" THEN row2.amount ELSE 0)
  <2> HIDE DEF row2, one
  <2> QED
    BY <1>1, <1>2, BookedDoes
<1> HIDE DEF one, two
<1>9. /\ \A t : SharesIn(b.shares, t) \in Int
      /\ \A x : SharedIn(b.shares, x) \in Int /\ EntriesIn(b.shares, x) \in Int
      /\ PluginsIn(b.shares) \in Int
  BY <1>1, SharesRows, SharedRows, EntriesRows, PluginsRows
<1>10. \A t \in Tenants :
         SharesIn(two, t) = SharesIn(b.shares, t) + (IF t = seller THEN cut ELSE 0)
  BY <1>7, <1>8, <1>9, PartiesAssumption
<1>11. \A j \in DOMAIN two :
         \/ j \in DOMAIN b.shares /\ two[j] = b.shares[j]
         \/ two[j].tx = tx /\ two[j].from = buyer
  BY <1>7, <1>8
<1>12. /\ \A x : SharedIn(two, x) = SharedIn(b.shares, x) + (IF tx = x THEN fee + cut ELSE 0)
       /\ \A x : EntriesIn(two, x) = EntriesIn(b.shares, x)
              + (IF tx = x /\ fee # 0 THEN 1 ELSE 0) + (IF tx = x /\ cut # 0 THEN 1 ELSE 0)
       /\ PluginsIn(two) = PluginsIn(b.shares) + (IF type = "plugin" THEN fee + cut ELSE 0)
  BY <1>7, <1>8, <1>9
<1> QED
  BY <1>5, <1>6, <1>10, <1>11, <1>12 DEF Sold, d

\* A percentage of an amount of which it is a whole number.
LEMMA PercentIs ==
  ASSUME NEW amount \in Nat, NEW percent \in 1..100, (amount * percent) % 100 = 0
  PROVE  /\ Percent(amount, percent) \in Nat
         /\ 100 * Percent(amount, percent) = amount * percent
         /\ amount # 0 => Percent(amount, percent) # 0
<1> DEFINE product == amount * percent
<1>1. product \in Nat /\ (amount # 0 => product # 0)
  OBVIOUS
<1>2. product % 100 = 0 /\ Percent(amount, percent) = product \div 100
  BY DEF Percent
<1> HIDE DEF product
<1>3. product \div 100 \in Nat /\ 100 * (product \div 100) = product
  BY <1>1, <1>2
<1>4. product # 0 => product \div 100 # 0
  BY <1>1, <1>3
<1> QED
  BY <1>1, <1>2, <1>3, <1>4 DEF product

LEMMA PercentNat ==
  ASSUME NEW amount \in Nat, NEW percent \in 1..100
  PROVE  Percent(amount, percent) \in Nat
<1> DEFINE product == amount * percent
<1>1. product \in Nat
  OBVIOUS
<1> HIDE DEF product
<1>2. product \div 100 \in Nat
  BY <1>1
<1> QED
  BY <1>2 DEF Percent, product

\* The shares of an agent's price: what is left of it is the affiliate's.
LEMMA AgentSplit ==
  ASSUME NEW amount \in Nat, \A k \in DOMAIN AgentShare : (amount * AgentShare[k]) % 100 = 0
  PROVE  /\ Percent(amount, AgentShare.platform) \in Nat
         /\ Percent(amount, AgentShare.creator) \in Nat
         /\ Percent(amount, AgentShare.platform) + Percent(amount, AgentShare.creator)
              = amount - Percent(amount, AgentShare.affiliate)
         /\ amount = 0 => /\ Percent(amount, AgentShare.platform) = 0
                          /\ Percent(amount, AgentShare.creator) = 0
         /\ amount # 0 => /\ Percent(amount, AgentShare.platform) # 0
                          /\ Percent(amount, AgentShare.creator) # 0
<1> DEFINE c == AgentShare.creator
           p == AgentShare.platform
           a == AgentShare.affiliate
<1>1. c \in 1..100 /\ p \in 1..100 /\ a \in 1..100 /\ c + p + a = 100
  BY SharesAssumption
<1>2. (amount * c) % 100 = 0 /\ (amount * p) % 100 = 0 /\ (amount * a) % 100 = 0
  BY SharesAssumption
<1> HIDE DEF c, p, a
<1>3. /\ Percent(amount, c) \in Nat /\ 100 * Percent(amount, c) = amount * c
      /\ amount # 0 => Percent(amount, c) # 0
  BY <1>1, <1>2, PercentIs
<1>4. /\ Percent(amount, p) \in Nat /\ 100 * Percent(amount, p) = amount * p
      /\ amount # 0 => Percent(amount, p) # 0
  BY <1>1, <1>2, PercentIs
<1>5. Percent(amount, a) \in Nat /\ 100 * Percent(amount, a) = amount * a
  BY <1>1, <1>2, PercentIs
<1>6. amount * c + amount * p + amount * a = amount * 100
  <2>1. amount * c + amount * p + amount * a = amount * (c + p + a)
    BY <1>1
  <2> QED
    BY <1>1, <2>1
<1>7. 100 * (Percent(amount, c) + Percent(amount, p) + Percent(amount, a)) = 100 * amount
  BY <1>3, <1>4, <1>5, <1>6
<1>8. amount = 0 => amount * c = 0 /\ amount * p = 0
  BY <1>1
<1>9. Percent(amount, c) + Percent(amount, p) + Percent(amount, a) = amount
  BY <1>3, <1>4, <1>5, <1>7
<1>10. amount = 0 => Percent(amount, c) = 0 /\ Percent(amount, p) = 0
  BY <1>3, <1>4, <1>8
<1> QED
  BY <1>3, <1>4, <1>5, <1>9, <1>10 DEF c, p, a

\* The shares of a plugin's price: nothing is left.
LEMMA PluginSplit ==
  ASSUME NEW amount \in PluginPrices
  PROVE  /\ Percent(amount, PluginShare.platform) \in Nat
         /\ Percent(amount, PluginShare.developer) \in Nat
         /\ Percent(amount, PluginShare.platform) + Percent(amount, PluginShare.developer) = amount
<1> DEFINE d == PluginShare.developer
           p == PluginShare.platform
<1>1. amount \in Nat /\ d \in 1..100 /\ p \in 1..100 /\ d + p = 100
  BY SharesAssumption
<1>2. (amount * d) % 100 = 0 /\ (amount * p) % 100 = 0
  BY SharesAssumption DEF Exact
<1> HIDE DEF d, p
<1>3. Percent(amount, d) \in Nat /\ 100 * Percent(amount, d) = amount * d
  BY <1>1, <1>2, PercentIs
<1>4. Percent(amount, p) \in Nat /\ 100 * Percent(amount, p) = amount * p
  BY <1>1, <1>2, PercentIs
<1>5. amount * d + amount * p = amount * 100
  <2>1. amount * d + amount * p = amount * (d + p)
    BY <1>1
  <2> QED
    BY <1>1, <2>1
<1>6. Percent(amount, d) + Percent(amount, p) = amount
  BY <1>1, <1>3, <1>4, <1>5
<1> QED
  BY <1>3, <1>4, <1>6 DEF d, p

----------------------------------------------------------------------------
(* The accounts agree with the tables. *)

Balanced(b) ==
  \A t \in Tenants :
    /\ b.accounts[t].balance = b.accounts[t].earned - b.accounts[t].spent
    /\ b.accounts[t].earned = b.granted[t] + SharesIn(b.shares, t) + PaidIn(b.payouts, t)
    /\ b.accounts[t].spent = UsedIn(b.usage, t)
    /\ CostIn(b.records, t) <= b.accounts[t].spent

LEMMA BalanceIs == BooksBalance <=> Balanced(books)
<1>1. \A t : /\ Used(t) = UsedIn(books.usage, t)
             /\ SharesTo(t) = SharesIn(books.shares, t)
             /\ GetTotalRevenue(books, t) = PaidIn(books.payouts, t)
             /\ GetUsageSummary(books, t).cost = CostIn(books.records, t)
  BY DEF Used, UsedIn, SharesTo, SharesIn, GetTotalRevenue, PaidIn, GetUsageSummary, CostIn
<1> QED
  BY <1>1 DEF BooksBalance, Balanced

LEMMA TotalsType ==
  ASSUME NEW b \in Books, NEW t
  PROVE  /\ SharesIn(b.shares, t) \in Int /\ PaidIn(b.payouts, t) \in Int
         /\ UsedIn(b.usage, t) \in Int /\ CostIn(b.records, t) \in Int
  BY SharesRows, PaidRows, UsedRows, CostRows DEF Books

\* An operation that leaves the shares alone.
Kept(b, d) == d \in Books /\ d.shares = b.shares /\ (Balanced(b) => Balanced(d))

LEMMA SoldBalanced ==
  ASSUME NEW b \in Books, NEW d, NEW type, NEW tx, NEW buyer, NEW seller \in Tenants,
         NEW fee \in Nat, NEW cut \in Nat, Sold(b, d, type, tx, buyer, seller, fee, cut),
         Balanced(b)
  PROVE  Balanced(d)
<1>1. /\ d.granted = b.granted /\ d.payouts = b.payouts /\ d.usage = b.usage
      /\ d.records = b.records
  BY DEF Sold, Books
<1>2. /\ b.accounts \in [Tenants -> Account] /\ d.accounts \in [Tenants -> Account]
      /\ b.granted \in [Tenants -> Int]
  BY DEF Sold, Books
<1> SUFFICES ASSUME NEW t \in Tenants
             PROVE  /\ d.accounts[t].balance = d.accounts[t].earned - d.accounts[t].spent
                    /\ d.accounts[t].earned
                         = d.granted[t] + SharesIn(d.shares, t) + PaidIn(d.payouts, t)
                    /\ d.accounts[t].spent = UsedIn(d.usage, t)
                    /\ CostIn(d.records, t) <= d.accounts[t].spent
  BY DEF Balanced
<1>3. /\ d.accounts[t].earned = b.accounts[t].earned + (IF t = seller THEN cut ELSE 0)
      /\ d.accounts[t].spent = b.accounts[t].spent
      /\ \/ d.accounts[t].balance = d.accounts[t].earned - d.accounts[t].spent
         \/ d.accounts[t] = b.accounts[t]
      /\ SharesIn(d.shares, t) = SharesIn(b.shares, t) + (IF t = seller THEN cut ELSE 0)
  BY DEF Sold
<1>4. /\ b.accounts[t].balance = b.accounts[t].earned - b.accounts[t].spent
      /\ b.accounts[t].earned = b.granted[t] + SharesIn(b.shares, t) + PaidIn(b.payouts, t)
      /\ b.accounts[t].spent = UsedIn(b.usage, t)
      /\ CostIn(b.records, t) <= b.accounts[t].spent
  BY DEF Balanced
<1>5. SharesIn(b.shares, t) \in Int /\ PaidIn(b.payouts, t) \in Int /\ b.granted[t] \in Int
  BY <1>2, TotalsType
<1> QED
  BY <1>1, <1>3, <1>4, <1>5

\* The books after a client added credits.
Posted(b, t, amount) == [AddCredits(b, t, amount) EXCEPT !.granted[t] = @ + amount]

LEMMA PostCreditsKept ==
  ASSUME NEW b \in Books, NEW t \in Tenants, NEW amount \in Int
  PROVE  Kept(b, Posted(b, t, amount))
<1> DEFINE credited == AddCredits(b, t, amount).accounts
           granted == [b.granted EXCEPT ![t] = @ + amount]
           d == [b EXCEPT !.accounts = credited, !.granted = granted]
<1>1. b.accounts \in [Tenants -> Account] /\ b.granted \in [Tenants -> Int]
  BY DEF Books
<1>2. /\ AddCredits(b, t, amount) = [b EXCEPT !.accounts = credited]
      /\ AddCredits(b, t, amount) \in Books
      /\ credited = [b.accounts EXCEPT ![t] = [earned |-> b.accounts[t].earned + amount,
                                               spent |-> b.accounts[t].spent,
                                               balance |-> b.accounts[t].earned + amount
                                                             - b.accounts[t].spent]]
  BY AddCreditsDoes
<1>3. granted \in [Tenants -> Int] /\ credited \in [Tenants -> Account]
  BY <1>1, <1>2 DEF Account
<1>4. Posted(b, t, amount) = d
  BY <1>2 DEF Books, Posted
<1> HIDE DEF credited, granted
<1>5. /\ d \in Books /\ d.shares = b.shares /\ d.payouts = b.payouts /\ d.usage = b.usage
      /\ d.records = b.records /\ d.accounts = credited /\ d.granted = granted
  BY <1>3 DEF Books
<1> HIDE DEF d
<1>6. ASSUME Balanced(b), NEW u \in Tenants
      PROVE  /\ credited[u].balance = credited[u].earned - credited[u].spent
             /\ credited[u].earned = granted[u] + SharesIn(b.shares, u) + PaidIn(b.payouts, u)
             /\ credited[u].spent = UsedIn(b.usage, u)
             /\ CostIn(b.records, u) <= credited[u].spent
  <2>1. /\ b.accounts[u].balance = b.accounts[u].earned - b.accounts[u].spent
        /\ b.accounts[u].earned = b.granted[u] + SharesIn(b.shares, u) + PaidIn(b.payouts, u)
        /\ b.accounts[u].spent = UsedIn(b.usage, u)
        /\ CostIn(b.records, u) <= b.accounts[u].spent
    BY <1>6 DEF Balanced
  <2>2. /\ SharesIn(b.shares, u) \in Int /\ PaidIn(b.payouts, u) \in Int /\ b.granted[u] \in Int
        /\ b.accounts[u] \in Account
    BY <1>1, TotalsType
  <2>3. CASE u = t
    <3>1. /\ credited[u].earned = b.accounts[u].earned + amount
          /\ credited[u].spent = b.accounts[u].spent
          /\ credited[u].balance = credited[u].earned - credited[u].spent
          /\ granted[u] = b.granted[u] + amount
      <4>1. credited[u] = [earned |-> b.accounts[t].earned + amount, spent |-> b.accounts[t].spent,
                           balance |-> b.accounts[t].earned + amount - b.accounts[t].spent]
        BY <1>1, <1>2, <2>3
      <4>2. granted[u] = b.granted[u] + amount
        BY <1>1, <2>3 DEF granted
      <4>3. b.accounts[t].earned \in Int /\ b.accounts[t].spent \in Int
        BY <1>1 DEF Account
      <4> QED
        BY <2>3, <4>1, <4>2, <4>3
    <3> QED
      BY <2>1, <2>2, <3>1
  <2>4. CASE u # t
    <3>1. credited[u] = b.accounts[u] /\ granted[u] = b.granted[u]
      BY <1>1, <1>2, <2>4 DEF granted
    <3> QED
      BY <2>1, <3>1
  <2> QED
    BY <2>3, <2>4
<1> QED
  BY <1>4, <1>5, <1>6 DEF Kept, Balanced

\* The rows that do not count for an account may change.
LEMMA UncountedKept ==
  ASSUME NEW b \in Books, NEW d \in Books, d.accounts = b.accounts, d.granted = b.granted,
         d.shares = b.shares, d.payouts = b.payouts, d.usage = b.usage, d.records = b.records
  PROVE  Kept(b, d)
BY DEF Kept, Balanced

\* Usage is a row and a charge of the same amount.
Charged(b, d, t, amount) ==
  /\ d \in Books
  /\ d = [b EXCEPT !.usage = d.usage, !.accounts = d.accounts]
  /\ \A u \in Tenants :
       /\ UsedIn(d.usage, u) = UsedIn(b.usage, u) + (IF u = t THEN amount ELSE 0)
       /\ d.accounts[u].earned = b.accounts[u].earned
       /\ d.accounts[u].spent = b.accounts[u].spent + (IF u = t THEN amount ELSE 0)
       /\ b.accounts[u].balance = b.accounts[u].earned - b.accounts[u].spent =>
            d.accounts[u].balance = d.accounts[u].earned - d.accounts[u].spent

LEMMA RecordUsageKept ==
  ASSUME NEW b \in Books, NEW t \in Tenants, NEW amount \in Nat
  PROVE  /\ Charged(b, RecordUsage(b, t, amount), t, amount)
         /\ Kept(b, RecordUsage(b, t, amount))
<1> DEFINE row == [tenant |-> t, amount |-> amount]
           usage == Append(b.usage, row)
           accounts == [b.accounts EXCEPT
                          ![t] = [earned |-> b.accounts[t].earned,
                                  spent |-> b.accounts[t].spent + amount,
                                  balance |-> b.accounts[t].earned
                                                - (b.accounts[t].spent + amount)]]
           d == [b EXCEPT !.usage = usage, !.accounts = accounts]
<1>1. b.accounts \in [Tenants -> Account] /\ b.usage \in Seq(Use) /\ row \in Use
  BY DEF Books, Use
<1>2. RecordUsage(b, t, amount) = d
  BY DEF RecordUsage, Books
<1>3. usage \in Seq(Use) /\ accounts \in [Tenants -> Account]
  BY <1>1 DEF Account
<1>4. \A u : UsedIn(usage, u) = UsedIn(b.usage, u) + (IF u = t THEN amount ELSE 0)
  BY <1>1, UsedRows
<1>5. \A u \in Tenants :
        /\ accounts[u].earned = b.accounts[u].earned
        /\ accounts[u].spent = b.accounts[u].spent + (IF u = t THEN amount ELSE 0)
        /\ b.accounts[u].balance = b.accounts[u].earned - b.accounts[u].spent =>
             accounts[u].balance = accounts[u].earned - accounts[u].spent
  BY <1>1 DEF Account
<1> HIDE DEF usage, accounts
<1>6. /\ d \in Books /\ d.shares = b.shares /\ d.payouts = b.payouts /\ d.usage = usage
      /\ d.records = b.records /\ d.accounts = accounts /\ d.granted = b.granted
  BY <1>3 DEF Books
<1> HIDE DEF d
<1>7. ASSUME Balanced(b), NEW u \in Tenants
      PROVE  /\ accounts[u].balance = accounts[u].earned - accounts[u].spent
             /\ accounts[u].earned = b.granted[u] + SharesIn(b.shares, u) + PaidIn(b.payouts, u)
             /\ accounts[u].spent = UsedIn(usage, u)
             /\ CostIn(b.records, u) <= accounts[u].spent
  <2>1. /\ b.accounts[u].balance = b.accounts[u].earned - b.accounts[u].spent
        /\ b.accounts[u].earned = b.granted[u] + SharesIn(b.shares, u) + PaidIn(b.payouts, u)
        /\ b.accounts[u].spent = UsedIn(b.usage, u)
        /\ CostIn(b.records, u) <= b.accounts[u].spent
    BY <1>7 DEF Balanced
  <2>2. UsedIn(b.usage, u) \in Int /\ CostIn(b.records, u) \in Int
    BY TotalsType
  <2> QED
    BY <1>4, <1>5, <2>1, <2>2
<1>8. Kept(b, d)
  BY <1>6, <1>7 DEF Kept, Balanced
<1>9. d = [b EXCEPT !.usage = d.usage, !.accounts = d.accounts]
  BY <1>6 DEF d
<1> QED
  BY <1>2, <1>4, <1>5, <1>6, <1>8, <1>9 DEF Charged

LEMMA TrackUsageKept ==
  ASSUME NEW b \in Books, NEW t \in Tenants, NEW k \in Resources, NEW n \in Nat, NEW cost \in Nat
  PROVE  /\ Kept(b, TrackUsage(b, t, k, n, cost))
         /\ TrackUsage(b, t, k, n, cost).records
              = Append(b.records, [tenant |-> t, resource |-> k, quantity |-> n, cost |-> cost])
<1> DEFINE row == [tenant |-> t, resource |-> k, quantity |-> n, cost |-> cost]
           records == Append(b.records, row)
           noted == [b EXCEPT !.records = records]
           d == RecordUsage(noted, t, cost)
<1>1. b.records \in Seq(Record) /\ row \in Record
  BY DEF Books, Record
<1>2. records \in Seq(Record)
  BY <1>1
<1>3. \A u : CostIn(records, u) = CostIn(b.records, u) + (IF t = u THEN cost ELSE 0)
  BY <1>1, CostRows
<1>4. TrackUsage(b, t, k, n, cost) = IF cost > 0 THEN d ELSE noted
  BY DEF TrackUsage, Books
<1> HIDE DEF records
<1>5. /\ noted \in Books /\ noted.records = records /\ noted.accounts = b.accounts
      /\ noted.granted = b.granted /\ noted.shares = b.shares /\ noted.payouts = b.payouts
      /\ noted.usage = b.usage
  BY <1>2 DEF Books
<1> HIDE DEF noted
<1>6. CASE cost = 0
  <2>1. ASSUME Balanced(b) PROVE Balanced(noted)
    <3>1. \A u \in Tenants : CostIn(b.records, u) \in Int
      BY TotalsType
    <3> QED
      BY <1>3, <1>5, <1>6, <2>1, <3>1 DEF Balanced
  <2> QED
    BY <1>4, <1>5, <1>6, <2>1 DEF Kept, records
<1>7. CASE cost > 0
  <2>1. Charged(noted, d, t, cost)
    BY <1>5, RecordUsageKept
  <2> HIDE DEF d
  <2>2. /\ d.records = records /\ d.granted = b.granted /\ d.shares = b.shares
        /\ d.payouts = b.payouts /\ d \in Books
    BY <1>5, <2>1 DEF Books, Charged
  <2>3. ASSUME Balanced(b), NEW u \in Tenants
        PROVE  /\ d.accounts[u].balance = d.accounts[u].earned - d.accounts[u].spent
               /\ d.accounts[u].earned
                    = b.granted[u] + SharesIn(b.shares, u) + PaidIn(b.payouts, u)
               /\ d.accounts[u].spent = UsedIn(d.usage, u)
               /\ CostIn(records, u) <= d.accounts[u].spent
    <3>1. /\ b.accounts[u].balance = b.accounts[u].earned - b.accounts[u].spent
          /\ b.accounts[u].earned = b.granted[u] + SharesIn(b.shares, u) + PaidIn(b.payouts, u)
          /\ b.accounts[u].spent = UsedIn(b.usage, u)
          /\ CostIn(b.records, u) <= b.accounts[u].spent
      BY <2>3 DEF Balanced
    <3>2. UsedIn(b.usage, u) \in Int /\ CostIn(b.records, u) \in Int
      BY TotalsType
    <3>3. /\ UsedIn(d.usage, u) = UsedIn(b.usage, u) + (IF u = t THEN cost ELSE 0)
          /\ d.accounts[u].earned = b.accounts[u].earned
          /\ d.accounts[u].spent = b.accounts[u].spent + (IF u = t THEN cost ELSE 0)
          /\ d.accounts[u].balance = d.accounts[u].earned - d.accounts[u].spent
      BY <1>5, <2>1, <3>1 DEF Charged
    <3> QED
      BY <1>3, <3>1, <3>2, <3>3
  <2> QED
    BY <1>4, <1>7, <2>1, <2>2, <2>3 DEF Kept, Balanced, records
<1> QED
  BY <1>6, <1>7

LEMMA DistributeRevenueKept ==
  ASSUME NEW b \in Books, NEW tx \in Nat, NEW t \in Tenants, NEW amount \in Nat,
         NEW table \in {AgentShare, PluginShare}
  PROVE  Kept(b, DistributeRevenue(b, tx, t, amount, table))
<1> DEFINE cut == Percent(amount, table.creator)
           row == [tenant |-> t, tx |-> tx, amount |-> cut]
           payouts == Append(b.payouts, row)
           paid == [b EXCEPT !.payouts = payouts]
           credited == AddCredits(paid, t, cut).accounts
           d == AddCredits(paid, t, cut)
<1>1. CASE "creator" \notin DOMAIN table \/ amount = 0
  BY <1>1 DEF DistributeRevenue, Kept
<1>2. CASE ~ ("creator" \notin DOMAIN table \/ amount = 0)
  <2>1. table = AgentShare /\ cut \in Nat
    <3>1. table = AgentShare
      BY <1>2, SharesAssumption
    <3>2. AgentShare.creator \in 1..100
      BY SharesAssumption
    <3> QED
      BY <3>1, <3>2, PercentNat
  <2>2. DistributeRevenue(b, tx, t, amount, table) = d
    BY <1>2 DEF DistributeRevenue
  <2> HIDE DEF cut
  <2>3. b.payouts \in Seq(Payout) /\ row \in Payout
    BY <2>1 DEF Books, Payout
  <2>4. /\ payouts \in Seq(Payout)
        /\ \A u : PaidIn(payouts, u) = PaidIn(b.payouts, u) + (IF t = u THEN cut ELSE 0)
    BY <2>3, PaidRows
  <2> HIDE DEF payouts
  <2>5. /\ paid \in Books /\ paid.records = b.records /\ paid.accounts = b.accounts
        /\ paid.granted = b.granted /\ paid.shares = b.shares /\ paid.payouts = payouts
        /\ paid.usage = b.usage
    BY <2>4 DEF Books
  <2> HIDE DEF paid
  <2>6. /\ d \in Books /\ d = [paid EXCEPT !.accounts = credited]
        /\ credited = [paid.accounts EXCEPT ![t] = [earned |-> paid.accounts[t].earned + cut,
                                                    spent |-> paid.accounts[t].spent,
                                                    balance |-> paid.accounts[t].earned + cut
                                                                  - paid.accounts[t].spent]]
    BY <2>1, <2>5, AddCreditsDoes
  <2> HIDE DEF d, credited
  <2>7. /\ d.accounts = credited /\ d.granted = b.granted /\ d.shares = b.shares
        /\ d.payouts = payouts /\ d.usage = b.usage /\ d.records = b.records
    BY <2>5, <2>6 DEF Books
  <2>8. ASSUME Balanced(b), NEW u \in Tenants
        PROVE  /\ credited[u].balance = credited[u].earned - credited[u].spent
               /\ credited[u].earned = b.granted[u] + SharesIn(b.shares, u) + PaidIn(payouts, u)
               /\ credited[u].spent = UsedIn(b.usage, u)
               /\ CostIn(b.records, u) <= credited[u].spent
    <3>1. /\ b.accounts[u].balance = b.accounts[u].earned - b.accounts[u].spent
          /\ b.accounts[u].earned = b.granted[u] + SharesIn(b.shares, u) + PaidIn(b.payouts, u)
          /\ b.accounts[u].spent = UsedIn(b.usage, u)
          /\ CostIn(b.records, u) <= b.accounts[u].spent
      BY <2>8 DEF Balanced
    <3>2. /\ SharesIn(b.shares, u) \in Int /\ PaidIn(b.payouts, u) \in Int
          /\ b.granted[u] \in Int /\ b.accounts[u] \in Account
      BY TotalsType DEF Books
    <3>3. CASE u = t
      <4>1. /\ credited[u].earned = b.accounts[u].earned + cut
            /\ credited[u].spent = b.accounts[u].spent
            /\ credited[u].balance = credited[u].earned - credited[u].spent
        <5>1. credited[u] = [earned |-> b.accounts[t].earned + cut, spent |-> b.accounts[t].spent,
                             balance |-> b.accounts[t].earned + cut - b.accounts[t].spent]
          BY <2>5, <2>6, <3>3 DEF Books
        <5>2. b.accounts[t].earned \in Int /\ b.accounts[t].spent \in Int
          BY <3>2, <3>3 DEF Account
        <5> QED
          BY <2>1, <3>3, <5>1, <5>2
      <4> QED
        BY <2>1, <2>4, <3>1, <3>2, <3>3, <4>1
    <3>4. CASE u # t
      <4>1. credited[u] = b.accounts[u]
        BY <2>5, <2>6, <3>4 DEF Books
      <4> QED
        BY <2>4, <3>1, <3>2, <3>4, <4>1
    <3> QED
      BY <3>3, <3>4
  <2> QED
    BY <2>2, <2>6, <2>7, <2>8 DEF Kept, Balanced
<1> QED
  BY <1>1, <1>2

\* g is f with v at k.
IsPut(g, f, k, v) ==
  /\ DOMAIN g = DOMAIN f \cup {k}
  /\ g[k] = v
  /\ \A x \in DOMAIN f : x # k => g[x] = f[x]

LEMMA PutDoes ==
  ASSUME NEW K, NEW V, NEW f \in Partly(K, V), NEW k \in K, NEW v \in V
  PROVE  Put(f, k, v) \in Partly(K, V) /\ IsPut(Put(f, k, v), f, k, v)
<1>1. PICK S \in SUBSET K : f \in [S -> V]
  BY DEF Partly
<1>2. Put(f, k, v) \in [S \cup {k} -> V]
  BY <1>1 DEF Put
<1> QED
  BY <1>1, <1>2 DEF Partly, Put, IsPut

\* What clients see of the books only grows.
Longer(old, new) == new = old \/ \E row : new = Append(old, row)

Grown(b, d) ==
  Longer(b.subscriptions, d.subscriptions) /\ Longer(b.records, d.records)

LEMMA OtherBooks ==
  ASSUME NEW b \in Books, NEW t \in Tenants
  PROVE  /\ \A amount \in Nat : /\ Kept(b, CreateInvoice(b, t, amount))
                                /\ Grown(b, CreateInvoice(b, t, amount))
         /\ \A i \in DOMAIN b.invoices : Kept(b, PayInvoice(b, i)) /\ Grown(b, PayInvoice(b, i))
         /\ \A tier \in {"free", "pro"} : /\ Kept(b, CreateSubscription(b, t, tier))
                                          /\ Grown(b, CreateSubscription(b, t, tier))
         /\ \A creator, platform, affiliate \in Int :
              /\ Kept(b, CreateContract(b, t, creator, platform, affiliate))
              /\ Grown(b, CreateContract(b, t, creator, platform, affiliate))
         /\ \A k \in Resources, quota \in Int :
              Kept(b, SetQuota(b, t, k, quota)) /\ Grown(b, SetQuota(b, t, k, quota))
<1>1. ASSUME NEW amount \in Nat
      PROVE  Kept(b, CreateInvoice(b, t, amount)) /\ Grown(b, CreateInvoice(b, t, amount))
  <2> DEFINE row == [tenant |-> t, amount |-> amount, status |-> "pending", receipts |-> 0]
             invoices == Append(b.invoices, row)
             d == [b EXCEPT !.invoices = invoices]
  <2>1. invoices \in Seq(Invoice)
    BY DEF Books, Invoice
  <2>2. CreateInvoice(b, t, amount) = d
    BY DEF CreateInvoice, Books
  <2> HIDE DEF invoices
  <2> QED
    BY <2>1, <2>2, UncountedKept DEF Books, Grown, Longer
<1>2. ASSUME NEW i \in DOMAIN b.invoices
      PROVE  Kept(b, PayInvoice(b, i)) /\ Grown(b, PayInvoice(b, i))
  <2> DEFINE old == b.invoices[i]
             paid == [old EXCEPT !.status = "paid", !.receipts = old.receipts + 1]
             invoices == [b.invoices EXCEPT ![i] = paid]
             d == [b EXCEPT !.invoices = invoices]
  <2>1. b.invoices \in Seq(Invoice) /\ old \in Invoice
    BY DEF Books
  <2>2. paid \in Invoice
    <3> DEFINE status == "paid"
               receipts == old.receipts + 1
    <3>1. status \in {"pending", "paid"} /\ receipts \in Nat /\ old \in Invoice
      BY <2>1 DEF Invoice
    <3> HIDE DEF old, status, receipts
    <3>2. [old EXCEPT !.status = status, !.receipts = receipts] \in Invoice
      BY <3>1 DEF Invoice
    <3> QED
      BY <3>2 DEF status, receipts
  <2>4. PayInvoice(b, i) = d
    BY DEF PayInvoice, Books
  <2> HIDE DEF paid
  <2>3. invoices \in Seq(Invoice)
    BY <2>1, <2>2
  <2> HIDE DEF invoices
  <2> QED
    BY <2>3, <2>4, UncountedKept DEF Books, Grown, Longer
<1>3. ASSUME NEW tier \in {"free", "pro"}
      PROVE  Kept(b, CreateSubscription(b, t, tier)) /\ Grown(b, CreateSubscription(b, t, tier))
  <2> DEFINE subscriptions == Append(b.subscriptions, [tenant |-> t, tier |-> tier])
             d == [b EXCEPT !.subscriptions = subscriptions]
  <2>1. subscriptions \in Seq(Subscription)
    BY DEF Books, Subscription
  <2>2. CreateSubscription(b, t, tier) = d
    BY DEF CreateSubscription, Books
  <2>3. Longer(b.subscriptions, subscriptions)
    BY DEF Longer
  <2> HIDE DEF subscriptions
  <2> QED
    BY <2>1, <2>2, <2>3, UncountedKept DEF Books, Grown, Longer
<1>4. ASSUME NEW creator \in Int, NEW platform \in Int, NEW affiliate \in Int
      PROVE  /\ Kept(b, CreateContract(b, t, creator, platform, affiliate))
             /\ Grown(b, CreateContract(b, t, creator, platform, affiliate))
  <2> DEFINE contracts == b.contracts \cup {[tenant |-> t, creator |-> creator]}
             d == [b EXCEPT !.contracts = contracts]
  <2>1. contracts \in SUBSET [tenant : Tenants, creator : Int]
    BY DEF Books
  <2>2. CreateContract(b, t, creator, platform, affiliate) \in {b, d}
    BY DEF CreateContract, Books
  <2> HIDE DEF contracts
  <2> QED
    BY <2>1, <2>2, UncountedKept DEF Books, Grown, Longer
<1>5. ASSUME NEW k \in Resources, NEW quota \in Int
      PROVE  Kept(b, SetQuota(b, t, k, quota)) /\ Grown(b, SetQuota(b, t, k, quota))
  <2> DEFINE quotas == Put(b.quotas, <<t, k>>, quota)
             d == [b EXCEPT !.quotas = quotas]
  <2>1. quotas \in Quotas
    <3>1. b.quotas \in Partly(Tenants \X Resources, Int) /\ <<t, k>> \in Tenants \X Resources
      BY DEF Books, Quotas
    <3> QED
      BY <3>1, PutDoes DEF Quotas
  <2>2. SetQuota(b, t, k, quota) = d
    BY DEF SetQuota, Books
  <2> HIDE DEF quotas
  <2> QED
    BY <2>1, <2>2, UncountedKept DEF Books, Grown, Longer
<1> QED
  BY <1>1, <1>2, <1>3, <1>4, <1>5

LEMMA AccountBooks ==
  ASSUME NEW b \in Books, NEW t \in Tenants
  PROVE  /\ \A amount \in Int : Grown(b, Posted(b, t, amount))
         /\ \A amount \in Nat : Grown(b, RecordUsage(b, t, amount))
         /\ \A k \in Resources, n \in Nat, cost \in Nat : Grown(b, TrackUsage(b, t, k, n, cost))
         /\ \A tx \in Nat, amount \in Nat, table \in {AgentShare, PluginShare} :
              Grown(b, DistributeRevenue(b, tx, t, amount, table))
<1>1. ASSUME NEW amount \in Int
      PROVE  Grown(b, Posted(b, t, amount))
  BY DEF Posted, AddCredits, Grown, Longer, Books
<1>2. ASSUME NEW amount \in Nat PROVE Grown(b, RecordUsage(b, t, amount))
  BY DEF RecordUsage, Grown, Longer, Books
<1>3. ASSUME NEW k \in Resources, NEW n \in Nat, NEW cost \in Nat
      PROVE  Grown(b, TrackUsage(b, t, k, n, cost))
  <2>1. TrackUsage(b, t, k, n, cost).subscriptions = b.subscriptions
    BY DEF TrackUsage, RecordUsage, Books
  <2>2. \E row : TrackUsage(b, t, k, n, cost).records = Append(b.records, row)
    <3>1. TrackUsage(b, t, k, n, cost).records
            = Append(b.records, [tenant |-> t, resource |-> k, quantity |-> n, cost |-> cost])
      BY TrackUsageKept
    <3> QED
      BY <3>1, Zenon
  <2> QED
    BY <2>1, <2>2 DEF Grown, Longer
<1>4. ASSUME NEW tx \in Nat, NEW amount \in Nat, NEW table \in {AgentShare, PluginShare}
      PROVE  Grown(b, DistributeRevenue(b, tx, t, amount, table))
  BY DEF DistributeRevenue, AddCredits, Grown, Longer, Books
<1> QED
  BY <1>1, <1>2, <1>3, <1>4

----------------------------------------------------------------------------
(* The agents of the market and their counters. *)

Statuses == {"draft", "published"}
Agent == [tenant : Tenants, status : Statuses, pricing : Pricings, category : Categories,
          purchases : Int, revenue : Int, rating : Int \X Int]
Sale == [tx : Nat, agent : AgentIds, buyer : Tenants, amount : Nat]
Listing == [agent : AgentIds, featured : BOOLEAN, category : Categories]
Reviewed == AgentIds \cup {None}
Ratings == Seq(Int)

Market ==
  [agents : Partly(AgentIds, Agent), configs : SUBSET AgentIds, purchases : Seq(Sale),
   reviews : Partly(Reviewed, Ratings), listings : Seq(Listing)]

CountIn(rows, a) == Total(rows, LAMBDA s : s.agent = a, LAMBDA s : 1)
RevenueIn(rows, a) == Total(rows, LAMBDA s : s.agent = a, LAMBDA s : s.amount)

LEMMA CountRows ==
  ASSUME NEW rows \in Seq(Sale), NEW a
  PROVE  /\ CountIn(rows, a) \in Int
         /\ \A row \in Sale : CountIn(Append(rows, row), a)
              = CountIn(rows, a) + (IF row.agent = a THEN 1 ELSE 0)
         /\ (\A i \in 1..Len(rows) : ~ (rows[i].agent = a)) => CountIn(rows, a) = 0
<1> DEFINE val == [x \in Sale |-> IF x.agent = a THEN 1 ELSE 0]
<1>1. val \in [Sale -> Int]
  BY DEF Sale
<1>2. ASSUME NEW q \in Seq(Sale) PROVE CountIn(q, a) = SumOf(val, q)
  <2>1. [i \in 1..Len(q) |-> IF q[i].agent = a THEN 1 ELSE 0]
          = [i \in 1..Len(q) |-> val[q[i]]]
    OBVIOUS
  <2> HIDE DEF val
  <2> QED
    BY <2>1 DEF CountIn, Total, SumOf
<1>3. \A row \in Sale : Append(rows, row) \in Seq(Sale)
  OBVIOUS
<1>4. \A row \in Sale : val[row] = (IF row.agent = a THEN 1 ELSE 0)
  OBVIOUS
<1>5. \A i \in 1..Len(rows) : rows[i] \in Sale
  OBVIOUS
<1> HIDE DEF val
<1>6. /\ SumOf(val, rows) \in Int
      /\ \A row \in Sale : SumOf(val, Append(rows, row)) = SumOf(val, rows) + val[row]
      /\ (\A i \in 1..Len(rows) : val[rows[i]] = 0) => SumOf(val, rows) = 0
  BY <1>1, SumOfRows
<1> QED
  BY <1>2, <1>3, <1>4, <1>5, <1>6

LEMMA RevenueRows ==
  ASSUME NEW rows \in Seq(Sale), NEW a
  PROVE  /\ RevenueIn(rows, a) \in Int
         /\ \A row \in Sale : RevenueIn(Append(rows, row), a)
              = RevenueIn(rows, a) + (IF row.agent = a THEN row.amount ELSE 0)
         /\ (\A i \in 1..Len(rows) : ~ (rows[i].agent = a)) => RevenueIn(rows, a) = 0
<1> DEFINE val == [x \in Sale |-> IF x.agent = a THEN x.amount ELSE 0]
<1>1. val \in [Sale -> Int]
  BY DEF Sale
<1>2. ASSUME NEW q \in Seq(Sale) PROVE RevenueIn(q, a) = SumOf(val, q)
  <2>1. [i \in 1..Len(q) |-> IF q[i].agent = a THEN q[i].amount ELSE 0]
          = [i \in 1..Len(q) |-> val[q[i]]]
    OBVIOUS
  <2> HIDE DEF val
  <2> QED
    BY <2>1 DEF RevenueIn, Total, SumOf
<1>3. \A row \in Sale : Append(rows, row) \in Seq(Sale)
  OBVIOUS
<1>4. \A row \in Sale : val[row] = (IF row.agent = a THEN row.amount ELSE 0)
  OBVIOUS
<1>5. \A i \in 1..Len(rows) : rows[i] \in Sale
  OBVIOUS
<1> HIDE DEF val
<1>6. /\ SumOf(val, rows) \in Int
      /\ \A row \in Sale : SumOf(val, Append(rows, row)) = SumOf(val, rows) + val[row]
      /\ (\A i \in 1..Len(rows) : val[rows[i]] = 0) => SumOf(val, rows) = 0
  BY <1>1, SumOfRows
<1> QED
  BY <1>2, <1>3, <1>4, <1>5, <1>6


\* The counters of every agent are those of its purchases and reviews.
Counted(m) ==
  /\ \A i \in DOMAIN m.purchases : m.purchases[i].agent \in DOMAIN m.agents
  /\ DOMAIN m.reviews \subseteq DOMAIN m.agents \cup {None}
  /\ \A a \in DOMAIN m.agents :
       LET ratings == Lookup(m.reviews, a, <<>>) IN
       /\ m.agents[a].purchases = CountIn(m.purchases, a)
       /\ m.agents[a].revenue = RevenueIn(m.purchases, a)
       /\ m.agents[a].rating = <<SumList(ratings), Len(ratings)>>

\* What is shown stays.
Visible(m, d) ==
  /\ Longer(m.listings, d.listings)
  /\ \A a \in DOMAIN m.agents :
       /\ a \in DOMAIN d.agents
       /\ m.agents[a].status = "published" => d.agents[a].status = "published"

LEMMA PartlyIs ==
  ASSUME NEW K, NEW V, NEW f \in Partly(K, V), NEW x \in DOMAIN f
  PROVE  x \in K /\ f[x] \in V
BY DEF Partly

LEMMA PartlySet ==
  ASSUME NEW K, NEW V, NEW f \in Partly(K, V), NEW x \in DOMAIN f, NEW v \in V
  PROVE  [f EXCEPT ![x] = v] \in Partly(K, V)
BY DEF Partly

\* An agent that changes without a sale or a review.
LEMMA AgentSet ==
  ASSUME NEW m \in Market, NEW a \in DOMAIN m.agents, NEW agent \in Agent,
         agent.purchases = m.agents[a].purchases, agent.revenue = m.agents[a].revenue,
         agent.rating = m.agents[a].rating,
         m.agents[a].status = "published" => agent.status = "published",
         NEW d, d = [m EXCEPT !.agents = [m.agents EXCEPT ![a] = agent]]
  PROVE  /\ d \in Market /\ Visible(m, d) /\ (Counted(m) => Counted(d))
         /\ d.purchases = m.purchases /\ d.configs = m.configs
         /\ DOMAIN d.agents = DOMAIN m.agents
<1> DEFINE agents == [m.agents EXCEPT ![a] = agent]
<1>1. agents \in Partly(AgentIds, Agent)
  BY PartlySet DEF Market
<1>2. DOMAIN agents = DOMAIN m.agents
  OBVIOUS
<1>3. /\ agents[a] = agent
      /\ \A x \in DOMAIN m.agents : x # a => agents[x] = m.agents[x]
  OBVIOUS
<1> HIDE DEF agents
<1>4. /\ d \in Market /\ d.agents = agents /\ d.purchases = m.purchases
      /\ d.reviews = m.reviews /\ d.listings = m.listings /\ d.configs = m.configs
  BY <1>1 DEF Market, agents
<1>5. \A x \in DOMAIN m.agents :
        /\ agents[x].purchases = m.agents[x].purchases
        /\ agents[x].revenue = m.agents[x].revenue
        /\ agents[x].rating = m.agents[x].rating
        /\ m.agents[x].status = "published" => agents[x].status = "published"
  BY <1>3
<1>6. Visible(m, d)
  BY <1>2, <1>4, <1>5 DEF Visible, Longer
<1>7. ASSUME Counted(m) PROVE Counted(d)
  BY <1>2, <1>4, <1>5, <1>7 DEF Counted
<1> QED
  BY <1>2, <1>4, <1>6, <1>7

\* A step of the market that sells nothing and registers nobody.
MarketKept(m, d) ==
  /\ d \in Market /\ Visible(m, d) /\ (Counted(m) => Counted(d))
  /\ d.purchases = m.purchases /\ d.configs = m.configs
  /\ DOMAIN d.agents = DOMAIN m.agents

LEMMA PublishAgentDoes ==
  ASSUME market \in Market, NEW a \in AgentIds, PublishAgent(a)
  PROVE  MarketKept(market, market')
<1> DEFINE old == market.agents[a]
           status == "published"
           agent == [old EXCEPT !.status = status]
<1>1. a \in DOMAIN market.agents /\ old \in Agent /\ status \in Statuses
  BY PartlyIs DEF PublishAgent, Market, Statuses
<1>2. market' = [market EXCEPT !.agents = [market.agents EXCEPT ![a] = agent]]
  BY DEF PublishAgent, Market
<1>3. status = "published"
  OBVIOUS
<1> HIDE DEF old, status
<1>4. /\ agent \in Agent /\ agent.purchases = old.purchases /\ agent.revenue = old.revenue
      /\ agent.rating = old.rating /\ agent.status = status
  BY <1>1 DEF Agent
<1> HIDE DEF agent
<1> QED
  BY <1>1, <1>2, <1>3, <1>4, AgentSet DEF MarketKept, old

LEMMA UpdatePricingDoes ==
  ASSUME market \in Market, NEW a \in AgentIds, NEW pricing \in Pricings,
         UpdatePricing(a, pricing)
  PROVE  MarketKept(market, market')
<1> DEFINE old == market.agents[a]
           agent == [old EXCEPT !.pricing = pricing]
<1>1. a \in DOMAIN market.agents /\ old \in Agent
  BY PartlyIs DEF UpdatePricing, Market
<1>2. market' = [market EXCEPT !.agents = [market.agents EXCEPT ![a] = agent]]
  BY DEF UpdatePricing, Market
<1> HIDE DEF old
<1>3. /\ agent \in Agent /\ agent.purchases = old.purchases /\ agent.revenue = old.revenue
      /\ agent.rating = old.rating /\ agent.status = old.status
  BY <1>1 DEF Agent
<1> HIDE DEF agent
<1> QED
  BY <1>1, <1>2, <1>3, AgentSet DEF MarketKept, old

LEMMA ListAgentDoes ==
  ASSUME market \in Market, NEW a \in AgentIds, NEW featured \in BOOLEAN, ListAgent(a, featured)
  PROVE  MarketKept(market, market')
<1> DEFINE row == [agent |-> a, featured |-> featured, category |-> market.agents[a].category]
           listings == Append(market.listings, row)
<1>1. a \in DOMAIN market.agents /\ market.agents[a] \in Agent
  BY PartlyIs DEF ListAgent, Market
<1>2. row \in Listing
  BY <1>1 DEF Listing, Agent
<1>3. market' = [market EXCEPT !.listings = listings]
  BY DEF ListAgent, Market
<1>4. listings \in Seq(Listing) /\ Longer(market.listings, listings)
  BY <1>2 DEF Market, Longer
<1> HIDE DEF listings
<1> QED
  BY <1>3, <1>4 DEF MarketKept, Market, Visible, Counted

LEMMA AddReviewDoes ==
  ASSUME market \in Market, NEW a \in Reviewed, NEW rating \in Int, AddReview(a, rating)
  PROVE  MarketKept(market, market')
<1> DEFINE old == Lookup(market.reviews, a, <<>>)
           all == Append(old, rating)
           reviews == Put(market.reviews, a, all)
           kept == [market EXCEPT !.reviews = reviews]
<1>1. market.reviews \in Partly(Reviewed, Ratings) /\ market.agents \in Partly(AgentIds, Agent)
  BY DEF Market
<1>2. old \in Ratings
  <2>1. <<>> \in Ratings
    BY DEF Ratings
  <2>2. a \in DOMAIN market.reviews => market.reviews[a] \in Ratings
    BY <1>1, PartlyIs
  <2> QED
    BY <2>1, <2>2 DEF Lookup
<1>3. all \in Ratings /\ SumList(all) \in Int /\ Len(all) \in Int
  <2>1. all \in Seq(Int)
    BY <1>2 DEF Ratings
  <2> HIDE DEF all
  <2>2. SumList(all) \in Int
    BY <2>1, SumType
  <2> QED
    BY <2>1, <2>2 DEF Ratings
<1>4. /\ reviews \in Partly(Reviewed, Ratings) /\ DOMAIN reviews = DOMAIN market.reviews \cup {a}
      /\ reviews[a] = all
      /\ \A x \in DOMAIN market.reviews : x # a => reviews[x] = market.reviews[x]
  <2> DEFINE f == market.reviews
  <2>1. f \in Partly(Reviewed, Ratings) /\ all \in Ratings
    BY <1>1, <1>3
  <2>2. reviews = Put(f, a, all)
    OBVIOUS
  <2> HIDE DEF all, f, reviews
  <2>3. Put(f, a, all) \in Partly(Reviewed, Ratings) /\ IsPut(Put(f, a, all), f, a, all)
    BY <2>1, PutDoes
  <2> QED
    BY <2>2, <2>3 DEF f, IsPut
<1>5. /\ Lookup(reviews, a, <<>>) = all
      /\ \A x : x # a => Lookup(reviews, x, <<>>) = Lookup(market.reviews, x, <<>>)
  <2> HIDE DEF all, reviews
  <2> QED
    BY <1>4 DEF Lookup
<1>6. CASE a \notin DOMAIN market.agents
  <2>1. market' = kept /\ a = None
    BY <1>6 DEF AddReview, Market
  <2> HIDE DEF reviews
  <2>2. /\ market' \in Market /\ market'.reviews = reviews /\ market'.agents = market.agents
        /\ market'.purchases = market.purchases /\ market'.configs = market.configs
        /\ market'.listings = market.listings
    BY <1>4, <2>1 DEF Market
  <2>3. Visible(market, market')
    BY <2>2 DEF Visible, Longer
  <2>4. ASSUME Counted(market) PROVE Counted(market')
    BY <1>4, <1>5, <1>6, <2>1, <2>2, <2>4 DEF Counted
  <2> QED
    BY <2>2, <2>3, <2>4 DEF MarketKept
<1>7. CASE a \in DOMAIN market.agents
  <2> DEFINE agent0 == market.agents[a]
             rated == <<SumList(all), Len(all)>>
             agent == [agent0 EXCEPT !.rating = rated]
             agents == [market.agents EXCEPT ![a] = agent]
  <2>1. market' = [market EXCEPT !.reviews = reviews, !.agents = agents]
    <3> HIDE DEF reviews, all
    <3> QED
      BY <1>7 DEF AddReview, Market, reviews, all
  <2>2. agent0 \in Agent /\ rated \in Int \X Int
    <3> HIDE DEF all
    <3> QED
      BY <1>1, <1>3, <1>7, PartlyIs
  <2> HIDE DEF agent0, rated
  <2>3. /\ agent \in Agent /\ agent.purchases = agent0.purchases /\ agent.revenue = agent0.revenue
        /\ agent.rating = rated /\ agent.status = agent0.status
    BY <2>2 DEF Agent
  <2> HIDE DEF agent
  <2>4. agents \in Partly(AgentIds, Agent)
    BY <1>1, <1>7, <2>3, PartlySet
  <2>5. /\ DOMAIN agents = DOMAIN market.agents /\ agents[a] = agent
        /\ \A x \in DOMAIN market.agents : x # a => agents[x] = market.agents[x]
    BY <1>7
  <2> HIDE DEF reviews, agents
  <2>6. /\ market' \in Market /\ market'.reviews = reviews /\ market'.agents = agents
        /\ market'.purchases = market.purchases /\ market'.configs = market.configs
        /\ market'.listings = market.listings
    BY <1>4, <2>1, <2>4 DEF Market
  <2>7. Visible(market, market')
    BY <2>3, <2>5, <2>6 DEF Visible, Longer, agent0
  <2>8. ASSUME Counted(market) PROVE Counted(market')
    <3>1. /\ \A i \in DOMAIN market'.purchases : market'.purchases[i].agent \in DOMAIN agents
          /\ DOMAIN reviews \subseteq DOMAIN agents \cup {None}
      BY <1>4, <1>7, <2>5, <2>6, <2>8 DEF Counted
    <3>2. ASSUME NEW x \in DOMAIN market.agents
          PROVE  /\ agents[x].purchases = CountIn(market.purchases, x)
                 /\ agents[x].revenue = RevenueIn(market.purchases, x)
                 /\ agents[x].rating = <<SumList(Lookup(reviews, x, <<>>)), Len(Lookup(reviews, x, <<>>))>>
      <4>1. CASE x = a
        BY <1>5, <2>3, <2>5, <2>8, <4>1 DEF Counted, agent0, rated
      <4>2. CASE x # a
        BY <1>5, <2>5, <2>8, <4>2 DEF Counted
      <4> QED
        BY <4>1, <4>2
    <3> QED
      BY <2>5, <2>6, <3>1, <3>2 DEF Counted
  <2> QED
    BY <2>5, <2>6, <2>7, <2>8 DEF MarketKept
<1> QED
  BY <1>6, <1>7

Call == {Idle} \cup [op : {"create_agent"}, agent : AgentIds]
          \cup [op : {"install", "execute"}, plugin : Nat]

\* The runtime knows an agent, or is about to.
Creating(a) == [op |-> "create_agent", agent |-> a]
Known(m, cs) ==
  \A a \in DOMAIN m.agents : a \in m.configs \/ \E c \in Calls : cs[c] = Creating(a)

LEMMA RegisterAgentDoes ==
  ASSUME market \in Market, calls \in [Calls -> Call], NEW c \in Calls, NEW a \in AgentIds,
         NEW t \in Tenants, NEW pricing \in Pricings, NEW category \in Categories,
         RegisterAgent(c, a, t, pricing, category)
  PROVE  /\ market' \in Market /\ Visible(market, market')
         /\ Counted(market) => Counted(market')
         /\ Known(market, calls) => Known(market', calls')
         /\ market'.purchases = market.purchases
         /\ calls' = [calls EXCEPT ![c] = Creating(a)] /\ calls[c] = Idle
<1> DEFINE agent == [tenant |-> t, status |-> "draft", pricing |-> pricing, category |-> category,
                     purchases |-> 0, revenue |-> 0, rating |-> <<0, 0>>]
           agents == Put(market.agents, a, agent)
<1>1. /\ market.agents \in Partly(AgentIds, Agent) /\ market.purchases \in Seq(Sale)
      /\ market.reviews \in Partly(Reviewed, Ratings)
  BY DEF Market
<1>2. a \notin DOMAIN market.agents /\ calls[c] = Idle
  BY DEF RegisterAgent, Free
<1>3. market' = [market EXCEPT !.agents = agents]
  BY DEF RegisterAgent, Market
<1>4. calls' = [calls EXCEPT ![c] = Creating(a)]
  BY DEF RegisterAgent, Creating
<1>5. agent \in Agent
  BY DEF Agent, Statuses
<1>6. /\ agent.purchases = 0 /\ agent.revenue = 0 /\ agent.rating = <<0, 0>>
  OBVIOUS
<1> HIDE DEF agent
<1>7. agents \in Partly(AgentIds, Agent) /\ IsPut(agents, market.agents, a, agent)
  BY <1>1, <1>5, PutDoes
<1> HIDE DEF agents
<1>8. /\ market' \in Market /\ market'.agents = agents /\ market'.purchases = market.purchases
      /\ market'.reviews = market.reviews /\ market'.configs = market.configs
      /\ market'.listings = market.listings
  BY <1>3, <1>7 DEF Market
<1>9. Visible(market, market')
  BY <1>2, <1>7, <1>8 DEF Visible, Longer, IsPut
<1>10. ASSUME Counted(market) PROVE Counted(market')
  <2>1. /\ \A i \in DOMAIN market.purchases : market.purchases[i].agent \in DOMAIN agents
        /\ DOMAIN market.reviews \subseteq DOMAIN agents \cup {None}
    BY <1>7, <1>10 DEF Counted, IsPut
  <2>2. ASSUME NEW x \in DOMAIN agents
        PROVE  /\ agents[x].purchases = CountIn(market.purchases, x)
               /\ agents[x].revenue = RevenueIn(market.purchases, x)
               /\ agents[x].rating = <<SumList(Lookup(market.reviews, x, <<>>)),
                                       Len(Lookup(market.reviews, x, <<>>))>>
    <3>1. CASE x # a
      BY <1>7, <1>10, <3>1 DEF Counted, IsPut
    <3>2. CASE x = a
      <4>1. \A i \in 1..Len(market.purchases) : ~ (market.purchases[i].agent = a)
        BY <1>1, <1>2, <1>10 DEF Counted
      <4>2. CountIn(market.purchases, a) = 0 /\ RevenueIn(market.purchases, a) = 0
        BY <1>1, <4>1, CountRows, RevenueRows
      <4>3. Lookup(market.reviews, a, <<>>) = <<>>
        BY <1>2, <1>10, PartiesAssumption DEF Counted, Lookup
      <4> QED
        BY <1>6, <1>7, <3>2, <4>2, <4>3, SumEmpty DEF IsPut
    <3> QED
      BY <3>1, <3>2
  <2> QED
    BY <1>8, <2>1, <2>2 DEF Counted
<1>11. ASSUME Known(market, calls) PROVE Known(market', calls')
  <2> SUFFICES ASSUME NEW x \in DOMAIN agents
               PROVE  x \in market.configs \/ \E e \in Calls : calls'[e] = Creating(x)
    BY <1>8 DEF Known
  <2>1. CASE x = a
    BY <1>4, <2>1
  <2>2. CASE x # a
    <3>1. x \in market.configs \/ \E e \in Calls : calls[e] = Creating(x)
      BY <1>7, <1>11, <2>2 DEF Known, IsPut
    <3>2. ASSUME NEW e \in Calls, calls[e] = Creating(x) PROVE calls'[e] = Creating(x)
      BY <1>2, <1>4, <3>2 DEF Creating, Idle
    <3> QED
      BY <3>1, <3>2
  <2> QED
    BY <2>1, <2>2
<1> QED
  BY <1>2, <1>4, <1>8, <1>9, <1>10, <1>11

LEMMA AgentRegisteredDoes ==
  ASSUME market \in Market, calls \in [Calls -> Call], NEW c \in Calls, AgentRegistered(c)
  PROVE  /\ market' \in Market /\ Visible(market, market')
         /\ Counted(market) => Counted(market')
         /\ Known(market, calls) => Known(market', calls')
         /\ market'.purchases = market.purchases
<1> DEFINE a == calls[c].agent
           configs == market.configs \cup {a}
<1>1. calls[c] = Creating(a) /\ a \in AgentIds
  BY DEF AgentRegistered, Call, Creating, Idle
<1>2. market' = [market EXCEPT !.configs = configs] /\ calls' = [calls EXCEPT ![c] = Idle]
  BY DEF AgentRegistered, Finish, Market
<1>3. configs \in SUBSET AgentIds
  BY <1>1 DEF Market
<1>4. a \in configs /\ market.configs \subseteq configs
  OBVIOUS
<1> HIDE DEF configs, a
<1>5. /\ market' \in Market /\ market'.agents = market.agents
      /\ market'.purchases = market.purchases /\ market'.reviews = market.reviews
      /\ market'.configs = configs /\ market'.listings = market.listings
  BY <1>2, <1>3 DEF Market
<1>6. Visible(market, market') /\ (Counted(market) => Counted(market'))
  BY <1>5 DEF Visible, Longer, Counted
<1>7. ASSUME Known(market, calls), NEW x \in DOMAIN market.agents
      PROVE  x \in configs \/ \E e \in Calls : calls'[e] = Creating(x)
  <2>1. x \in market.configs \/ \E e \in Calls : calls[e] = Creating(x)
    BY <1>7 DEF Known
  <2>2. ASSUME NEW e \in Calls, calls[e] = Creating(x), e # c PROVE calls'[e] = Creating(x)
    BY <1>2, <2>2
  <2>3. ASSUME NEW e \in Calls, calls[e] = Creating(x), e = c PROVE x = a
    BY <1>1, <2>3 DEF Creating
  <2> QED
    BY <1>4, <2>1, <2>2, <2>3
<1> QED
  BY <1>5, <1>6, <1>7 DEF Known

LEMMA PurchaseAgentDoes ==
  ASSUME market \in Market, served \in Nat, NEW a \in AgentIds, NEW buyer \in Tenants,
         PurchaseAgent(a, buyer)
  PROVE  LET agent == market.agents[a]
             amount == Amount(agent.pricing)
         IN  /\ market' \in Market /\ Visible(market, market')
             /\ Counted(market) => Counted(market')
             /\ market'.configs = market.configs /\ DOMAIN market'.agents = DOMAIN market.agents
             /\ amount \in Nat /\ agent.tenant \in Tenants
             /\ \A k \in DOMAIN AgentShare : (amount * AgentShare[k]) % 100 = 0
             /\ market'.purchases = Append(market.purchases,
                  [tx |-> Now, agent |-> a, buyer |-> buyer, amount |-> amount])
<1> DEFINE old == market.agents[a]
           amount == Amount(old.pricing)
           row == [tx |-> Now, agent |-> a, buyer |-> buyer, amount |-> amount]
           purchases == Append(market.purchases, row)
           agent == [old EXCEPT !.purchases = @ + 1, !.revenue = @ + amount]
           agents == [market.agents EXCEPT ![a] = agent]
<1>1. /\ market.agents \in Partly(AgentIds, Agent) /\ market.purchases \in Seq(Sale)
      /\ market.reviews \in Partly(Reviewed, Ratings)
  BY DEF Market
<1>2. a \in DOMAIN market.agents /\ old \in Agent
  BY <1>1, PartlyIs DEF PurchaseAgent
<1>3. old.pricing \in Pricings /\ old.tenant \in Tenants
  BY <1>2 DEF Agent
<1>4. amount \in {old.pricing.price, old.pricing.perCall}
  BY DEF Amount
<1>5. amount \in Nat /\ amount \in UNION {{p.price, p.perCall} : p \in Pricings}
  BY <1>3, <1>4, SharesAssumption
<1>6. \A k \in DOMAIN AgentShare : (amount * AgentShare[k]) % 100 = 0
  BY <1>5, SharesAssumption DEF Exact
<1>7. market' = [market EXCEPT !.purchases = purchases, !.agents = agents]
  BY <1>1, <1>2 DEF PurchaseAgent, Market, Agent
<1> HIDE DEF amount
<1>8. row \in Sale
  BY <1>5 DEF Sale, Now
<1>9. purchases \in Seq(Sale)
  BY <1>1, <1>8
<1>10. /\ agent \in Agent /\ agent.purchases = old.purchases + 1
       /\ agent.revenue = old.revenue + amount /\ agent.rating = old.rating
       /\ agent.status = old.status
  <2> DEFINE count == old.purchases + 1
             revenue == old.revenue + amount
  <2>1. old \in Agent /\ count \in Int /\ revenue \in Int
    BY <1>2, <1>5 DEF Agent
  <2> HIDE DEF old, count, revenue
  <2>2. LET new == [old EXCEPT !.purchases = count, !.revenue = revenue] IN
        /\ new \in Agent /\ new.purchases = count /\ new.revenue = revenue
        /\ new.rating = old.rating /\ new.status = old.status
    BY <2>1 DEF Agent
  <2> QED
    BY <2>2 DEF count, revenue
<1> HIDE DEF agent
<1>11. agents \in Partly(AgentIds, Agent)
  BY <1>1, <1>2, <1>10, PartlySet
<1>12. /\ DOMAIN agents = DOMAIN market.agents /\ agents[a] = agent
       /\ \A x \in DOMAIN market.agents : x # a => agents[x] = market.agents[x]
  BY <1>2
<1>13. /\ \A x : CountIn(purchases, x) = CountIn(market.purchases, x) + (IF row.agent = x THEN 1 ELSE 0)
       /\ \A x : RevenueIn(purchases, x)
                   = RevenueIn(market.purchases, x) + (IF row.agent = x THEN row.amount ELSE 0)
       /\ \A x : CountIn(market.purchases, x) \in Int /\ RevenueIn(market.purchases, x) \in Int
  <2> HIDE DEF row
  <2> QED
    BY <1>1, <1>8, CountRows, RevenueRows
<1>14. \A i \in DOMAIN purchases :
         \/ purchases[i] = row
         \/ i \in DOMAIN market.purchases /\ purchases[i] = market.purchases[i]
  BY <1>1
<1> HIDE DEF agents, purchases
<1>15. /\ market' \in Market /\ market'.agents = agents /\ market'.purchases = purchases
       /\ market'.reviews = market.reviews /\ market'.configs = market.configs
       /\ market'.listings = market.listings
  BY <1>7, <1>9, <1>11 DEF Market
<1>16. Visible(market, market')
  BY <1>10, <1>12, <1>15 DEF Visible, Longer
<1>17. ASSUME Counted(market) PROVE Counted(market')
  <2>1. /\ \A i \in DOMAIN purchases : purchases[i].agent \in DOMAIN agents
        /\ DOMAIN market.reviews \subseteq DOMAIN agents \cup {None}
    BY <1>2, <1>12, <1>14, <1>17 DEF Counted
  <2>2. ASSUME NEW x \in DOMAIN agents
        PROVE  /\ agents[x].purchases = CountIn(purchases, x)
               /\ agents[x].revenue = RevenueIn(purchases, x)
               /\ agents[x].rating = <<SumList(Lookup(market.reviews, x, <<>>)),
                                       Len(Lookup(market.reviews, x, <<>>))>>
    <3>1. /\ market.agents[x].purchases = CountIn(market.purchases, x)
          /\ market.agents[x].revenue = RevenueIn(market.purchases, x)
          /\ market.agents[x].rating = <<SumList(Lookup(market.reviews, x, <<>>)),
                                         Len(Lookup(market.reviews, x, <<>>))>>
      BY <1>12, <1>17 DEF Counted
    <3>2. CASE x # a
      BY <1>12, <1>13, <3>1, <3>2
    <3>3. CASE x = a
      BY <1>10, <1>12, <1>13, <3>1, <3>3
    <3> QED
      BY <3>2, <3>3
  <2> QED
    BY <1>15, <2>1, <2>2 DEF Counted
<1> QED
  BY <1>3, <1>5, <1>6, <1>12, <1>15, <1>16, <1>17 DEF amount, purchases

----------------------------------------------------------------------------
(* The plugins, their installations and the requests that wait for them. *)

Plugin == [tenant : Tenants, status : Statuses, price : PluginPrices, code : BOOLEAN,
           mode : {"process", "restricted"}, versions : Nat, installs : Int, revenue : Int]

Store == [plugins : Seq(Plugin), installed : [Tenants -> Seq(Nat)], listings : Seq(Nat),
          files : Int, abandoned : Int, unstarted : Int]

UnpaidIn(cs, p) == {c \in Calls : cs[c].op = "install" /\ cs[c].plugin = p}
Running(cs) == {c \in Calls : cs[c].op = "execute"}
Holders(s, p) == {t \in Tenants : Contains(s.installed[t], p)}

\* What a plugin earned, and is going to be credited for.
Worth(s, cs, p) == s.plugins[p].revenue + s.plugins[p].price * Cardinality(UnpaidIn(cs, p))
Earned(s, cs) == SumList([p \in 1..Len(s.plugins) |-> Worth(s, cs, p)])

\* Requests wait for plugins there are; tenants hold plugins there are, each once; and
\* the files are those of the requests that run, of the processes that were left and of
\* those that could not be started.
CallsOK(s, cs) ==
  /\ cs \in [Calls -> Call]
  /\ \A c \in Calls : cs[c].op \in {"install", "execute"} => cs[c].plugin \in 1..Len(s.plugins)

InstalledOK(s) ==
  /\ \A t \in Tenants : IsInjective(s.installed[t])
  /\ \A t \in Tenants : \A i \in DOMAIN s.installed[t] : s.installed[t][i] \in 1..Len(s.plugins)
  /\ \A p \in 1..Len(s.plugins) : s.plugins[p].installs = Cardinality(Holders(s, p))

FilesOK(s, cs) == s.files = Cardinality(Running(cs)) + s.abandoned + s.unstarted

LEMMA CardSplit ==
  ASSUME NEW S, IsFiniteSet(S), NEW c
  PROVE  /\ Cardinality(S) \in Nat
         /\ Cardinality(S) = Cardinality(S \ {c}) + (IF c \in S THEN 1 ELSE 0)
<1>1. Cardinality(S) \in Nat /\ Cardinality(S) \in Int
  BY FS_CardinalityType
<1>2. CASE c \in S
  <2>1. Cardinality(S \ {c}) = Cardinality(S) - 1
    BY <1>2, FS_RemoveElement
  <2> QED
    BY <1>1, <1>2, <2>1
<1>3. CASE c \notin S
  <2>1. Cardinality(S \ {c}) = Cardinality(S)
    <3>1. S \ {c} = S
      BY <1>3
    <3> QED
      BY <3>1
  <2> QED
    BY <1>1, <1>3, <2>1
<1> QED
  BY <1>2, <1>3

\* One request changes.
CallMoved(cs, ds, c, v) ==
  /\ ds \in [Calls -> Call]
  /\ \A p : Cardinality(UnpaidIn(ds, p))
       = Cardinality(UnpaidIn(cs, p)) + (IF v.op = "install" /\ v.plugin = p THEN 1 ELSE 0)
           - (IF cs[c].op = "install" /\ cs[c].plugin = p THEN 1 ELSE 0)
  /\ Cardinality(Running(ds))
       = Cardinality(Running(cs)) + (IF v.op = "execute" THEN 1 ELSE 0)
           - (IF cs[c].op = "execute" THEN 1 ELSE 0)

LEMMA CallChanged ==
  ASSUME NEW cs \in [Calls -> Call], NEW c \in Calls, NEW v \in Call, NEW ds,
         ds = [cs EXCEPT ![c] = v]
  PROVE  CallMoved(cs, ds, c, v)
<1>1. ds \in [Calls -> Call] /\ ds[c] = v /\ \A x \in Calls : x # c => ds[x] = cs[x]
  OBVIOUS
<1>2. \A S \in SUBSET Calls : IsFiniteSet(S)
  BY PartiesAssumption, FS_Subset
<1>3. ASSUME NEW p
      PROVE  Cardinality(UnpaidIn(ds, p))
              = Cardinality(UnpaidIn(cs, p)) + (IF v.op = "install" /\ v.plugin = p THEN 1 ELSE 0)
                  - (IF cs[c].op = "install" /\ cs[c].plugin = p THEN 1 ELSE 0)
  <2> DEFINE S == UnpaidIn(cs, p)
             D == UnpaidIn(ds, p)
  <2>1. S \in SUBSET Calls /\ D \in SUBSET Calls
    BY DEF UnpaidIn
  <2>2. /\ c \in S <=> cs[c].op = "install" /\ cs[c].plugin = p
        /\ c \in D <=> v.op = "install" /\ v.plugin = p
    BY <1>1 DEF UnpaidIn
  <2>3. S \ {c} = D \ {c}
    BY <1>1 DEF UnpaidIn
  <2> HIDE DEF S, D
  <2>4. /\ Cardinality(S) \in Nat /\ Cardinality(D) \in Nat
        /\ Cardinality(S) = Cardinality(S \ {c}) + (IF c \in S THEN 1 ELSE 0)
        /\ Cardinality(D) = Cardinality(D \ {c}) + (IF c \in D THEN 1 ELSE 0)
    BY <1>2, <2>1, CardSplit
  <2>5. Cardinality(S \ {c}) \in Nat
    <3>1. IsFiniteSet(S \ {c})
      BY <1>2, <2>1
    <3> QED
      BY <3>1, FS_CardinalityType
  <2> DEFINE n == Cardinality(S \ {c})
  <2>6. Cardinality(S) = n + (IF c \in S THEN 1 ELSE 0) /\ Cardinality(D) = n + (IF c \in D THEN 1 ELSE 0)
    BY <2>3, <2>4
  <2>7. n \in Int
    BY <2>5
  <2> HIDE DEF n
  <2>8. Cardinality(D) = Cardinality(S) + (IF c \in D THEN 1 ELSE 0) - (IF c \in S THEN 1 ELSE 0)
    BY <2>6, <2>7
  <2> QED
    BY <2>2, <2>8 DEF S, D
<1>4. Cardinality(Running(ds))
        = Cardinality(Running(cs)) + (IF v.op = "execute" THEN 1 ELSE 0)
            - (IF cs[c].op = "execute" THEN 1 ELSE 0)
  <2> DEFINE S == Running(cs)
             D == Running(ds)
  <2>1. S \in SUBSET Calls /\ D \in SUBSET Calls
    BY DEF Running
  <2>2. (c \in S <=> cs[c].op = "execute") /\ (c \in D <=> v.op = "execute")
    BY <1>1 DEF Running
  <2>3. S \ {c} = D \ {c}
    BY <1>1 DEF Running
  <2> HIDE DEF S, D
  <2>4. /\ Cardinality(S) \in Nat /\ Cardinality(D) \in Nat
        /\ Cardinality(S) = Cardinality(S \ {c}) + (IF c \in S THEN 1 ELSE 0)
        /\ Cardinality(D) = Cardinality(D \ {c}) + (IF c \in D THEN 1 ELSE 0)
    BY <1>2, <2>1, CardSplit
  <2>5. Cardinality(S \ {c}) \in Nat
    <3>1. IsFiniteSet(S \ {c})
      BY <1>2, <2>1
    <3> QED
      BY <3>1, FS_CardinalityType
  <2> DEFINE n == Cardinality(S \ {c})
  <2>6. Cardinality(S) = n + (IF c \in S THEN 1 ELSE 0) /\ Cardinality(D) = n + (IF c \in D THEN 1 ELSE 0)
    BY <2>3, <2>4
  <2>7. n \in Int
    BY <2>5
  <2> HIDE DEF n
  <2>8. Cardinality(D) = Cardinality(S) + (IF c \in D THEN 1 ELSE 0) - (IF c \in S THEN 1 ELSE 0)
    BY <2>6, <2>7
  <2> QED
    BY <2>2, <2>8 DEF S, D
<1> QED
  BY <1>1, <1>3, <1>4 DEF CallMoved

LEMMA CardinalsType ==
  ASSUME NEW cs
  PROVE  (\A p : Cardinality(UnpaidIn(cs, p)) \in Nat) /\ Cardinality(Running(cs)) \in Nat
<1>1. \A S \in SUBSET Calls : Cardinality(S) \in Nat
  BY PartiesAssumption, FS_Subset, FS_CardinalityType
<1>2. (\A p : UnpaidIn(cs, p) \in SUBSET Calls) /\ Running(cs) \in SUBSET Calls
  BY DEF UnpaidIn, Running
<1> QED
  BY <1>1, <1>2

LEMMA WorthType ==
  ASSUME NEW s \in Store, NEW cs
  PROVE  [p \in 1..Len(s.plugins) |-> Worth(s, cs, p)] \in [1..Len(s.plugins) -> Int]
<1> SUFFICES ASSUME NEW p \in 1..Len(s.plugins) PROVE Worth(s, cs, p) \in Int
  OBVIOUS
<1>1. s.plugins[p] \in Plugin
  BY DEF Store
<1>2. s.plugins[p].revenue \in Int /\ s.plugins[p].price \in Nat
  BY <1>1, SharesAssumption DEF Plugin
<1>3. Cardinality(UnpaidIn(cs, p)) \in Nat
  BY CardinalsType
<1> DEFINE n == Cardinality(UnpaidIn(cs, p))
           r == s.plugins[p].revenue
           x == s.plugins[p].price
<1>4. n \in Nat /\ r \in Int /\ x \in Nat
  BY <1>2, <1>3
<1> HIDE DEF n, r, x
<1>5. r + x * n \in Int
  BY <1>4
<1> QED
  BY <1>5 DEF Worth, n, r, x

LEMMA EarnedType ==
  ASSUME NEW s \in Store, NEW cs
  PROVE  Earned(s, cs) \in Int
<1> DEFINE worth == [p \in 1..Len(s.plugins) |-> Worth(s, cs, p)]
<1>1. Len(s.plugins) \in Nat
  BY DEF Store
<1>3. worth \in [1..Len(s.plugins) -> Int]
  BY WorthType
<1> HIDE DEF worth
<1>2. SumList(worth) \in Int
  BY <1>1, <1>3, ListOf, SumType
<1> QED
  BY <1>2 DEF Earned, worth

\* The worth of one plugin changes, or of none.
LEMMA EarnedChanged ==
  ASSUME NEW s \in Store, NEW d \in Store, NEW cs, NEW ds, Len(d.plugins) = Len(s.plugins),
         NEW p \in 1..Len(s.plugins), NEW more \in Int,
         Worth(d, ds, p) = Worth(s, cs, p) + more,
         \A q \in 1..Len(s.plugins) : q # p => Worth(d, ds, q) = Worth(s, cs, q)
  PROVE  Earned(d, ds) = Earned(s, cs) + more
<1> DEFINE old == [q \in 1..Len(s.plugins) |-> Worth(s, cs, q)]
           new == [q \in 1..Len(d.plugins) |-> Worth(d, ds, q)]
<1>1. Len(s.plugins) \in Nat
  BY DEF Store
<1>2. old \in [1..Len(s.plugins) -> Int] /\ new \in [1..Len(s.plugins) -> Int]
  BY WorthType
<1>3. new[p] = old[p] + more /\ \A q \in 1..Len(s.plugins) : q # p => new[q] = old[q]
  OBVIOUS
<1>4. Earned(s, cs) = SumList(old) /\ Earned(d, ds) = SumList(new)
  BY DEF Earned
<1> HIDE DEF old, new
<1>5. /\ old \in Seq(Int) /\ Len(old) = Len(s.plugins)
      /\ new \in Seq(Int) /\ Len(new) = Len(s.plugins)
  BY <1>1, <1>2, ListOf
<1>6. SumList(new) = SumList(old) + more
  BY <1>3, <1>5, SumChanged
<1> QED
  BY <1>4, <1>6

LEMMA EarnedSame ==
  ASSUME NEW s, NEW d, NEW cs, NEW ds, Len(d.plugins) = Len(s.plugins),
         \A q \in 1..Len(s.plugins) : Worth(d, ds, q) = Worth(s, cs, q)
  PROVE  Earned(d, ds) = Earned(s, cs)
<1>1. [q \in 1..Len(s.plugins) |-> Worth(s, cs, q)] = [q \in 1..Len(d.plugins) |-> Worth(d, ds, q)]
  OBVIOUS
<1> QED
  BY <1>1 DEF Earned

\* A plugin that changes, but for its price and its installations.
LEMMA PluginSet ==
  ASSUME NEW s \in Store, NEW p \in 1..Len(s.plugins), NEW plugin \in Plugin,
         plugin.price = s.plugins[p].price, plugin.installs = s.plugins[p].installs,
         NEW d, d = [s EXCEPT !.plugins = [s.plugins EXCEPT ![p] = plugin]]
  PROVE  /\ d \in Store /\ Len(d.plugins) = Len(s.plugins)
         /\ d.plugins[p] = plugin
         /\ \A q \in 1..Len(s.plugins) : q # p => d.plugins[q] = s.plugins[q]
         /\ d.files = s.files /\ d.abandoned = s.abandoned /\ d.unstarted = s.unstarted
         /\ InstalledOK(s) => InstalledOK(d)
<1> DEFINE plugins == [s.plugins EXCEPT ![p] = plugin]
<1>1. s.plugins \in Seq(Plugin)
  BY DEF Store
<1>2. /\ plugins \in Seq(Plugin) /\ Len(plugins) = Len(s.plugins) /\ plugins[p] = plugin
      /\ \A q \in 1..Len(s.plugins) : q # p => plugins[q] = s.plugins[q]
  BY <1>1
<1> HIDE DEF plugins
<1>3. /\ d \in Store /\ d.plugins = plugins /\ d.installed = s.installed /\ d.files = s.files
      /\ d.abandoned = s.abandoned /\ d.unstarted = s.unstarted
  BY <1>2 DEF Store, plugins
<1>4. ASSUME InstalledOK(s) PROVE InstalledOK(d)
  <2>1. \A q \in 1..Len(s.plugins) : d.plugins[q].installs = s.plugins[q].installs
    BY <1>2, <1>3
  <2>2. \A q : Holders(d, q) = Holders(s, q)
    BY <1>3 DEF Holders
  <2> QED
    BY ZenonT(30), <1>2, <1>3, <1>4, <2>1, <2>2 DEF InstalledOK
<1> QED
  BY <1>2, <1>3, <1>4

\* The store of a step that pays for nothing.
StoreKept(s, cs, d, ds) ==
  /\ d \in Store /\ CallsOK(d, ds)
  /\ InstalledOK(s) => InstalledOK(d)
  /\ FilesOK(s, cs) => FilesOK(d, ds)
  /\ Earned(d, ds) = Earned(s, cs)

LEMMA PublishPluginDoes ==
  ASSUME store \in Store, CallsOK(store, calls), NEW p \in 1..Len(store.plugins), PublishPlugin(p)
  PROVE  StoreKept(store, calls, store', calls')
<1> DEFINE old == store.plugins[p]
           status == "published"
           plugin == [old EXCEPT !.status = status]
<1>1. old \in Plugin /\ status \in Statuses
  BY DEF Store, Statuses
<1>2. store' = [store EXCEPT !.plugins = [store.plugins EXCEPT ![p] = plugin]] /\ calls' = calls
  BY DEF PublishPlugin, Store
<1> HIDE DEF old, status
<1>3. /\ plugin \in Plugin /\ plugin.price = old.price /\ plugin.installs = old.installs
      /\ plugin.revenue = old.revenue
  BY <1>1 DEF Plugin
<1> HIDE DEF plugin
<1>4. /\ store' \in Store /\ Len(store'.plugins) = Len(store.plugins)
      /\ store'.plugins[p] = plugin
      /\ \A q \in 1..Len(store.plugins) : q # p => store'.plugins[q] = store.plugins[q]
      /\ store'.files = store.files /\ store'.abandoned = store.abandoned /\ store'.unstarted = store.unstarted
      /\ InstalledOK(store) => InstalledOK(store')
  BY <1>2, <1>3, PluginSet DEF old
<1>5. \A q \in 1..Len(store.plugins) : Worth(store', calls', q) = Worth(store, calls, q)
  BY <1>2, <1>3, <1>4 DEF Worth, old
<1>6. Earned(store', calls') = Earned(store, calls)
  BY <1>4, <1>5, EarnedSame
<1> QED
  BY <1>2, <1>4, <1>6 DEF StoreKept, CallsOK, FilesOK

LEMMA AddVersionDoes ==
  ASSUME store \in Store, CallsOK(store, calls), NEW p \in 1..Len(store.plugins), AddVersion(p)
  PROVE  StoreKept(store, calls, store', calls')
<1> DEFINE old == store.plugins[p]
           plugin == [old EXCEPT !.versions = @ + 1]
<1>1. old \in Plugin
  BY DEF Store
<1>2. store' = [store EXCEPT !.plugins = [store.plugins EXCEPT ![p] = plugin]] /\ calls' = calls
  BY DEF AddVersion, Store
<1> HIDE DEF old
<1>3. /\ plugin \in Plugin /\ plugin.price = old.price /\ plugin.installs = old.installs
      /\ plugin.revenue = old.revenue
  BY <1>1 DEF Plugin
<1> HIDE DEF plugin
<1>4. /\ store' \in Store /\ Len(store'.plugins) = Len(store.plugins)
      /\ store'.plugins[p] = plugin
      /\ \A q \in 1..Len(store.plugins) : q # p => store'.plugins[q] = store.plugins[q]
      /\ store'.files = store.files /\ store'.abandoned = store.abandoned /\ store'.unstarted = store.unstarted
      /\ InstalledOK(store) => InstalledOK(store')
  BY <1>2, <1>3, PluginSet DEF old
<1>5. \A q \in 1..Len(store.plugins) : Worth(store', calls', q) = Worth(store, calls, q)
  BY <1>2, <1>3, <1>4 DEF Worth, old
<1>6. Earned(store', calls') = Earned(store, calls)
  BY <1>4, <1>5, EarnedSame
<1> QED
  BY <1>2, <1>4, <1>6 DEF StoreKept, CallsOK, FilesOK

LEMMA ListPluginDoes ==
  ASSUME store \in Store, CallsOK(store, calls), NEW p \in 1..Len(store.plugins), ListPlugin(p)
  PROVE  StoreKept(store, calls, store', calls')
<1> DEFINE listings == Append(store.listings, p)
<1>1. store' = [store EXCEPT !.listings = listings] /\ calls' = calls
  BY DEF ListPlugin, Store
<1>2. listings \in Seq(Nat)
  BY DEF Store
<1> HIDE DEF listings
<1>3. /\ store' \in Store /\ store'.plugins = store.plugins /\ store'.installed = store.installed
      /\ store'.files = store.files /\ store'.abandoned = store.abandoned /\ store'.unstarted = store.unstarted
  BY <1>1, <1>2 DEF Store
<1>4. Earned(store', calls') = Earned(store, calls)
  <2>1. \A q \in 1..Len(store.plugins) : Worth(store', calls', q) = Worth(store, calls, q)
    BY <1>1, <1>3 DEF Worth
  <2>2. Len(store'.plugins) = Len(store.plugins)
    BY <1>3
  <2> QED
    BY <2>1, <2>2, EarnedSame
<1>5. InstalledOK(store) => InstalledOK(store')
  BY <1>3 DEF InstalledOK, Holders
<1> QED
  BY <1>1, <1>3, <1>4, <1>5 DEF StoreKept, CallsOK, FilesOK

LEMMA RegisterPluginDoes ==
  ASSUME store \in Store, CallsOK(store, calls), InstalledOK(store), NEW t \in Tenants,
         NEW price \in PluginPrices, NEW code \in BOOLEAN, NEW mode \in {"process", "restricted"},
         RegisterPlugin(t, price, code, mode)
  PROVE  StoreKept(store, calls, store', calls')
<1> DEFINE plugin == [tenant |-> t, status |-> "draft", price |-> price, code |-> code,
                      mode |-> mode, versions |-> 1, installs |-> 0, revenue |-> 0]
           plugins == Append(store.plugins, plugin)
           n == Len(store.plugins)
<1>1. store.plugins \in Seq(Plugin) /\ n \in Nat
  BY DEF Store
<1>2. store' = [store EXCEPT !.plugins = plugins] /\ calls' = calls
  BY DEF RegisterPlugin, Store
<1>3. plugin \in Plugin /\ plugin.installs = 0 /\ plugin.revenue = 0 /\ plugin.price \in Nat
  BY SharesAssumption DEF Plugin, Statuses
<1> HIDE DEF plugin
<1>4. /\ plugins \in Seq(Plugin) /\ Len(plugins) = n + 1 /\ plugins[n + 1] = plugin
      /\ \A q \in 1..n : plugins[q] = store.plugins[q]
  BY <1>1, <1>3
<1> HIDE DEF plugins
<1>5. /\ store' \in Store /\ store'.plugins = plugins /\ store'.installed = store.installed
      /\ store'.files = store.files /\ store'.abandoned = store.abandoned /\ store'.unstarted = store.unstarted
  BY <1>2, <1>4 DEF Store
<1>6. Worth(store', calls', n + 1) = 0
  <2>1. UnpaidIn(calls, n + 1) = {}
    BY <1>1 DEF UnpaidIn, CallsOK
  <2>2. Cardinality(UnpaidIn(calls, n + 1)) = 0
    BY <2>1, FS_EmptySet
  <2> QED
    BY <1>2, <1>3, <1>4, <1>5, <2>2 DEF Worth
<1>7. Earned(store', calls') = Earned(store, calls)
  <2> DEFINE old == [q \in 1..n |-> Worth(store, calls, q)]
             new == [q \in 1..(n + 1) |-> Worth(store', calls', q)]
  <2>1. Earned(store, calls) = SumList(old) /\ Earned(store', calls') = SumList(new)
    BY <1>4, <1>5 DEF Earned
  <2>2. old \in [1..n -> Int] /\ new \in [1..(n + 1) -> Int]
    BY <1>4, <1>5, WorthType
  <2>3. new[n + 1] = 0 /\ \A q \in 1..n : new[q] = old[q]
    BY <1>1, <1>2, <1>4, <1>5, <1>6 DEF Worth
  <2> HIDE DEF old, new
  <2>4. SumList(old) \in Int /\ SumList(new) = SumList(old) + new[n + 1]
    BY <1>1, <2>2, <2>3, SumExtended
  <2> QED
    BY <2>1, <2>3, <2>4
<1>8. InstalledOK(store')
  <2>1. Holders(store', n + 1) = {}
    BY <1>1, <1>5 DEF Holders, InstalledOK, Contains, Store
  <2>2. Cardinality(Holders(store', n + 1)) = 0
    BY <2>1, FS_EmptySet
  <2>3. ASSUME NEW q \in 1..(n + 1)
        PROVE  store'.plugins[q].installs = Cardinality(Holders(store', q))
    <3>1. CASE q = n + 1
      BY <1>3, <1>4, <1>5, <2>2, <3>1
    <3>2. CASE q # n + 1
      <4>1. q \in 1..n /\ Holders(store', q) = Holders(store, q)
        BY <1>1, <1>5, <3>2 DEF Holders
      <4> QED
        BY <1>4, <1>5, <4>1 DEF InstalledOK
    <3> QED
      BY <3>1, <3>2
  <2>4. 1..n \subseteq 1..(n + 1)
    BY <1>1
  <2> QED
    BY <1>4, <1>5, <2>3, <2>4 DEF InstalledOK
<1>9. CallsOK(store', calls')
  BY <1>1, <1>2, <1>4, <1>5 DEF CallsOK
<1> QED
  BY <1>2, <1>5, <1>7, <1>8, <1>9 DEF StoreKept, FilesOK

\* The state of the store after the request of a tenant to install a plugin.
WithInstalled(s, p, t) ==
  IF Contains(s.installed[t], p) THEN s
  ELSE [s EXCEPT !.installed[t] = Append(@, p), !.plugins[p].installs = @ + 1]

LEMMA WithInstalledDoes ==
  ASSUME NEW s \in Store, NEW t \in Tenants, NEW p \in 1..Len(s.plugins), InstalledOK(s)
  PROVE  LET d == WithInstalled(s, p, t) IN
         /\ d \in Store /\ InstalledOK(d) /\ Len(d.plugins) = Len(s.plugins)
         /\ \A q \in 1..Len(s.plugins) : /\ d.plugins[q].revenue = s.plugins[q].revenue
                                         /\ d.plugins[q].price = s.plugins[q].price
         /\ d.files = s.files /\ d.abandoned = s.abandoned /\ d.unstarted = s.unstarted
<1>1. CASE Contains(s.installed[t], p)
  BY <1>1 DEF WithInstalled
<1>2. CASE ~ Contains(s.installed[t], p)
  <2> DEFINE old == s.plugins[p]
             installs == old.installs + 1
             plugin == [old EXCEPT !.installs = installs]
             plugins == [s.plugins EXCEPT ![p] = plugin]
             list == Append(s.installed[t], p)
             installed == [s.installed EXCEPT ![t] = list]
             d == [s EXCEPT !.installed = installed, !.plugins = plugins]
  <2>1. WithInstalled(s, p, t) = d
    BY <1>2 DEF WithInstalled, Store
  <2>2. /\ s.plugins \in Seq(Plugin) /\ s.installed \in [Tenants -> Seq(Nat)] /\ old \in Plugin
        /\ s.installed[t] \in Seq(Nat) /\ installs \in Int
    <3>1. s.plugins \in Seq(Plugin) /\ s.installed \in [Tenants -> Seq(Nat)]
      BY DEF Store
    <3>2. old \in Plugin
      BY <3>1
    <3>3. old.installs \in Int
      <4> HIDE DEF old
      <4> QED
        BY <3>2 DEF Plugin
    <3> QED
      BY <3>1, <3>2, <3>3
  <2>3. /\ plugin \in Plugin /\ plugin.installs = installs /\ plugin.price = old.price
        /\ plugin.revenue = old.revenue
    <3> HIDE DEF old, installs
    <3> QED
      BY <2>2 DEF Plugin
  <2> HIDE DEF plugin
  <2>4. /\ plugins \in Seq(Plugin) /\ Len(plugins) = Len(s.plugins) /\ plugins[p] = plugin
        /\ \A q \in 1..Len(s.plugins) : q # p => plugins[q] = s.plugins[q]
    BY <2>2, <2>3
  <2>5. /\ list \in Seq(Nat) /\ Len(list) = Len(s.installed[t]) + 1 /\ list[Len(list)] = p
        /\ \A i \in 1..Len(s.installed[t]) : list[i] = s.installed[t][i]
    BY <2>2
  <2> HIDE DEF plugins, list
  <2>6. /\ installed \in [Tenants -> Seq(Nat)] /\ installed[t] = list
        /\ \A u \in Tenants : u # t => installed[u] = s.installed[u]
    BY <2>2, <2>5
  <2> HIDE DEF installed
  <2>7. /\ d \in Store /\ d.plugins = plugins /\ d.installed = installed /\ d.files = s.files
        /\ d.abandoned = s.abandoned /\ d.unstarted = s.unstarted
    BY <2>4, <2>6 DEF Store
  <2> HIDE DEF d
  <2>8. \A u \in Tenants : IsInjective(d.installed[u])
    <3>1. IsInjective(list)
      <4> DEFINE old0 == s.installed[t]
                 n == Len(old0)
      <4>1. /\ old0 \in Seq(Nat) /\ n \in Nat /\ DOMAIN old0 = 1..n /\ DOMAIN list = 1..(n + 1)
            /\ list[n + 1] = p /\ \A i \in 1..n : list[i] = old0[i]
        BY <2>2, <2>5
      <4>2. /\ \A i, j \in 1..n : old0[i] = old0[j] => i = j
            /\ \A i \in 1..n : old0[i] # p
        BY <1>2, <4>1 DEF InstalledOK, IsInjective, Contains
      <4> HIDE DEF old0, n
      <4>3. ASSUME NEW i \in 1..(n + 1), NEW j \in 1..(n + 1), list[i] = list[j] PROVE i = j
        <5>1. (i \in 1..n \/ i = n + 1) /\ (j \in 1..n \/ j = n + 1)
          BY <4>1
        <5> QED
          BY <4>1, <4>2, <4>3, <5>1
      <4> QED
        BY <4>1, <4>3 DEF IsInjective
    <3>2. ASSUME NEW u \in Tenants PROVE IsInjective(d.installed[u])
      <4>1. IsInjective(s.installed[u])
        BY DEF InstalledOK
      <4>2. d.installed[u] = IF u = t THEN list ELSE s.installed[u]
        BY <2>6, <2>7
      <4> QED
        BY <3>1, <4>1, <4>2
    <3> QED
      BY <3>2
  <2>9. \A u \in Tenants : \A i \in DOMAIN d.installed[u] : d.installed[u][i] \in 1..Len(d.plugins)
    <3>1. ASSUME NEW i \in DOMAIN list PROVE list[i] \in 1..Len(s.plugins)
      <4>1. i \in 1..Len(s.installed[t]) \/ i = Len(list)
        <5>1. Len(s.installed[t]) \in Nat /\ i \in 1..Len(list)
          BY SMTT(30), <2>2, <2>5
        <5> QED
          BY <2>5, <5>1
      <4>2. \A j \in 1..Len(s.installed[t]) : s.installed[t][j] \in 1..Len(s.plugins)
        BY <2>2 DEF InstalledOK
      <4> QED
        BY <2>5, <4>1, <4>2
    <3> QED
      BY <2>4, <2>6, <2>7, <3>1 DEF InstalledOK
  <2>10. ASSUME NEW q \in 1..Len(s.plugins)
         PROVE  d.plugins[q].installs = Cardinality(Holders(d, q))
    <3>1. \A u \in Tenants : u # t => (u \in Holders(d, q) <=> u \in Holders(s, q))
      BY <2>6, <2>7 DEF Holders
    <3>2. t \in Holders(d, q) <=> t \in Holders(s, q) \/ q = p
      <4>1. t \in Holders(d, q) <=> \E i \in 1..Len(list) : list[i] = q
        BY <2>6, <2>7 DEF Holders, Contains
      <4>2. t \in Holders(s, q) <=> \E i \in 1..Len(s.installed[t]) : s.installed[t][i] = q
        BY DEF Holders, Contains
      <4> DEFINE old0 == s.installed[t]
                 n == Len(old0)
      <4>3. /\ n \in Nat /\ Len(list) = n + 1 /\ list[n + 1] = p
            /\ \A i \in 1..n : list[i] = old0[i]
        BY <2>2, <2>5
      <4> HIDE DEF old0, n
      <4>4. 1..(n + 1) = 1..n \cup {n + 1}
        BY <4>3
      <4>5. (\E i \in 1..(n + 1) : list[i] = q) <=> (\E i \in 1..n : old0[i] = q) \/ q = p
        BY <4>3, <4>4
      <4> QED
        BY <4>1, <4>2, <4>3, <4>5 DEF old0, n
    <3>3. s.plugins[q].installs = Cardinality(Holders(s, q)) /\ IsFiniteSet(Holders(s, q))
      BY PartiesAssumption, FS_Subset DEF InstalledOK, Holders
    <3>4. CASE q = p
      <4>1. t \notin Holders(s, q) /\ Holders(d, q) = Holders(s, q) \cup {t}
        BY <1>2, <3>1, <3>2, <3>4 DEF Holders
      <4>2. Cardinality(Holders(d, q)) = Cardinality(Holders(s, q)) + 1
        BY <3>3, <4>1, FS_AddElement
      <4> QED
        BY <2>3, <2>4, <2>7, <3>3, <3>4, <4>2
    <3>5. CASE q # p
      <4>1. Holders(d, q) = Holders(s, q)
        BY <3>1, <3>2, <3>5 DEF Holders
      <4> QED
        BY <2>4, <2>7, <3>3, <3>5, <4>1
    <3> QED
      BY <3>4, <3>5
  <2>11. \A q \in 1..Len(s.plugins) : /\ d.plugins[q].revenue = s.plugins[q].revenue
                                      /\ d.plugins[q].price = s.plugins[q].price
    BY <2>3, <2>4, <2>7
  <2> QED
    BY <2>1, <2>4, <2>7, <2>8, <2>9, <2>10, <2>11 DEF InstalledOK
<1> QED
  BY <1>1, <1>2

\* An installation that is paid for, and will be credited.
LEMMA InstallPluginDoes ==
  ASSUME store \in Store, CallsOK(store, calls), InstalledOK(store), NEW c \in Calls,
         NEW p \in 1..Len(store.plugins), NEW t \in Tenants, InstallPlugin(c, p, t)
  PROVE  /\ store' \in Store /\ CallsOK(store', calls') /\ InstalledOK(store')
         /\ FilesOK(store, calls) => FilesOK(store', calls')
         /\ \/ store.plugins[p].price = 0 /\ books' = books /\ calls' = calls
            \/ /\ calls[c] = Idle
               /\ calls' = [calls EXCEPT ![c] = [op |-> "install", plugin |-> p]]
               /\ books' = DistributePluginRevenue(books, Now, t, store.plugins[p].tenant,
                                                   store.plugins[p].price)
         /\ Earned(store', calls') = Earned(store, calls) + store.plugins[p].price
<1> DEFINE price == store.plugins[p].price
           call == [op |-> "install", plugin |-> p]
<1>1. store' = WithInstalled(store, p, t)
  BY DEF InstallPlugin, WithInstalled
<1>2. /\ store' \in Store /\ InstalledOK(store') /\ Len(store'.plugins) = Len(store.plugins)
      /\ \A q \in 1..Len(store.plugins) :
           /\ store'.plugins[q].revenue = store.plugins[q].revenue
           /\ store'.plugins[q].price = store.plugins[q].price
      /\ store'.files = store.files /\ store'.abandoned = store.abandoned /\ store'.unstarted = store.unstarted
  BY <1>1, WithInstalledDoes
<1>3. price \in Nat /\ store.plugins[p].revenue \in Int
  <2>1. store.plugins[p] \in Plugin
    BY DEF Store
  <2> QED
    BY <2>1, SharesAssumption DEF Plugin
<1>4. CASE price = 0
  <2>1. books' = books /\ calls' = calls
    BY <1>4 DEF InstallPlugin
  <2>2. \A q \in 1..Len(store.plugins) : Worth(store', calls', q) = Worth(store, calls, q)
    BY <1>2, <2>1 DEF Worth
  <2>3. Earned(store', calls') = Earned(store, calls)
    BY <1>2, <2>2, EarnedSame
  <2>4. Earned(store, calls) \in Int
    BY EarnedType
  <2> QED
    BY <1>2, <1>4, <2>1, <2>3, <2>4 DEF CallsOK, FilesOK
<1>5. CASE price # 0
  <2>1. /\ calls[c] = Idle /\ calls' = [calls EXCEPT ![c] = call]
        /\ books' = DistributePluginRevenue(books, Now, t, store.plugins[p].tenant, price)
    BY <1>5 DEF InstallPlugin, Free
  <2>2. /\ calls \in [Calls -> Call] /\ call \in Call /\ call.op = "install" /\ call.plugin = p
        /\ calls[c].op = "idle"
    BY <2>1 DEF CallsOK, Call, Idle
  <2> HIDE DEF call
  <2>3. /\ calls' \in [Calls -> Call]
        /\ \A q : Cardinality(UnpaidIn(calls', q))
                    = Cardinality(UnpaidIn(calls, q)) + (IF p = q THEN 1 ELSE 0)
        /\ Cardinality(Running(calls')) = Cardinality(Running(calls))
    <3>1. /\ \A q : Cardinality(UnpaidIn(calls, q)) \in Nat
          /\ Cardinality(Running(calls)) \in Nat
      BY CardinalsType
    <3>2. CallMoved(calls, calls', c, call)
      BY <2>1, <2>2, CallChanged
    <3> QED
      BY <2>2, <3>1, <3>2 DEF CallMoved
  <2>4. \A q \in 1..Len(store.plugins) : q # p =>
          Worth(store', calls', q) = Worth(store, calls, q)
    <3>1. \A q : q # p => Cardinality(UnpaidIn(calls', q)) = Cardinality(UnpaidIn(calls, q))
      BY <2>3, CardinalsType
    <3> QED
      BY <1>2, <3>1 DEF Worth
  <2>5. Worth(store', calls', p) = Worth(store, calls, p) + price
    <3> DEFINE n == Cardinality(UnpaidIn(calls, p))
               r == store.plugins[p].revenue
    <3>1. /\ Worth(store', calls', p) = r + price * (n + 1)
          /\ Worth(store, calls, p) = r + price * n
      BY <1>2, <2>3 DEF Worth
    <3>2. n \in Nat /\ r \in Int /\ price \in Nat
      BY <1>3, CardinalsType
    <3> HIDE DEF n, r, price
    <3> QED
      BY <3>1, <3>2
  <2>6. Earned(store', calls') = Earned(store, calls) + price
    <3>1. store' \in Store /\ Len(store'.plugins) = Len(store.plugins) /\ price \in Int
      BY <1>2, <1>3
    <3> HIDE DEF price
    <3> QED
      BY <2>4, <2>5, <3>1, EarnedChanged
  <2>7. CallsOK(store', calls')
    BY <1>2, <2>1, <2>2, <2>3 DEF CallsOK
  <2>8. FilesOK(store, calls) => FilesOK(store', calls')
    BY <1>2, <2>3 DEF FilesOK
  <2> QED
    BY <1>2, <2>1, <2>6, <2>7, <2>8 DEF call
<1> QED
  BY <1>4, <1>5

\* The plugin is credited with what it waited for.
LEMMA PluginPaidDoes ==
  ASSUME store \in Store, CallsOK(store, calls), NEW c \in Calls, PluginPaid(c)
  PROVE  StoreKept(store, calls, store', calls')
<1> DEFINE p == calls[c].plugin
           old == store.plugins[p]
           revenue == old.revenue + old.price
           plugin == [old EXCEPT !.revenue = revenue]
<1>1. /\ calls \in [Calls -> Call] /\ calls[c].op = "install" /\ p \in 1..Len(store.plugins)
      /\ calls' = [calls EXCEPT ![c] = Idle] /\ Idle \in Call /\ Idle.op = "idle"
  BY DEF PluginPaid, CallsOK, Finish, Call, Idle
<1>2. old \in Plugin
  BY <1>1 DEF Store
<1>3. old.revenue \in Int /\ old.price \in Nat /\ revenue \in Int
  <2>1. old.revenue \in Int /\ old.price \in Nat
    <3> HIDE DEF old
    <3> QED
      BY <1>2, SharesAssumption DEF Plugin
  <2> HIDE DEF old
  <2> QED
    BY <2>1
<1>4. store' = [store EXCEPT !.plugins = [store.plugins EXCEPT ![p] = plugin]]
  BY DEF PluginPaid, Store
<1> HIDE DEF p
<1>5. /\ plugin \in Plugin /\ plugin.price = old.price /\ plugin.installs = old.installs
      /\ plugin.revenue = revenue
  <2> HIDE DEF old, revenue
  <2> QED
    BY <1>2, <1>3 DEF Plugin
<1> HIDE DEF plugin
<1>6. /\ store' \in Store /\ Len(store'.plugins) = Len(store.plugins)
      /\ store'.plugins[p] = plugin
      /\ \A q \in 1..Len(store.plugins) : q # p => store'.plugins[q] = store.plugins[q]
      /\ store'.files = store.files /\ store'.abandoned = store.abandoned /\ store'.unstarted = store.unstarted
      /\ InstalledOK(store) => InstalledOK(store')
  BY SMTT(30), <1>1, <1>4, <1>5, PluginSet
<1>7. CallMoved(calls, calls', c, Idle)
  BY <1>1, CallChanged
<1>8. /\ calls' \in [Calls -> Call]
      /\ \A q : Cardinality(UnpaidIn(calls', q))
                  = Cardinality(UnpaidIn(calls, q)) - (IF q = p THEN 1 ELSE 0)
      /\ Cardinality(Running(calls')) = Cardinality(Running(calls))
  <2>1. /\ \A q : Cardinality(UnpaidIn(calls, q)) \in Nat
        /\ Cardinality(Running(calls)) \in Nat
    BY CardinalsType
  <2>2. calls[c].plugin = p
    BY DEF p
  <2>3. calls' \in [Calls -> Call] /\ Cardinality(Running(calls')) = Cardinality(Running(calls))
    BY <1>1, <1>7, <2>1 DEF CallMoved
  <2>4. ASSUME NEW q
        PROVE  Cardinality(UnpaidIn(calls', q))
                 = Cardinality(UnpaidIn(calls, q)) - (IF q = p THEN 1 ELSE 0)
    <3>1. Cardinality(UnpaidIn(calls', q))
            = Cardinality(UnpaidIn(calls, q)) + 0 - (IF p = q THEN 1 ELSE 0)
      BY <1>1, <1>7, <2>2 DEF CallMoved
    <3> QED
      BY <2>1, <3>1
  <2> QED
    BY <2>3, <2>4
<1>9. \A q \in 1..Len(store.plugins) : q # p => Worth(store', calls', q) = Worth(store, calls, q)
  <2>1. \A q : q # p => Cardinality(UnpaidIn(calls', q)) = Cardinality(UnpaidIn(calls, q))
    BY <1>8, CardinalsType
  <2> QED
    BY <1>6, <2>1 DEF Worth
<1>10. Worth(store', calls', p) = Worth(store, calls, p)
  <2> DEFINE n == Cardinality(UnpaidIn(calls, p))
             r == old.revenue
             x == old.price
  <2>1. Worth(store', calls', p) = (r + x) + x * (n - 1) /\ Worth(store, calls, p) = r + x * n
    BY <1>5, <1>6, <1>8 DEF Worth
  <2>2. n \in Nat /\ r \in Int /\ x \in Nat
    BY <1>3, CardinalsType
  <2> HIDE DEF n, r, x
  <2> QED
    BY <2>1, <2>2
<1>11. Earned(store', calls') = Earned(store, calls)
  <2>1. \A q \in 1..Len(store.plugins) : Worth(store', calls', q) = Worth(store, calls, q)
    BY <1>9, <1>10
  <2> QED
    BY <1>6, <2>1, EarnedSame
<1>12. CallsOK(store', calls')
  BY <1>1, <1>6, <1>8 DEF CallsOK
<1> QED
  BY <1>6, <1>8, <1>11, <1>12 DEF StoreKept, FilesOK

\* The files of the requests that run.
Owned(s) == s.files - s.abandoned - s.unstarted

\* A sum of what there is and a count of what is left say the same.
LEMMA LeftOf ==
  ASSUME NEW f \in Int, NEW n \in Int, NEW a \in Int, NEW u \in Int
  PROVE  f = n + a + u <=> f - a - u = n
OBVIOUS

LEMMA OwnedIs ==
  ASSUME NEW s, NEW cs, s.files \in Int, s.abandoned \in Int, s.unstarted \in Int
  PROVE  FilesOK(s, cs) <=> Owned(s) = Cardinality(Running(cs))
<1> DEFINE n == Cardinality(Running(cs))
<1>1. n \in Int
  BY CardinalsType
<1> HIDE DEF n
<1>2. s.files = n + s.abandoned + s.unstarted <=> s.files - s.abandoned - s.unstarted = n
  BY <1>1, LeftOf
<1>3. FilesOK(s, cs) <=> s.files = n + s.abandoned + s.unstarted
  BY DEF FilesOK, n
<1>4. Owned(s) = n <=> s.files - s.abandoned - s.unstarted = n
  BY DEF Owned
<1>5. FilesOK(s, cs) <=> Owned(s) = n
  BY <1>2, <1>3, <1>4
<1> QED
  BY <1>5 DEF n

\* A request that does not install begins or ends; the plugins stay.
LEMMA CallOnly ==
  ASSUME NEW s \in Store, NEW cs, CallsOK(s, cs), NEW c \in Calls, NEW v \in Call,
         NEW d \in Store, NEW ds, ds = [cs EXCEPT ![c] = v],
         d.plugins = s.plugins, d.installed = s.installed,
         cs[c].op # "install", v.op # "install",
         v.op = "execute" => v.plugin \in 1..Len(s.plugins),
         Owned(d) = Owned(s) + (IF v.op = "execute" THEN 1 ELSE 0)
                             - (IF cs[c].op = "execute" THEN 1 ELSE 0)
  PROVE  StoreKept(s, cs, d, ds)
<1>1. cs \in [Calls -> Call]
  BY DEF CallsOK
<1>2. CallMoved(cs, ds, c, v)
  BY <1>1, CallChanged
<1>3. /\ ds \in [Calls -> Call]
      /\ \A q : Cardinality(UnpaidIn(ds, q)) = Cardinality(UnpaidIn(cs, q))
  <2>1. \A q : Cardinality(UnpaidIn(cs, q)) \in Nat
    BY CardinalsType
  <2>2. ASSUME NEW q PROVE Cardinality(UnpaidIn(ds, q)) = Cardinality(UnpaidIn(cs, q))
    <3>1. Cardinality(UnpaidIn(ds, q)) = Cardinality(UnpaidIn(cs, q)) + 0 - 0
      BY <1>2 DEF CallMoved
    <3> QED
      BY <2>1, <3>1
  <2> QED
    BY <1>2, <2>2 DEF CallMoved
<1>4. Earned(d, ds) = Earned(s, cs)
  <2>1. \A q \in 1..Len(s.plugins) : Worth(d, ds, q) = Worth(s, cs, q)
    BY <1>3 DEF Worth
  <2>2. [q \in 1..Len(d.plugins) |-> Worth(d, ds, q)] = [q \in 1..Len(s.plugins) |-> Worth(s, cs, q)]
    BY <2>1
  <2> QED
    BY <2>2 DEF Earned
<1>5. InstalledOK(s) => InstalledOK(d)
  BY DEF InstalledOK, Holders
<1>6. CallsOK(d, ds)
  BY <1>1, <1>3 DEF CallsOK
<1>7. ASSUME FilesOK(s, cs) PROVE FilesOK(d, ds)
  <2>1. /\ s.files \in Int /\ s.abandoned \in Int /\ s.unstarted \in Int
        /\ d.files \in Int /\ d.abandoned \in Int /\ d.unstarted \in Int
    BY DEF Store
  <2>2. Cardinality(Running(cs)) \in Nat /\ Cardinality(Running(ds)) \in Nat
    BY CardinalsType
  <2>3. Cardinality(Running(ds))
          = Cardinality(Running(cs)) + (IF v.op = "execute" THEN 1 ELSE 0)
              - (IF cs[c].op = "execute" THEN 1 ELSE 0)
    BY <1>2 DEF CallMoved
  <2>4. Owned(s) = Cardinality(Running(cs))
    BY <1>7, <2>1, OwnedIs
  <2>5. Owned(d) = Cardinality(Running(ds))
    <3>1. CASE v.op = "execute"
      BY <2>2, <2>3, <2>4, <3>1
    <3>2. CASE v.op # "execute"
      BY <2>2, <2>3, <2>4, <3>2
    <3> QED
      BY <3>1, <3>2
  <2> QED
    BY <2>1, <2>5, OwnedIs
<1> QED
  BY <1>4, <1>5, <1>6, <1>7 DEF StoreKept

LEMMA StoreSet ==
  ASSUME NEW s \in Store, NEW n \in Int
  PROVE  /\ LET d == [s EXCEPT !.files = n] IN
            /\ d \in Store /\ d.plugins = s.plugins /\ d.installed = s.installed
            /\ d.files = n /\ d.abandoned = s.abandoned /\ d.unstarted = s.unstarted
         /\ LET d == [s EXCEPT !.abandoned = n] IN
            /\ d \in Store /\ d.plugins = s.plugins /\ d.installed = s.installed
            /\ d.files = s.files /\ d.abandoned = n /\ d.unstarted = s.unstarted
         /\ LET d == [s EXCEPT !.unstarted = n] IN
            /\ d \in Store /\ d.plugins = s.plugins /\ d.installed = s.installed
            /\ d.files = s.files /\ d.abandoned = s.abandoned /\ d.unstarted = n
BY DEF Store

LEMMA ExecutePluginDoes ==
  ASSUME store \in Store, CallsOK(store, calls), NEW c \in Calls, NEW p \in 1..Len(store.plugins),
         NEW t \in Tenants, ExecutePlugin(c, p, t)
  PROVE  /\ StoreKept(store, calls, store', calls')
         /\ \/ calls' = calls
            \/ \E v \in Call : /\ calls' = [calls EXCEPT ![c] = v]
                               /\ calls[c] = Idle /\ v.op = "execute"
<1>1. CASE store.plugins[p].mode = "restricted"
  BY <1>1 DEF ExecutePlugin, StoreKept
<1>2. CASE store.plugins[p].mode # "restricted"
  <2> DEFINE v == [op |-> "execute", plugin |-> p]
  <2>1. /\ calls' = [calls EXCEPT ![c] = v] /\ calls[c] = Idle
        /\ store' = [store EXCEPT !.files = store.files + 1]
    BY <1>2 DEF ExecutePlugin, Free, Store
  <2>2. v \in Call /\ v.op = "execute" /\ v.plugin = p /\ calls[c].op = "idle"
    BY <2>1 DEF Call, Idle
  <2> HIDE DEF v
  <2>3. store.files \in Int /\ store.abandoned \in Int /\ store.unstarted \in Int
    BY DEF Store
  <2>4. /\ store' \in Store /\ store'.plugins = store.plugins
        /\ store'.installed = store.installed /\ store'.files = store.files + 1
        /\ store'.abandoned = store.abandoned /\ store'.unstarted = store.unstarted
    <3>1. store.files + 1 \in Int
      BY <2>3
    <3> QED
      BY <2>1, <3>1, StoreSet
  <2>5. Owned(store') = Owned(store) + (IF v.op = "execute" THEN 1 ELSE 0)
                                     - (IF calls[c].op = "execute" THEN 1 ELSE 0)
    BY <2>2, <2>3, <2>4 DEF Owned
  <2>6. StoreKept(store, calls, store', calls')
    BY <2>1, <2>2, <2>4, <2>5, CallOnly
  <2> QED
    BY <2>1, <2>2, <2>6
<1> QED
  BY <1>1, <1>2

LEMMA PluginEndsDoes ==
  ASSUME store \in Store, CallsOK(store, calls), NEW c \in Calls,
         PluginEnds(c) \/ PluginTimesOut(c) \/ PluginFails(c)
  PROVE  StoreKept(store, calls, store', calls')
<1>1. /\ calls' = [calls EXCEPT ![c] = Idle] /\ calls[c].op = "execute"
      /\ Idle \in Call /\ Idle.op = "idle"
  BY DEF PluginEnds, PluginTimesOut, PluginFails, Finish, Call, Idle
<1>2. store.files \in Int /\ store.abandoned \in Int /\ store.unstarted \in Int
  BY DEF Store
<1>3. /\ store' \in Store /\ store'.plugins = store.plugins /\ store'.installed = store.installed
      /\ Owned(store') = Owned(store) - 1
  <2>1. CASE PluginEnds(c)
    <3>1. store' = [store EXCEPT !.files = store.files - 1]
      BY <2>1 DEF PluginEnds, Store
    <3>2. /\ store' \in Store /\ store'.plugins = store.plugins
          /\ store'.installed = store.installed /\ store'.files = store.files - 1
          /\ store'.abandoned = store.abandoned /\ store'.unstarted = store.unstarted
      <4>1. store.files - 1 \in Int
        BY <1>2
      <4> QED
        BY <3>1, <4>1, StoreSet
    <3> QED
      BY <1>2, <3>2 DEF Owned
  <2>2. CASE PluginTimesOut(c)
    <3>1. store' = [store EXCEPT !.abandoned = store.abandoned + 1]
      BY <2>2 DEF PluginTimesOut, Store
    <3>2. /\ store' \in Store /\ store'.plugins = store.plugins
          /\ store'.installed = store.installed /\ store'.files = store.files
          /\ store'.abandoned = store.abandoned + 1
          /\ store'.unstarted = store.unstarted
      <4>1. store.abandoned + 1 \in Int
        BY <1>2
      <4> QED
        BY <3>1, <4>1, StoreSet
    <3> QED
      BY <1>2, <3>2 DEF Owned
  <2>3. CASE PluginFails(c)
    <3>1. store' = [store EXCEPT !.unstarted = store.unstarted + 1]
      BY <2>3 DEF PluginFails, Store
    <3>2. /\ store' \in Store /\ store'.plugins = store.plugins
          /\ store'.installed = store.installed /\ store'.files = store.files
          /\ store'.abandoned = store.abandoned
          /\ store'.unstarted = store.unstarted + 1
      <4>1. store.unstarted + 1 \in Int
        BY <1>2
      <4> QED
        BY <3>1, <4>1, StoreSet
    <3> QED
      BY <1>2, <3>2 DEF Owned
  <2> QED
    BY <2>1, <2>2, <2>3
<1>4. Owned(store') = Owned(store) + (IF Idle.op = "execute" THEN 1 ELSE 0)
                                   - (IF calls[c].op = "execute" THEN 1 ELSE 0)
  BY <1>1, <1>2, <1>3 DEF Owned
<1> QED
  BY <1>1, <1>3, <1>4, CallOnly

\* Requests about agents do not disturb the plugins.
LEMMA AgentCall ==
  ASSUME store \in Store, CallsOK(store, calls), store' = store, NEW c \in Calls, NEW v \in Call,
         calls' = [calls EXCEPT ![c] = v],
         calls[c].op \in {"idle", "create_agent"}, v.op \in {"idle", "create_agent"}
  PROVE  StoreKept(store, calls, store', calls')
<1>1. Owned(store) \in Int
  BY DEF Store, Owned
<1>2. Owned(store') = Owned(store) + (IF v.op = "execute" THEN 1 ELSE 0)
                                   - (IF calls[c].op = "execute" THEN 1 ELSE 0)
  BY <1>1
<1> QED
  BY <1>2, CallOnly

\* Requests about plugins do not disturb the agents that are on the way.
LEMMA KnownKept ==
  ASSUME calls \in [Calls -> Call], Known(market, calls), market' = market, NEW c \in Calls,
         NEW v, calls' = [calls EXCEPT ![c] = v], calls[c].op # "create_agent"
  PROVE  Known(market', calls')
<1>1. ASSUME NEW a, NEW e \in Calls, calls[e] = Creating(a) PROVE calls'[e] = Creating(a)
  BY <1>1 DEF Creating
<1> QED
  BY <1>1 DEF Known

----------------------------------------------------------------------------
(* The inductive invariant. *)

\* The shares are of requests that were served.
Recorded(b, n) == \A j \in DOMAIN b.shares : b.shares[j].tx <= n

\* Every sale is of a request that was served, and is shared once.
Divided(m, b, n) ==
  \A i \in DOMAIN m.purchases :
    LET sale == m.purchases[i] IN
    /\ sale.tx <= n
    /\ SharedIn(b.shares, sale.tx) = sale.amount - Percent(sale.amount, AgentShare.affiliate)
    /\ \A j \in DOMAIN b.shares :
         b.shares[j].tx = sale.tx => b.shares[j].from = sale.buyer
    /\ EntriesIn(b.shares, sale.tx) \in {0, 2}

Typed ==
  /\ books \in Books /\ market \in Market /\ store \in Store
  /\ CallsOK(store, calls) /\ served \in Nat

IInv ==
  /\ Typed
  /\ Balanced(books)
  /\ Counted(market) /\ Known(market, calls)
  /\ InstalledOK(store) /\ FilesOK(store, calls)
  /\ PluginsIn(books.shares) = Earned(store, calls)
  /\ Recorded(books, served) /\ Divided(market, books, served)

\* What a step keeps, and what it shows.
Good == IInv' /\ Visible(market, market') /\ Grown(books, books')

LEMMA EmptyPartly ==
  ASSUME NEW K, NEW V
  PROVE  <<>> \in Partly(K, V)
<1>1. <<>> \in [{} -> V] /\ {} \in SUBSET K
  OBVIOUS
<1> QED
  BY <1>1 DEF Partly

LEMMA NumbersType ==
  ASSUME IInv
  PROVE  /\ served \in Nat
         /\ \A j \in DOMAIN books.shares : books.shares[j].tx \in Nat
         /\ \A i \in DOMAIN market.purchases : market.purchases[i].tx \in Nat
<1>1. books.shares \in Seq(Share) /\ market.purchases \in Seq(Sale) /\ served \in Nat
  BY DEF IInv, Typed, Books, Market
<1>2. /\ \A j \in DOMAIN books.shares : books.shares[j] \in Share
      /\ \A i \in DOMAIN market.purchases : market.purchases[i] \in Sale
  BY <1>1
<1> QED
  BY <1>1, <1>2 DEF Share, Sale

LEMMA InitInv == Init => IInv
<1> SUFFICES ASSUME Init PROVE IInv
  OBVIOUS
<1> DEFINE accounts == [t \in Tenants |-> [earned |-> 0, spent |-> 0, balance |-> 0]]
<1>1. /\ books.accounts = accounts /\ books.granted = [t \in Tenants |-> 0]
      /\ books.shares = <<>> /\ books.usage = <<>> /\ books.payouts = <<>>
      /\ books.records = <<>>
  BY DEF Init
<1>2. books \in Books
  <2>1. accounts \in [Tenants -> Account] /\ [t \in Tenants |-> 0] \in [Tenants -> Int]
    BY DEF Account
  <2>2. <<>> \in Quotas
    BY DEF Quotas, Partly
  <2> HIDE DEF accounts
  <2> QED
    BY <2>1, <2>2 DEF Init, Books, accounts
<1>3. market \in Market
  <2>1. <<>> \in Partly(AgentIds, Agent) /\ <<>> \in Partly(Reviewed, Ratings)
    BY EmptyPartly
  <2> QED
    BY <2>1 DEF Init, Market
<1>4. store \in Store
  BY DEF Init, Store
<1>5. CallsOK(store, calls) /\ served \in Nat
  BY DEF Init, CallsOK, Call, Idle
<1>6. Balanced(books)
  <2> SUFFICES ASSUME NEW t \in Tenants
               PROVE  /\ accounts[t].balance = accounts[t].earned - accounts[t].spent
                      /\ accounts[t].earned = 0 + SharesIn(<<>>, t) + PaidIn(<<>>, t)
                      /\ accounts[t].spent = UsedIn(<<>>, t)
                      /\ CostIn(<<>>, t) <= accounts[t].spent
    BY <1>1 DEF Balanced
  <2>1. /\ <<>> \in Seq(Share) /\ <<>> \in Seq(Payout) /\ <<>> \in Seq(Use) /\ <<>> \in Seq(Record)
        /\ 1..Len(<<>>) = {}
    OBVIOUS
  <2>2. SharesIn(<<>>, t) = 0 /\ PaidIn(<<>>, t) = 0 /\ UsedIn(<<>>, t) = 0 /\ CostIn(<<>>, t) = 0
    BY <2>1, SharesRows, PaidRows, UsedRows, CostRows
  <2> QED
    BY <2>2
<1>7. Counted(market) /\ Known(market, calls)
  BY DEF Init, Counted, Known
<1>8. InstalledOK(store)
  BY DEF Init, InstalledOK, IsInjective
<1>9. FilesOK(store, calls)
  <2>1. Running(calls) = {}
    BY DEF Init, Running, Idle
  <2>2. Cardinality(Running(calls)) = 0
    BY <2>1, FS_EmptySet
  <2> QED
    BY <2>2 DEF Init, FilesOK
<1>10. PluginsIn(books.shares) = Earned(store, calls)
  <2>1. <<>> \in Seq(Share) /\ 1..Len(<<>>) = {}
    OBVIOUS
  <2>2. PluginsIn(<<>>) = 0
    BY <2>1, PluginsRows
  <2>3. store.plugins = <<>>
    BY DEF Init
  <2>4. [p \in 1..Len(store.plugins) |-> Worth(store, calls, p)] = <<>>
    BY <2>3
  <2>5. Earned(store, calls) = 0
    BY <2>4, SumEmpty DEF Earned
  <2> QED
    BY <1>1, <2>2, <2>5
<1>11. Recorded(books, served) /\ Divided(market, books, served)
  BY DEF Init, Recorded, Divided
<1> QED
  BY <1>2, <1>3, <1>4, <1>5, <1>6, <1>7, <1>8, <1>9, <1>10, <1>11 DEF IInv, Typed

LEMMA BooksOnlyGood ==
  ASSUME IInv, NEW b, BooksOnly(b), Kept(books, b), Grown(books, b)
  PROVE  Good
<1>1. /\ books' = b /\ market' = market /\ store' = store /\ calls' = calls
      /\ served' = served + 1 /\ served \in Nat
  BY DEF BooksOnly, Serve, IInv, Typed
<1>2. b \in Books /\ b.shares = books.shares /\ Balanced(b)
  BY DEF Kept, IInv
<1>3. Recorded(b, served + 1) /\ Divided(market, b, served + 1)
  BY <1>1, <1>2, NumbersType DEF IInv, Recorded, Divided
<1>4. Visible(market, market)
  BY DEF Visible, Longer
<1> QED
  BY <1>1, <1>2, <1>3, <1>4 DEF Good, IInv, Typed

LEMMA LaterDivided ==
  ASSUME IInv
  PROVE  Recorded(books, served + 1) /\ Divided(market, books, served + 1)
BY NumbersType DEF IInv, Recorded, Divided

LEMMA MarketOnlyGood ==
  ASSUME IInv, MarketKept(market, market'), Serve, UNCHANGED <<books, store, calls>>
  PROVE  Good
<1>1. served' = served + 1 /\ served \in Nat
  BY DEF Serve, IInv, Typed
<1>2. Recorded(books, served + 1) /\ Divided(market', books, served + 1)
  BY LaterDivided DEF MarketKept, Divided
<1>3. Known(market', calls)
  BY DEF IInv, Known, MarketKept
<1>4. Grown(books, books')
  BY DEF Grown, Longer
<1> QED
  BY <1>1, <1>2, <1>3, <1>4 DEF Good, IInv, Typed, MarketKept

LEMMA StoreOnlyGood ==
  ASSUME IInv, StoreKept(store, calls, store', calls'), served' \in {served, served + 1},
         books' = books, market' = market, Known(market', calls')
  PROVE  Good
<1>1. served' \in Nat
  BY DEF IInv, Typed
<1>2. Recorded(books, served') /\ Divided(market, books, served')
  BY LaterDivided DEF IInv
<1>3. Visible(market, market') /\ Grown(books, books')
  BY DEF Visible, Grown, Longer
<1> QED
  BY <1>1, <1>2, <1>3 DEF Good, IInv, Typed, StoreKept

\* A sale shares what is due under its own number, that no earlier sale has.
LEMMA SoldDivided ==
  ASSUME IInv, NEW type, NEW buyer, NEW seller \in Tenants, NEW fee \in Nat, NEW cut \in Nat,
         Sold(books, books', type, Now, buyer, seller, fee, cut)
  PROVE  /\ books' \in Books /\ Balanced(books') /\ Grown(books, books')
         /\ Recorded(books', served + 1) /\ Divided(market, books', served + 1)
         /\ SharedIn(books'.shares, Now) = fee + cut
         /\ EntriesIn(books'.shares, Now)
              = (IF fee # 0 THEN 1 ELSE 0) + (IF cut # 0 THEN 1 ELSE 0)
         /\ \A j \in DOMAIN books'.shares : books'.shares[j].tx = Now => books'.shares[j].from = buyer
<1>1. books \in Books /\ served \in Nat /\ Now = served + 1 /\ market \in Market
  BY DEF IInv, Typed, Now
<1>2. books' \in Books /\ Balanced(books')
  <2>1. Balanced(books)
    BY DEF IInv
  <2>2. Balanced(books')
    BY <1>1, <2>1, SoldBalanced
  <2> QED
    BY <2>2 DEF Sold
<1>3. Grown(books, books')
  <2>1. books'.subscriptions = books.subscriptions /\ books'.records = books.records
    BY <1>1 DEF Sold, Books
  <2> QED
    BY <2>1 DEF Grown, Longer
<1>4. /\ books.shares \in Seq(Share)
      /\ \A j \in DOMAIN books.shares : books.shares[j].tx \in Nat /\ books.shares[j].tx <= served
  BY <1>1, NumbersType DEF Books, IInv, Recorded
<1>5. SharedIn(books.shares, Now) = 0 /\ EntriesIn(books.shares, Now) = 0
  <2>1. \A j \in 1..Len(books.shares) : ~ (books.shares[j].tx = Now)
    BY <1>1, <1>4
  <2> QED
    BY <1>4, <2>1, SharedRows, EntriesRows
<1>6. /\ \A j \in DOMAIN books'.shares :
           \/ j \in DOMAIN books.shares /\ books'.shares[j] = books.shares[j]
           \/ books'.shares[j].tx = Now /\ books'.shares[j].from = buyer
      /\ \A x : SharedIn(books'.shares, x)
                  = SharedIn(books.shares, x) + (IF Now = x THEN fee + cut ELSE 0)
      /\ \A x : EntriesIn(books'.shares, x) = EntriesIn(books.shares, x)
              + (IF Now = x /\ fee # 0 THEN 1 ELSE 0) + (IF Now = x /\ cut # 0 THEN 1 ELSE 0)
  BY DEF Sold
<1>7. Recorded(books', served + 1)
  BY <1>1, <1>4, <1>6 DEF Recorded
<1>8. ASSUME NEW i \in DOMAIN market.purchases
      PROVE  LET sale == market.purchases[i] IN
             /\ sale.tx <= served + 1
             /\ SharedIn(books'.shares, sale.tx)
                  = sale.amount - Percent(sale.amount, AgentShare.affiliate)
             /\ \A j \in DOMAIN books'.shares :
                  books'.shares[j].tx = sale.tx => books'.shares[j].from = sale.buyer
             /\ EntriesIn(books'.shares, sale.tx) \in {0, 2}
  <2> DEFINE sale == market.purchases[i]
  <2>1. sale \in Sale
    BY <1>1 DEF Market
  <2>2. /\ sale.tx <= served
        /\ SharedIn(books.shares, sale.tx)
             = sale.amount - Percent(sale.amount, AgentShare.affiliate)
        /\ \A j \in DOMAIN books.shares :
             books.shares[j].tx = sale.tx => books.shares[j].from = sale.buyer
        /\ EntriesIn(books.shares, sale.tx) \in {0, 2}
    BY DEF IInv, Divided
  <2>3. sale.tx \in Nat
    <3> HIDE DEF sale
    <3> QED
      BY <2>1 DEF Sale
  <2> HIDE DEF sale
  <2>4. sale.tx # Now /\ sale.tx <= served + 1
    BY <1>1, <2>2, <2>3
  <2>5. SharedIn(books.shares, sale.tx) \in Int /\ EntriesIn(books.shares, sale.tx) \in Int
    BY <1>4, SharedRows, EntriesRows
  <2>6. /\ SharedIn(books'.shares, sale.tx) = SharedIn(books.shares, sale.tx)
        /\ EntriesIn(books'.shares, sale.tx) = EntriesIn(books.shares, sale.tx)
    BY <1>6, <2>4, <2>5
  <2>7. \A j \in DOMAIN books'.shares :
          books'.shares[j].tx = sale.tx => books'.shares[j].from = sale.buyer
    BY <1>6, <2>2, <2>4
  <2> QED
    BY <2>2, <2>4, <2>6, <2>7 DEF sale
<1>9. Divided(market, books', served + 1)
  BY <1>8 DEF Divided
<1>10. /\ SharedIn(books'.shares, Now) = fee + cut
       /\ EntriesIn(books'.shares, Now)
            = (IF fee # 0 THEN 1 ELSE 0) + (IF cut # 0 THEN 1 ELSE 0)
  <2>1. /\ SharedIn(books'.shares, Now) = SharedIn(books.shares, Now) + (fee + cut)
        /\ EntriesIn(books'.shares, Now) = EntriesIn(books.shares, Now)
              + (IF fee # 0 THEN 1 ELSE 0) + (IF cut # 0 THEN 1 ELSE 0)
    BY <1>6
  <2> QED
    BY <1>5, <2>1
<1>11. \A j \in DOMAIN books'.shares : books'.shares[j].tx = Now => books'.shares[j].from = buyer
  BY <1>1, <1>4, <1>6
<1> QED
  BY <1>2, <1>3, <1>7, <1>9, <1>10, <1>11

LEMMA PurchaseAgentGood ==
  ASSUME IInv, NEW a \in AgentIds, NEW buyer \in Tenants, PurchaseAgent(a, buyer)
  PROVE  Good
<1> DEFINE seller == market.agents[a].tenant
           amount == Amount(market.agents[a].pricing)
           fee == Percent(amount, AgentShare.platform)
           cut == Percent(amount, AgentShare.creator)
           row == [tx |-> Now, agent |-> a, buyer |-> buyer, amount |-> amount]
<1>1. /\ books \in Books /\ market \in Market /\ served \in Nat
      /\ store' = store /\ calls' = calls /\ served' = served + 1 /\ Now = served + 1
  BY DEF IInv, Typed, PurchaseAgent, Serve, Now
<1>2. /\ market' \in Market /\ Visible(market, market') /\ Counted(market')
      /\ market'.configs = market.configs /\ DOMAIN market'.agents = DOMAIN market.agents
      /\ amount \in Nat /\ seller \in Tenants
      /\ \A k \in DOMAIN AgentShare : (amount * AgentShare[k]) % 100 = 0
      /\ market'.purchases = Append(market.purchases, row)
  BY <1>1, PurchaseAgentDoes DEF IInv
<1>3. books' = Distribute(books, "agent", Now, buyer, seller, fee, cut)
  BY DEF PurchaseAgent, DistributeAgentRevenue
<1> HIDE DEF amount, seller
<1>4. /\ fee \in Nat /\ cut \in Nat
      /\ fee + cut = amount - Percent(amount, AgentShare.affiliate)
      /\ (fee = 0 /\ cut = 0) \/ (fee # 0 /\ cut # 0)
  BY <1>2, AgentSplit
<1> HIDE DEF fee, cut
<1>5. Sold(books, books', "agent", Now, buyer, seller, fee, cut)
  <2>1. "agent" \in Resources /\ Now \in Nat
    BY <1>1 DEF Resources
  <2> QED
    BY <1>1, <1>2, <1>3, <1>4, <2>1, DistributeDoes
<1>6. /\ books' \in Books /\ Balanced(books') /\ Grown(books, books')
      /\ Recorded(books', served + 1) /\ Divided(market, books', served + 1)
      /\ SharedIn(books'.shares, Now) = fee + cut
      /\ EntriesIn(books'.shares, Now)
           = (IF fee # 0 THEN 1 ELSE 0) + (IF cut # 0 THEN 1 ELSE 0)
      /\ \A j \in DOMAIN books'.shares : books'.shares[j].tx = Now => books'.shares[j].from = buyer
  BY <1>2, <1>4, <1>5, SoldDivided
<1>7. PluginsIn(books'.shares) = PluginsIn(books.shares)
  <2>1. PluginsIn(books.shares) \in Int
    BY <1>1, PluginsRows DEF Books
  <2> QED
    BY <1>5, <2>1 DEF Sold
<1>8. Divided(market', books', served + 1)
  <2>1. \A i \in DOMAIN market'.purchases :
          \/ market'.purchases[i] = row
          \/ i \in DOMAIN market.purchases /\ market'.purchases[i] = market.purchases[i]
    BY <1>1, <1>2 DEF Market
  <2>2. row.tx = Now /\ row.amount = amount /\ row.buyer = buyer
    OBVIOUS
  <2> HIDE DEF row
  <2>3. EntriesIn(books'.shares, Now) \in {0, 2}
    BY <1>4, <1>6
  <2>4. row.tx <= served + 1
    BY <1>1, <2>2
  <2> QED
    BY <1>4, <1>6, <2>1, <2>2, <2>3, <2>4 DEF Divided
<1>9. Known(market', calls')
  BY <1>1, <1>2 DEF IInv, Known
<1> QED
  BY <1>1, <1>2, <1>6, <1>7, <1>8, <1>9 DEF Good, IInv, Typed

LEMMA InstallPluginGood ==
  ASSUME IInv, NEW c \in Calls, NEW p \in 1..Len(store.plugins), NEW t \in Tenants,
         InstallPlugin(c, p, t)
  PROVE  Good
<1> DEFINE price == store.plugins[p].price
           seller == store.plugins[p].tenant
           fee == Percent(price, PluginShare.platform)
           cut == Percent(price, PluginShare.developer)
<1>1. /\ books \in Books /\ store \in Store /\ served \in Nat /\ CallsOK(store, calls)
      /\ InstalledOK(store) /\ market' = market /\ served' = served + 1 /\ Now = served + 1
  BY DEF IInv, Typed, InstallPlugin, Serve, Now
<1>2. /\ store' \in Store /\ CallsOK(store', calls') /\ InstalledOK(store')
      /\ FilesOK(store, calls) => FilesOK(store', calls')
      /\ \/ price = 0 /\ books' = books /\ calls' = calls
         \/ /\ calls[c] = Idle
            /\ calls' = [calls EXCEPT ![c] = [op |-> "install", plugin |-> p]]
            /\ books' = DistributePluginRevenue(books, Now, t, seller, price)
      /\ Earned(store', calls') = Earned(store, calls) + price
  BY <1>1, InstallPluginDoes
<1>3. price \in PluginPrices /\ seller \in Tenants
  <2>1. store.plugins[p] \in Plugin
    BY <1>1 DEF Store
  <2> QED
    BY <2>1 DEF Plugin
<1> HIDE DEF price, seller
<1>4. Visible(market, market')
  BY <1>1 DEF Visible, Longer
<1>5. Known(market', calls')
  <2>1. CASE calls' = calls
    BY <1>1, <2>1 DEF IInv
  <2>2. CASE calls[c] = Idle /\ calls' = [calls EXCEPT ![c] = [op |-> "install", plugin |-> p]]
    <3>1. calls \in [Calls -> Call] /\ calls[c].op # "create_agent" /\ Known(market, calls)
      BY <1>1, <2>2 DEF CallsOK, Idle, IInv
    <3> QED
      BY <1>1, <2>2, <3>1, KnownKept
  <2> QED
    BY <1>2, <2>1, <2>2
<1>6. CASE price = 0 /\ books' = books
  <2>1. Recorded(books, served + 1) /\ Divided(market, books, served + 1)
    BY LaterDivided
  <2>2. Earned(store', calls') = Earned(store, calls)
    <3>1. Earned(store, calls) \in Int
      BY <1>1, EarnedType
    <3> QED
      BY <1>2, <1>6, <3>1
  <2>3. Grown(books, books')
    BY <1>6 DEF Grown, Longer
  <2> QED
    BY <1>1, <1>2, <1>4, <1>5, <1>6, <2>1, <2>2, <2>3 DEF Good, IInv, Typed
<1>7. CASE books' = DistributePluginRevenue(books, Now, t, seller, price)
  <2>1. fee \in Nat /\ cut \in Nat /\ fee + cut = price
    BY <1>3, PluginSplit
  <2>2. books' = Distribute(books, "plugin", Now, t, seller, fee, cut)
    BY <1>7 DEF DistributePluginRevenue
  <2> HIDE DEF fee, cut
  <2>3. Sold(books, books', "plugin", Now, t, seller, fee, cut)
    <3>1. "plugin" \in Resources /\ Now \in Nat
      BY <1>1 DEF Resources
    <3> QED
      BY <1>1, <1>3, <2>1, <2>2, <3>1, DistributeDoes
  <2>4. /\ books' \in Books /\ Balanced(books') /\ Grown(books, books')
        /\ Recorded(books', served + 1) /\ Divided(market, books', served + 1)
    BY <1>3, <2>1, <2>3, SoldDivided
  <2>5. PluginsIn(books'.shares) = PluginsIn(books.shares) + price
    BY <2>1, <2>3 DEF Sold
  <2>6. PluginsIn(books'.shares) = Earned(store', calls')
    BY <1>2, <2>5 DEF IInv
  <2> QED
    BY <1>1, <1>2, <1>4, <1>5, <2>4, <2>6 DEF Good, IInv, Typed
<1> QED
  BY <1>2, <1>6, <1>7

LEMMA BooksStepGood ==
  ASSUME IInv, BooksStep
  PROVE  Good
<1>1. PICK t \in Tenants :
        \/ PostCredits(t, 10)
        \/ \E k \in {"agent", "plugin"}, n \in {1, 2}, cost \in {0, 10} : PostUsage(t, k, n, cost)
        \/ PostInvoice(t, 10)
        \/ BooksOnly(RecordUsage(books, t, 10))
        \/ \E tier \in {"free", "pro"} : BooksOnly(CreateSubscription(books, t, tier))
        \/ \E creator \in {70, 80} : BooksOnly(CreateContract(books, t, creator, 15, 15))
        \/ \E table \in {AgentShare, PluginShare} :
             BooksOnly(DistributeRevenue(books, Now, t, 20, table))
        \/ BooksOnly(SetQuota(books, t, "agent", 3))
  BY DEF BooksStep
<1>2. books \in Books /\ Now \in Nat /\ Resources = {"agent", "plugin"}
  BY DEF IInv, Typed, Now, Resources
<1>3. CASE PostCredits(t, 10)
  <2> DEFINE b == Posted(books, t, 10)
  <2>1. Kept(books, b) /\ Grown(books, b)
    <3>1. Kept(books, b)
      BY <1>2, PostCreditsKept
    <3>2. Grown(books, b)
      BY <1>2, AccountBooks
    <3> QED
      BY <3>1, <3>2
  <2>2. BooksOnly(b)
    BY <1>3 DEF PostCredits, Posted
  <2> QED
    BY <2>1, <2>2, BooksOnlyGood
<1>4. ASSUME NEW k \in {"agent", "plugin"}, NEW n \in {1, 2}, NEW cost \in {0, 10},
             PostUsage(t, k, n, cost)
      PROVE  Good
  <2> DEFINE b == TrackUsage(books, t, k, n, cost)
  <2>1. Kept(books, b) /\ Grown(books, b)
    <3>1. k \in Resources /\ cost \in Nat /\ n \in Nat
      BY <1>2
    <3>2. Kept(books, b)
      BY <1>2, <3>1, TrackUsageKept
    <3>3. Grown(books, b)
      BY <1>2, <3>1, AccountBooks
    <3> QED
      BY <3>2, <3>3
  <2>2. BooksOnly(b)
    BY <1>4 DEF PostUsage
  <2> QED
    BY <2>1, <2>2, BooksOnlyGood
<1>5. CASE PostInvoice(t, 10)
  <2> DEFINE b == CreateInvoice(books, t, 10)
  <2>1. Kept(books, b) /\ Grown(books, b)
    BY <1>2, OtherBooks
  <2>2. BooksOnly(b)
    BY <1>5 DEF PostInvoice
  <2> QED
    BY <2>1, <2>2, BooksOnlyGood
<1>6. CASE BooksOnly(RecordUsage(books, t, 10))
  <2>1. Kept(books, RecordUsage(books, t, 10)) /\ Grown(books, RecordUsage(books, t, 10))
    BY <1>2, RecordUsageKept, AccountBooks
  <2> QED
    BY <1>6, <2>1, BooksOnlyGood
<1>7. ASSUME NEW tier \in {"free", "pro"}, BooksOnly(CreateSubscription(books, t, tier))
      PROVE  Good
  <2>1. /\ Kept(books, CreateSubscription(books, t, tier))
        /\ Grown(books, CreateSubscription(books, t, tier))
    BY <1>2, OtherBooks
  <2> QED
    BY <1>7, <2>1, BooksOnlyGood
<1>8. ASSUME NEW creator \in {70, 80}, BooksOnly(CreateContract(books, t, creator, 15, 15))
      PROVE  Good
  <2>1. /\ Kept(books, CreateContract(books, t, creator, 15, 15))
        /\ Grown(books, CreateContract(books, t, creator, 15, 15))
    BY <1>2, OtherBooks
  <2> QED
    BY <1>8, <2>1, BooksOnlyGood
<1>9. ASSUME NEW table \in {AgentShare, PluginShare},
             BooksOnly(DistributeRevenue(books, Now, t, 20, table))
      PROVE  Good
  <2>1. /\ Kept(books, DistributeRevenue(books, Now, t, 20, table))
        /\ Grown(books, DistributeRevenue(books, Now, t, 20, table))
    BY <1>2, DistributeRevenueKept, AccountBooks
  <2> QED
    BY <1>9, <2>1, BooksOnlyGood
<1>10. CASE BooksOnly(SetQuota(books, t, "agent", 3))
  <2>1. Kept(books, SetQuota(books, t, "agent", 3)) /\ Grown(books, SetQuota(books, t, "agent", 3))
    BY <1>2, OtherBooks
  <2> QED
    BY <1>10, <2>1, BooksOnlyGood
<1> QED
  BY <1>1, <1>3, <1>4, <1>5, <1>6, <1>7, <1>8, <1>9, <1>10

LEMMA PaymentGood ==
  ASSUME IInv, NEW i \in DOMAIN books.invoices, PostPayment(i)
  PROVE  Good
<1>1. books \in Books /\ books.invoices \in Seq(Invoice)
  BY DEF IInv, Typed, Books
<1>2. books.invoices[i] \in Invoice
  BY <1>1
<1>3. books.invoices[i].tenant \in Tenants
  BY <1>2 DEF Invoice
<1>4. Kept(books, PayInvoice(books, i)) /\ Grown(books, PayInvoice(books, i))
  BY <1>1, <1>3, OtherBooks
<1> QED
  BY <1>4, BooksOnlyGood DEF PostPayment

\* The registration of an agent and its end.
LEMMA RegistrationGood ==
  ASSUME IInv, NEW c \in Calls, NEW v \in Call, calls' = [calls EXCEPT ![c] = v],
         calls[c].op \in {"idle", "create_agent"}, v.op \in {"idle", "create_agent"},
         books' = books, store' = store, served' \in {served, served + 1},
         market' \in Market, Visible(market, market'), Counted(market'), Known(market', calls'),
         market'.purchases = market.purchases
  PROVE  Good
<1>1. StoreKept(store, calls, store', calls')
  BY AgentCall DEF IInv, Typed
<1>2. served' \in Nat
  BY DEF IInv, Typed
<1>3. Recorded(books, served') /\ Divided(market', books, served')
  BY LaterDivided DEF IInv, Divided
<1>4. Grown(books, books')
  BY DEF Grown, Longer
<1> QED
  BY <1>1, <1>2, <1>3, <1>4 DEF Good, IInv, Typed, StoreKept

LEMMA AgentStepGood ==
  ASSUME IInv, NEW a \in AgentIds, AgentStep(a)
  PROVE  Good
<1>1. market \in Market /\ calls \in [Calls -> Call]
  BY DEF IInv, Typed, CallsOK
<1>2. CASE PublishAgent(a)
  BY <1>1, <1>2, PublishAgentDoes, MarketOnlyGood DEF PublishAgent
<1>3. ASSUME NEW pricing \in Pricings, UpdatePricing(a, pricing) PROVE Good
  BY <1>1, <1>3, UpdatePricingDoes, MarketOnlyGood DEF UpdatePricing
<1>4. ASSUME NEW t \in Tenants, PurchaseAgent(a, t) PROVE Good
  BY <1>4, PurchaseAgentGood
<1>5. ASSUME NEW x \in Reviewed, NEW rating \in {1, 5}, AddReview(x, rating) PROVE Good
  <2>1. rating \in Int
    OBVIOUS
  <2>2. MarketKept(market, market')
    BY <1>1, <1>5, <2>1, AddReviewDoes
  <2> QED
    BY <1>5, <2>2, MarketOnlyGood DEF AddReview
<1>6. ASSUME NEW featured \in BOOLEAN, ListAgent(a, featured) PROVE Good
  BY <1>1, <1>6, ListAgentDoes, MarketOnlyGood DEF ListAgent
<1>7. ASSUME NEW c \in Calls, NEW t \in Tenants, NEW pricing \in Pricings, NEW k \in Categories,
             RegisterAgent(c, a, t, pricing, k)
      PROVE  Good
  <2>1. /\ market' \in Market /\ Visible(market, market') /\ Counted(market')
        /\ Known(market', calls') /\ market'.purchases = market.purchases
        /\ calls' = [calls EXCEPT ![c] = Creating(a)] /\ calls[c] = Idle
    BY <1>1, <1>7, RegisterAgentDoes DEF IInv
  <2>2. books' = books /\ store' = store /\ served' = served + 1
    BY <1>7 DEF RegisterAgent, Serve
  <2>3. Creating(a) \in Call /\ Creating(a).op = "create_agent" /\ calls[c].op = "idle"
    BY <2>1 DEF Creating, Call, Idle
  <2> QED
    BY <2>1, <2>2, <2>3, RegistrationGood
<1>8. a \in Reviewed /\ None \in Reviewed
  BY DEF Reviewed
<1> QED
  BY <1>2, <1>3, <1>4, <1>5, <1>6, <1>7, <1>8 DEF AgentStep

LEMMA PluginStepGood ==
  ASSUME IInv, NEW p \in 1..Len(store.plugins), PluginStep(p)
  PROVE  Good
<1>1. store \in Store /\ CallsOK(store, calls) /\ Known(market, calls) /\ calls \in [Calls -> Call]
  BY DEF IInv, Typed, CallsOK
<1>2. CASE PublishPlugin(p)
  <2>1. StoreKept(store, calls, store', calls')
    BY <1>1, <1>2, PublishPluginDoes
  <2> QED
    BY <1>1, <1>2, <2>1, StoreOnlyGood DEF PublishPlugin, Serve
<1>3. CASE AddVersion(p)
  <2>1. StoreKept(store, calls, store', calls')
    BY <1>1, <1>3, AddVersionDoes
  <2> QED
    BY <1>1, <1>3, <2>1, StoreOnlyGood DEF AddVersion, Serve
<1>4. CASE ListPlugin(p)
  <2>1. StoreKept(store, calls, store', calls')
    BY <1>1, <1>4, ListPluginDoes
  <2> QED
    BY <1>1, <1>4, <2>1, StoreOnlyGood DEF ListPlugin, Serve
<1>5. ASSUME NEW c \in Calls, NEW t \in Tenants, InstallPlugin(c, p, t) PROVE Good
  BY <1>5, InstallPluginGood
<1>6. ASSUME NEW c \in Calls, NEW t \in Tenants, ExecutePlugin(c, p, t) PROVE Good
  <2>1. /\ StoreKept(store, calls, store', calls')
        /\ \/ calls' = calls
           \/ \E v \in Call : /\ calls' = [calls EXCEPT ![c] = v]
                              /\ calls[c] = Idle /\ v.op = "execute"
    BY <1>1, <1>6, ExecutePluginDoes
  <2>2. books' = books /\ market' = market /\ served' = served + 1
    BY <1>6 DEF ExecutePlugin, Serve
  <2>3. Known(market', calls')
    <3>1. CASE calls' = calls
      BY <1>1, <2>2, <3>1
    <3>2. ASSUME NEW v \in Call, calls' = [calls EXCEPT ![c] = v], calls[c] = Idle
          PROVE  Known(market', calls')
      <4>1. calls[c].op # "create_agent"
        BY <3>2 DEF Idle
      <4> QED
        BY <1>1, <2>2, <3>2, <4>1, KnownKept
    <3> QED
      BY <2>1, <3>1, <3>2
  <2> QED
    BY <2>1, <2>2, <2>3, StoreOnlyGood
<1> QED
  BY <1>2, <1>3, <1>4, <1>5, <1>6 DEF PluginStep

LEMMA CallStepGood ==
  ASSUME IInv, NEW c \in Calls,
         \/ AgentRegistered(c) \/ PluginPaid(c)
         \/ PluginEnds(c) \/ PluginTimesOut(c) \/ PluginFails(c)
  PROVE  Good
<1>1. /\ store \in Store /\ CallsOK(store, calls) /\ Known(market, calls)
      /\ calls \in [Calls -> Call] /\ market \in Market /\ Counted(market)
  BY DEF IInv, Typed, CallsOK
<1>2. CASE AgentRegistered(c)
  <2>1. /\ market' \in Market /\ Visible(market, market') /\ Counted(market')
        /\ Known(market', calls') /\ market'.purchases = market.purchases
    BY <1>1, <1>2, AgentRegisteredDoes
  <2>2. /\ books' = books /\ store' = store /\ served' = served
        /\ calls' = [calls EXCEPT ![c] = Idle] /\ calls[c].op = "create_agent"
    BY <1>2 DEF AgentRegistered, Finish
  <2>3. Idle \in Call /\ Idle.op = "idle"
    BY DEF Idle, Call
  <2> QED
    BY <2>1, <2>2, <2>3, RegistrationGood
<1>3. CASE PluginPaid(c) \/ PluginEnds(c) \/ PluginTimesOut(c) \/ PluginFails(c)
  <2>1. StoreKept(store, calls, store', calls')
    BY <1>1, <1>3, PluginPaidDoes, PluginEndsDoes
  <2>2. /\ books' = books /\ market' = market /\ served' = served
        /\ calls' = [calls EXCEPT ![c] = Idle] /\ calls[c].op # "create_agent"
    BY <1>3 DEF PluginPaid, PluginEnds, PluginTimesOut, PluginFails, Finish
  <2>3. Known(market', calls')
    BY <1>1, <2>2, KnownKept
  <2> QED
    BY <2>1, <2>2, <2>3, StoreOnlyGood
<1> QED
  BY <1>2, <1>3

LEMMA NextGood ==
  ASSUME IInv, [Next]_vars
  PROVE  Good
<1>1. CASE BooksStep
  BY <1>1, BooksStepGood
<1>2. ASSUME NEW i \in DOMAIN books.invoices, PostPayment(i) PROVE Good
  BY <1>2, PaymentGood
<1>3. ASSUME NEW a \in AgentIds, AgentStep(a) PROVE Good
  BY <1>3, AgentStepGood
<1>4. ASSUME NEW t \in Tenants, NEW price \in PluginPrices, NEW code \in BOOLEAN,
             NEW mode \in {"process", "restricted"}, RegisterPlugin(t, price, code, mode)
      PROVE  Good
  <2>1. StoreKept(store, calls, store', calls')
    BY <1>4, RegisterPluginDoes DEF IInv, Typed
  <2>2. /\ books' = books /\ market' = market /\ served' = served + 1 /\ calls' = calls
        /\ Known(market, calls)
    BY <1>4 DEF RegisterPlugin, Serve, IInv
  <2> QED
    BY <2>1, <2>2, StoreOnlyGood
<1>5. ASSUME NEW p \in DOMAIN store.plugins, PluginStep(p) PROVE Good
  <2>1. p \in 1..Len(store.plugins)
    BY DEF IInv, Typed, Store
  <2> QED
    BY <1>5, <2>1, PluginStepGood
<1>6. ASSUME NEW c \in Calls,
             \/ AgentRegistered(c) \/ PluginPaid(c)
             \/ PluginEnds(c) \/ PluginTimesOut(c) \/ PluginFails(c)
      PROVE  Good
  BY <1>6, CallStepGood
<1>7. CASE UNCHANGED vars
  BY <1>7 DEF vars, Good, IInv, Typed, Balanced, Recorded, Divided, CallsOK, Visible, Grown, Longer
<1> QED
  BY <1>1, <1>2, <1>3, <1>4, <1>5, <1>6, <1>7 DEF Next

LEMMA AlwaysInv == Spec => []IInv
<1>1. IInv /\ [Next]_vars => IInv'
  BY NextGood DEF Good
<1> QED
  BY InitInv, <1>1, PTL DEF Spec

----------------------------------------------------------------------------
(* Theorems *)

\* The accounts agree with the tables that reports are made from, whatever is bought,
\* used, paid or posted, in any order.
THEOREM BooksBalanceCorrect == Spec => []BooksBalance
<1>1. IInv => BooksBalance
  BY BalanceIs DEF IInv
<1> QED
  BY <1>1, AlwaysInv, PTL

\* Every sale is shared once and counted once, at the price of the time of the sale, for
\* any number of requests that wait between the shares, the counters and the events.
THEOREM SalesAccountedCorrect == Spec => []SalesAccounted
<1>1. ASSUME IInv PROVE AgentsAccounted
  <2>1. /\ \A x : Shared(x) = SharedIn(books.shares, x) /\ Entries(x) = EntriesIn(books.shares, x)
        /\ \A a : /\ Total(market.purchases, LAMBDA s : s.agent = a, LAMBDA s : 1)
                       = CountIn(market.purchases, a)
                  /\ Total(market.purchases, LAMBDA s : s.agent = a, LAMBDA s : s.amount)
                       = RevenueIn(market.purchases, a)
    BY DEF Shared, SharedIn, Entries, EntriesIn, CountIn, RevenueIn
  <2>2. Divided(market, books, served) /\ Counted(market) /\ Known(market, calls)
    BY <1>1 DEF IInv
  <2> QED
    BY ZenonT(30), <2>1, <2>2 DEF AgentsAccounted, Divided, Counted, Known, Creating
<1>2. ASSUME IInv PROVE InstallsAccounted
  <2>1. Total(books.shares, LAMBDA e : e.type = "plugin", LAMBDA e : e.amount)
          = Earned(store, calls)
    BY <1>2 DEF IInv, PluginsIn
  <2>2. (\A p : Unpaid(p) = UnpaidIn(calls, p)) /\ Waiting("execute") = Running(calls)
    BY DEF Unpaid, Waiting, UnpaidIn, Running
  <2>3. Earned(store, calls)
          = SumList([p \in 1..Len(store.plugins) |->
                   store.plugins[p].revenue + store.plugins[p].price * Cardinality(Unpaid(p))])
    BY <2>2 DEF Earned, Worth
  <2>4. \A p \in DOMAIN store.plugins :
          store.plugins[p].installs = Cardinality({t \in Tenants : Contains(store.installed[t], p)})
    <3>1. DOMAIN store.plugins = 1..Len(store.plugins)
      BY <1>2 DEF IInv, Typed, Store
    <3>2. \A p \in 1..Len(store.plugins) : store.plugins[p].installs = Cardinality(Holders(store, p))
      BY <1>2 DEF IInv, InstalledOK
    <3>3. \A p : Holders(store, p) = {t \in Tenants : Contains(store.installed[t], p)}
      BY DEF Holders
    <3> QED
      BY <3>1, <3>2, <3>3
  <2>5. \A t \in Tenants : IsInjective(store.installed[t])
    BY <1>2 DEF IInv, InstalledOK
  <2>6. store.files = Cardinality(Waiting("execute")) + store.abandoned + store.unstarted
    BY <1>2, <2>2 DEF IInv, FilesOK
  <2> QED
    BY <2>1, <2>3, <2>4, <2>5, <2>6 DEF InstallsAccounted
<1> QED
  BY <1>1, <1>2, AlwaysInv, PTL DEF SalesAccounted

LEMMA ListingsStay ==
  ASSUME NEW m \in Market, NEW d \in Market, Visible(m, d), NEW k, NEW featured
  PROVE  \A i \in ListMarketplace(m, k, featured) :
           \/ i \in ListMarketplace(d, k, featured)
           \/ Cardinality(Newer(d, k, featured, i)) >= PageLimit
<1>1. ASSUME NEW i \in DOMAIN m.listings
      PROVE  i \in DOMAIN d.listings /\ d.listings[i] = m.listings[i]
  <2>1. m.listings \in Seq(Listing)
    BY DEF Market
  <2>2. d.listings \in Seq(Listing)
    BY DEF Market
  <2>3. CASE d.listings = m.listings
    BY <2>3
  <2>4. ASSUME NEW row, d.listings = Append(m.listings, row)
        PROVE  i \in DOMAIN d.listings /\ d.listings[i] = m.listings[i]
    BY <2>1, <2>4
  <2> QED
    BY <2>3, <2>4 DEF Visible, Longer
<1>2. \A a \in DOMAIN m.agents :
        /\ a \in DOMAIN d.agents
        /\ m.agents[a].status = "published" => d.agents[a].status = "published"
  BY DEF Visible
<1>3. Matching(m, k, featured) \subseteq Matching(d, k, featured)
  BY <1>1, <1>2 DEF Matching
<1>4. \A i : Cardinality(Newer(d, k, featured, i)) \in Nat
  <2>1. DOMAIN d.listings = 1..Len(d.listings) /\ IsFiniteSet(1..Len(d.listings))
    <3>1. d.listings \in Seq(Listing)
      BY DEF Market
    <3> QED
      BY <3>1, FS_Interval
  <2>2. \A i : Newer(d, k, featured, i) \in SUBSET (1..Len(d.listings))
    BY <2>1 DEF Newer, Matching
  <2> QED
    BY <2>1, <2>2, FS_Subset, FS_CardinalityType
<1>5. \A n \in Nat : n < PageLimit \/ n >= PageLimit
  BY PageAssumption
<1> QED
  BY <1>3, <1>4, <1>5 DEF ListMarketplace

LEMMA SubscriptionStays ==
  ASSUME NEW b \in Books, NEW d \in Books, Grown(b, d), NEW t \in Tenants
  PROVE  GetSubscription(b, t) \in {None, GetSubscription(d, t)}
<1> DEFINE own == {i \in DOMAIN b.subscriptions : b.subscriptions[i].tenant = t}
           later == {i \in DOMAIN d.subscriptions : d.subscriptions[i].tenant = t}
           Least(S, i) == i \in S /\ \A j \in S : i <= j
<1>1. b.subscriptions \in Seq(Subscription) /\ d.subscriptions \in Seq(Subscription)
  BY DEF Books
<1>2. CASE d.subscriptions = b.subscriptions
  BY <1>2 DEF GetSubscription
<1>3. ASSUME NEW row, d.subscriptions = Append(b.subscriptions, row), own # {}
      PROVE  GetSubscription(b, t) = GetSubscription(d, t)
  <2>1. own \in SUBSET Nat /\ later \in SUBSET Nat
    BY <1>1
  <2>2. PICK n \in own : \A j \in own : n <= j
    BY <1>3, <2>1, LeastMember
  <2>3. \A i \in DOMAIN b.subscriptions :
          i \in DOMAIN d.subscriptions /\ d.subscriptions[i] = b.subscriptions[i]
    BY <1>1, <1>3
  <2>4. \A i \in later : i \in own \/ i = Len(b.subscriptions) + 1
    BY <1>1, <1>3
  <2>5. n \in later /\ n \in 1..Len(b.subscriptions)
    BY <1>1, <2>2, <2>3
  <2>6. \A j \in later : n <= j
    <3> SUFFICES ASSUME NEW j \in later PROVE n <= j
      OBVIOUS
    <3>1. Len(b.subscriptions) \in Nat /\ n \in Nat
      BY <1>1, <2>5
    <3>2. CASE j \in own
      BY <2>2, <3>2
    <3>3. CASE j = Len(b.subscriptions) + 1
      BY <2>5, <3>1, <3>3
    <3> QED
      BY <2>4, <3>2, <3>3
  <2>7. (CHOOSE i \in own : \A j \in own : i <= j) = n
    <3> HIDE DEF own, later
    <3>1. \A i \in own : (\A j \in own : i <= j) => i = n
      BY <2>1, <2>2
    <3> QED
      BY <2>2, <3>1
  <2>8. (CHOOSE i \in later : \A j \in later : i <= j) = n
    <3> HIDE DEF own, later
    <3>1. \A i \in later : (\A j \in later : i <= j) => i = n
      BY <2>1, <2>5, <2>6
    <3> QED
      BY <2>5, <2>6, <3>1
  <2>9. /\ GetSubscription(b, t) = b.subscriptions[n].tier
        /\ GetSubscription(d, t) = d.subscriptions[n].tier
    <3>1. /\ GetSubscription(b, t)
               = IF own = {} THEN None
                 ELSE b.subscriptions[CHOOSE i \in own : \A j \in own : i <= j].tier
          /\ GetSubscription(d, t)
               = IF later = {} THEN None
                 ELSE d.subscriptions[CHOOSE i \in later : \A j \in later : i <= j].tier
      BY DEF GetSubscription
    <3> HIDE DEF own, later
    <3> QED
      BY <1>3, <2>5, <2>7, <2>8, <3>1
  <2> QED
    BY <2>2, <2>3, <2>9
<1>4. CASE own = {}
  BY <1>4 DEF GetSubscription
<1> QED
  BY <1>2, <1>3, <1>4 DEF Grown, Longer

LEMMA RemainderShrinks ==
  ASSUME NEW b \in Books, NEW d \in Books, Grown(b, d), d.quotas = b.quotas, NEW t \in Tenants
  PROVE  CheckQuota(d, t, "agent").remaining <= CheckQuota(b, t, "agent").remaining
<1> DEFINE quota == Lookup(b.quotas, <<t, "agent">>, -1)
<1>1. b.records \in Seq(Record) /\ d.records \in Seq(Record) /\ b.quotas \in Quotas
  BY DEF Books
<1>2. quota \in Int
  <2>1. ASSUME NEW x \in DOMAIN b.quotas PROVE b.quotas[x] \in Int
    BY <1>1, PartlyIs DEF Quotas
  <2> QED
    BY <2>1 DEF Lookup
<1>3. UnitsIn(b.records, t, "agent") \in Int /\ UnitsIn(d.records, t, "agent") \in Int
  BY <1>1, UnitsRows
<1>4. UnitsIn(b.records, t, "agent") <= UnitsIn(d.records, t, "agent")
  <2>1. CASE d.records = b.records
    BY <1>3, <2>1
  <2>2. ASSUME NEW row, d.records = Append(b.records, row)
        PROVE  UnitsIn(b.records, t, "agent") <= UnitsIn(d.records, t, "agent")
    <3>1. row \in Record
      <4>1. /\ Len(b.records) + 1 \in DOMAIN d.records
            /\ d.records[Len(b.records) + 1] = row
        BY <1>1, <2>2
      <4> QED
        BY <1>1, <4>1
    <3>2. row.quantity \in Nat
      BY <3>1 DEF Record
    <3>3. UnitsIn(d.records, t, "agent") = UnitsIn(b.records, t, "agent")
            + (IF row.tenant = t /\ row.resource = "agent" THEN row.quantity ELSE 0)
      BY <1>1, <2>2, <3>1, UnitsRows
    <3> QED
      BY <1>3, <3>2, <3>3
  <2> QED
    BY <2>1, <2>2 DEF Grown, Longer
<1>5. /\ GetUsageSummary(b, t).by["agent"] = UnitsIn(b.records, t, "agent")
      /\ GetUsageSummary(d, t).by["agent"] = UnitsIn(d.records, t, "agent")
  BY DEF GetUsageSummary, UnitsIn
<1>6. /\ CheckQuota(b, t, "agent").remaining
           = IF quota > 0 THEN quota - UnitsIn(b.records, t, "agent") ELSE 0
      /\ CheckQuota(d, t, "agent").remaining
           = IF quota > 0 THEN quota - UnitsIn(d.records, t, "agent") ELSE 0
  BY <1>5 DEF CheckQuota
<1> HIDE DEF quota
<1> QED
  BY <1>2, <1>3, <1>4, <1>6

\* What clients were shown stays: no step takes a listing off the first page but by newer
\* ones that fill it, changes the subscription a tenant is told of, or gives back quota
\* that was used.
THEOREM ShownStaysCorrect == Spec => ShownStays
<1> DEFINE Stays ==
      /\ \A k \in Categories \cup {None}, featured \in BOOLEAN :
           \A i \in ListMarketplace(market, k, featured) :
             \/ i \in ListMarketplace(market', k, featured)
             \/ Cardinality(Newer(market', k, featured, i)) >= PageLimit
      /\ \A t \in Tenants :
           /\ GetSubscription(books, t) \in {None, GetSubscription(books', t)}
           /\ books'.quotas = books.quotas =>
                CheckQuota(books', t, "agent").remaining <= CheckQuota(books, t, "agent").remaining
<1>1. IInv /\ [Next]_vars => [Stays]_vars
  <2> SUFFICES ASSUME IInv, [Next]_vars PROVE Stays
    OBVIOUS
  <2>1. Good
    BY NextGood
  <2>2. /\ market \in Market /\ market' \in Market /\ Visible(market, market')
        /\ books \in Books /\ books' \in Books /\ Grown(books, books')
    BY <2>1 DEF Good, IInv, Typed
  <2> QED
    BY <2>2, ListingsStay, SubscriptionStays, RemainderShrinks
<1> QED
  BY <1>1, AlwaysInv, PTL DEF Spec, ShownStays
=============================================================================
