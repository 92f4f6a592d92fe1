------------------------ MODULE ModelSelector_proofs ------------------------
(***************************************************************************)
(* A selection, for every set of models, prices, counts and sessions and   *)
(* every pipeline: its state has its types, the request is forwarded to    *)
(* what it asked for, a session sticks to its model, and the scores keep   *)
(* the order of every scorer, so that nothing dominated is picked.         *)
(***************************************************************************)
EXTENDS ModelSelector, SequenceLemmas, FiniteSetTheorems

(***************************************************************************)
(* Total weights.                                                          *)
(***************************************************************************)
\* The part of a scorer in a total.
Part(scorer, kinds) == IF scorer.kind \in kinds THEN scorer.weight ELSE 0

\* The recursive function in TotalWeight exists.
LEMMA TotalExists ==
    ASSUME NEW scorers, NEW kinds, NEW N \in Nat
    PROVE  \E f : f = [n \in 0 .. N |-> IF n = 0 THEN 0 ELSE f[n - 1] + Part(scorers[n], kinds)]
<1> DEFINE Is(f, m) == f = [n \in 0 .. m |-> IF n = 0 THEN 0 ELSE f[n - 1] + Part(scorers[n], kinds)]
           T == {m \in Nat : \E f : Is(f, m)}
<1>1. 0 \in T
  <2>1. PICK g : g = [n \in 0 .. 0 |-> 0]
      OBVIOUS
  <2>2. g = [n \in 0 .. 0 |-> IF n = 0 THEN 0 ELSE g[n - 1] + Part(scorers[n], kinds)]
      BY <2>1
  <2>3. Is(g, 0)
      BY <2>2
  <2> HIDE DEF Is
  <2> QED
      BY <2>3
<1>2. ASSUME NEW m \in Nat, m \in T
      PROVE  m + 1 \in T
  <2>1. PICK f : Is(f, m)
      BY <1>2
  <2> DEFINE g == [n \in 0 .. m + 1 |-> IF n = m + 1 THEN f[m] + Part(scorers[m + 1], kinds) ELSE f[n]]
  <2>2. ASSUME NEW n \in 0 .. m + 1
        PROVE  g[n] = IF n = 0 THEN 0 ELSE g[n - 1] + Part(scorers[n], kinds)
    <3>1. CASE n = m + 1
        BY <3>1
    <3>2. CASE n # m + 1
      <4>1. n \in 0 .. m /\ g[n] = f[n]
          BY <3>2
      <4>2. f[n] = IF n = 0 THEN 0 ELSE f[n - 1] + Part(scorers[n], kinds)
          BY <2>1, <4>1
      <4>3. n # 0 => n - 1 \in 0 .. m /\ g[n - 1] = f[n - 1]
          BY <4>1
      <4> QED
          BY <4>1, <4>2, <4>3
    <3> QED
        BY <3>1, <3>2
  <2>3. g = [n \in 0 .. m + 1 |-> g[n]]
      OBVIOUS
  <2> HIDE DEF g
  <2>4. Is(g, m + 1)
      BY <2>2, <2>3
  <2> HIDE DEF Is
  <2>5. \E h : Is(h, m + 1)
      BY <2>4
  <2>6. m + 1 \in Nat
      OBVIOUS
  <2> QED
      BY <2>5, <2>6
<1> HIDE DEF T
<1>3. N \in T
    BY <1>1, <1>2, SetInduction
<1> QED
    BY <1>3 DEF T

\* What it computes.
LEMMA TotalComputes ==
    ASSUME NEW scorers \in Seq(Weighting), NEW kinds
    PROVE  \E f : /\ f[0] = 0
                  /\ \A n \in Nat : n + 1 \in 1 .. Len(scorers) =>
                                       f[n + 1] = f[n] + Part(scorers[n + 1], kinds)
                  /\ TotalWeight(scorers, kinds) = f[Len(scorers)]
<1> DEFINE upTo[n \in 0 .. Len(scorers)] ==
               IF n = 0 THEN 0
               ELSE upTo[n - 1] + IF scorers[n].kind \in kinds THEN scorers[n].weight ELSE 0
<1>0. Len(scorers) \in Nat
    OBVIOUS
<1>1. TotalWeight(scorers, kinds) = upTo[Len(scorers)]
    BY DEF TotalWeight
<1>2. upTo = [n \in 0 .. Len(scorers) |-> IF n = 0 THEN 0 ELSE upTo[n - 1] + Part(scorers[n], kinds)]
    BY <1>0, TotalExists DEF Part
<1> HIDE DEF upTo
<1>3. 0 \in 0 .. Len(scorers)
    BY <1>0
<1>4. upTo[0] = 0
    BY <1>2, <1>3
<1>5. ASSUME NEW n \in Nat, n + 1 \in 1 .. Len(scorers)
      PROVE  upTo[n + 1] = upTo[n] + Part(scorers[n + 1], kinds)
  <2>1. n + 1 \in 0 .. Len(scorers) /\ n + 1 # 0 /\ (n + 1) - 1 = n
      BY <1>0, <1>5
  <2>2. upTo[n + 1] = upTo[(n + 1) - 1] + Part(scorers[n + 1], kinds)
      BY <1>2, <2>1
  <2> QED
      BY <2>1, <2>2
<1> QED
    BY <1>1, <1>4, <1>5

\* No scorers have no weight.
LEMMA TotalEmpty ==
    ASSUME NEW kinds
    PROVE  TotalWeight(<<>>, kinds) = 0
<1>1. <<>> \in Seq(Weighting) /\ Len(<<>>) = 0
    OBVIOUS
<1> QED
    BY <1>1, TotalComputes

\* One more scorer adds its part.
LEMMA TotalAppend ==
    ASSUME NEW scorers \in Seq(Weighting), NEW w \in Weighting, NEW kinds
    PROVE  TotalWeight(Append(scorers, w), kinds) = TotalWeight(scorers, kinds) + Part(w, kinds)
<1>0. Len(scorers) \in Nat
    OBVIOUS
<1>1. PICK more : more = Append(scorers, w)
    OBVIOUS
<1>2. /\ more \in Seq(Weighting) /\ Len(more) = Len(scorers) + 1 /\ more[Len(scorers) + 1] = w
      /\ \A n \in 1 .. Len(scorers) : more[n] = scorers[n]
    BY <1>1
<1>3. PICK f : /\ f[0] = 0
               /\ \A n \in Nat : n + 1 \in 1 .. Len(scorers) =>
                                    f[n + 1] = f[n] + Part(scorers[n + 1], kinds)
               /\ TotalWeight(scorers, kinds) = f[Len(scorers)]
    BY TotalComputes
<1>4. PICK g : /\ g[0] = 0
               /\ \A n \in Nat : n + 1 \in 1 .. Len(more) => g[n + 1] = g[n] + Part(more[n + 1], kinds)
               /\ TotalWeight(more, kinds) = g[Len(more)]
    BY <1>2, TotalComputes
<1> DEFINE T == {n \in Nat : n <= Len(scorers) => f[n] = g[n]}
<1>5. 0 \in T
    BY <1>3, <1>4
<1>6. ASSUME NEW n \in Nat, n \in T
      PROVE  n + 1 \in T
  <2>1. CASE n + 1 <= Len(scorers)
    <3>1. n + 1 \in 1 .. Len(scorers) /\ n + 1 \in 1 .. Len(more) /\ n <= Len(scorers)
        BY <1>0, <1>2, <2>1
    <3>2. more[n + 1] = scorers[n + 1] /\ f[n] = g[n]
        BY <1>2, <1>6, <3>1
    <3>3. f[n + 1] = g[n + 1]
        BY <1>3, <1>4, <3>1, <3>2
    <3> QED
        BY <3>3
  <2> QED
      BY <2>1
<1> HIDE DEF T
<1>7. Len(scorers) \in T
    BY <1>0, <1>5, <1>6, SetInduction
<1>8. f[Len(scorers)] = g[Len(scorers)]
    BY <1>0, <1>7 DEF T
<1>9. g[Len(scorers) + 1] = g[Len(scorers)] + Part(more[Len(scorers) + 1], kinds)
    BY <1>0, <1>2, <1>4
<1> QED
    BY <1>1, <1>2, <1>3, <1>4, <1>8, <1>9

\* A total is a number.
LEMMA TotalType ==
    ASSUME NEW scorers \in Seq(Weighting), NEW kinds
    PROVE  TotalWeight(scorers, kinds) \in Nat
<1> DEFINE T == {s \in Seq(Weighting) : TotalWeight(s, kinds) \in Nat}
<1>1. <<>> \in T
    BY TotalEmpty
<1>2. ASSUME NEW s \in Seq(Weighting), NEW w \in Weighting, s \in T
      PROVE  Append(s, w) \in T
  <2>1. Part(w, kinds) \in Nat
      BY DEF Part, Weighting
  <2>2. TotalWeight(s, kinds) \in Nat
      BY <1>2
  <2>3. TotalWeight(Append(s, w), kinds) = TotalWeight(s, kinds) + Part(w, kinds)
      BY TotalAppend
  <2>4. TotalWeight(Append(s, w), kinds) \in Nat /\ Append(s, w) \in Seq(Weighting)
      BY <2>1, <2>2, <2>3
  <2> QED
      BY <2>4
<1> HIDE DEF T
<1>3. scorers \in T
    BY <1>1, <1>2, SequenceInduction
<1> QED
    BY <1>3 DEF T

-----------------------------------------------------------------------------
(***************************************************************************)
(* The inductive invariant.                                                *)
(***************************************************************************)
\* The turn scores and picks among the models the filter kept, or has picked.
Choosing == {"score", "sum", "cost", "count", "forwarded"}
Injective(s) == \A i, j \in DOMAIN s : s[i] = s[j] => i = j

\* Where the turn stands: some candidate is left, none is there twice, the group so
\* far is from the candidates read, the scorer that is under way is the next one,
\* and its divisor is not zero.
TurnInv ==
    /\ run.pc \in Choosing => run.models # <<>>
    /\ Injective(run.models)
    /\ run.pc \in {"sum", "cost"} => run.rest # <<>> /\ Head(run.rest).kind = "cost"
    /\ run.pc = "count" => run.rest # <<>> /\ Head(run.rest).kind = "inflight"
    /\ run.pc = "cost" => run.sum > 0
    /\ run.pc = "filter" =>
          /\ run.prior = None /\ Injective(run.group)
          /\ \A i \in DOMAIN run.group :
                \E k \in DOMAIN run.models : k < run.next /\ run.models[k] = run.group[i]
    /\ run.pc = "forwarded" => run.rest = <<>> /\ run.picked \in Kept

\* Every candidate that is left is one the request asked for.
AskedInv ==
    /\ run.pc \in Choosing /\ pipeline.filter => \A o \in Kept :
          /\ run.wanted.kind # "malformed"
          /\ run.wanted.kind = "name" => NameOf[o] = run.wanted.name
          /\ run.wanted.kind = "group" /\ stable => run.wanted.group \in attr[o].groups
    /\ run.wanted.kind = "group" /\ stable =>
          \A i \in DOMAIN run.group : run.wanted.group \in attr[run.group[i]].groups

\* A session has one entry in the cache, with the model recorded last.
CacheInv ==
    /\ \A i, j \in DOMAIN cache : cache[i].session = cache[j].session => i = j
    /\ \A i \in DOMAIN cache : cache[i].model = lastRecorded[cache[i].session]

\* After the scorers done, a score is between what the session scorer gave and that
\* with the weights of the others; the cost scorer gives its part model by model.
SessionPart(done, o) ==
    IF run.prior # None /\ o \in Kept /\ NameOf[o] = run.prior
    THEN Scale * TotalWeight(done, {"session"}) ELSE 0
PricePart(o) ==
    IF run.pc = "cost" /\ \E i \in DOMAIN run.models : i < run.next /\ run.models[i] = o
    THEN Scale * Head(run.rest).weight ELSE 0
OthersPart(done) == Scale * TotalWeight(done, Scorers \ {"session"})
ScoresAfter(done) ==
    /\ pipeline.scorers = done \o run.rest
    /\ (\E i \in DOMAIN run.rest : run.rest[i].kind = "session") =>
          run.prior = None /\ TotalWeight(done, {"session"}) = 0
    /\ \A o \in Models :
          /\ SessionPart(done, o) <= run.score[o]
          /\ run.score[o] <= SessionPart(done, o) + OthersPart(done) + PricePart(o)
ScoreInv ==
    /\ run.pc \in Choosing \cup {"filter"} => \E done \in Seq(Weighting) : ScoresAfter(done)
    /\ run.pc = "forwarded" /\ pipeline.picker = "max-score" => run.picked \in Best

SelectorInv == TypeOK /\ TurnInv /\ AskedInv /\ CacheInv /\ ScoreInv

-----------------------------------------------------------------------------
(***************************************************************************)
(* The session cache.                                                      *)
(***************************************************************************)
Entries == [session : Sessions, model : Names]

\* CacheInv, of a list of entries and the models recorded.
Agrees(c, last) ==
    /\ \A i, j \in DOMAIN c : c[i].session = c[j].session => i = j
    /\ \A i \in DOMAIN c : c[i].model = last[c[i].session]

\* What RemoveAt leaves.
LEMMA RemoveAtElements ==
    ASSUME NEW T, NEW s \in Seq(T), NEW i \in DOMAIN s
    PROVE  /\ RemoveAt(s, i) \in Seq(T)
           /\ Len(RemoveAt(s, i)) = Len(s) - 1
           /\ \A k \in 1 .. Len(s) - 1 : RemoveAt(s, i)[k] = IF k < i THEN s[k] ELSE s[k + 1]
<1>1. Len(s) \in Nat /\ i \in 1 .. Len(s) /\ i \in Nat
    OBVIOUS
<1>2. PICK a, b : a = SubSeq(s, 1, i - 1) /\ b = SubSeq(s, i + 1, Len(s))
    OBVIOUS
<1>3. a \in Seq(T) /\ Len(a) = i - 1 /\ \A k \in 1 .. i - 1 : a[k] = s[k]
    BY <1>1, <1>2
<1>4. b \in Seq(T) /\ Len(b) = Len(s) - i /\ \A k \in 1 .. Len(s) - i : b[k] = s[i + k]
    BY <1>1, <1>2
<1>5. RemoveAt(s, i) = a \o b
    BY <1>2 DEF RemoveAt
<1>6. a \o b \in Seq(T) /\ Len(a \o b) = Len(s) - 1
    BY <1>1, <1>3, <1>4
<1>7. ASSUME NEW k \in 1 .. Len(s) - 1
      PROVE  (a \o b)[k] = IF k < i THEN s[k] ELSE s[k + 1]
  <2>1. CASE k < i
      BY <1>1, <1>3, <1>4, <2>1
  <2>2. CASE ~ (k < i)
    <3>1. (a \o b)[k] = b[k - (i - 1)]
      <4>1. \A m \in 1 .. Len(a) + Len(b) : (a \o b)[m] = IF m <= Len(a) THEN a[m] ELSE b[m - Len(a)]
          BY <1>3, <1>4, ConcatProperties, Zenon
      <4>2. k \in 1 .. Len(a) + Len(b) /\ ~ (k <= Len(a)) /\ Len(a) = i - 1
          BY <1>1, <1>3, <1>4, <2>2
      <4> QED
          BY <4>1, <4>2
    <3>2. k - (i - 1) \in 1 .. Len(s) - i /\ i + (k - (i - 1)) = k + 1
        BY <1>1, <2>2
    <3> QED
        BY <1>4, <2>2, <3>1, <3>2
  <2> QED
      BY <2>1, <2>2
<1> QED
    BY <1>5, <1>6, <1>7

\* An entry that goes takes its session out and leaves the others as they are.
LEMMA RemoveAgrees ==
    ASSUME NEW c \in Seq(Entries), NEW last, Agrees(c, last), NEW i \in DOMAIN c
    PROVE  /\ Agrees(RemoveAt(c, i), last)
           /\ \A k \in DOMAIN RemoveAt(c, i) : RemoveAt(c, i)[k].session # c[i].session
<1>1. PICK r : r = RemoveAt(c, i)
    OBVIOUS
<1>2. /\ r \in Seq(Entries) /\ Len(r) = Len(c) - 1
      /\ \A k \in 1 .. Len(c) - 1 : r[k] = IF k < i THEN c[k] ELSE c[k + 1]
    BY <1>1, RemoveAtElements
<1>3. /\ Len(c) \in Nat /\ DOMAIN c = 1 .. Len(c) /\ i \in 1 .. Len(c)
      /\ DOMAIN r = 1 .. Len(c) - 1
    BY <1>2
<1> DEFINE at(k) == IF k < i THEN k ELSE k + 1
<1>4. \A k \in DOMAIN r : at(k) \in DOMAIN c /\ r[k] = c[at(k)] /\ at(k) # i
    BY <1>2, <1>3
<1>5. \A k, l \in DOMAIN r : at(k) = at(l) => k = l
    BY <1>3
<1> HIDE DEF at
<1>6. \A k, l \in DOMAIN r : r[k].session = r[l].session => k = l
    BY <1>4, <1>5 DEF Agrees
<1>7. \A k \in DOMAIN r : r[k].model = last[r[k].session]
    BY <1>4 DEF Agrees
<1>8. \A k \in DOMAIN r : r[k].session # c[i].session
    BY <1>4 DEF Agrees
<1> QED
    BY <1>1, <1>6, <1>7, <1>8 DEF Agrees

\* A new entry of a session that has none, with the model that is recorded.
LEMMA AppendAgrees ==
    ASSUME NEW c \in Seq(Entries), NEW last, Agrees(c, last), NEW e \in Entries,
           NEW new, new[e.session] = e.model, \A s \in Sessions : s # e.session => new[s] = last[s],
           \A k \in DOMAIN c : c[k].session # e.session
    PROVE  Agrees(Append(c, e), new)
<1>1. PICK r : r = Append(c, e)
    OBVIOUS
<1>2. /\ DOMAIN c = 1 .. Len(c) /\ Len(c) \in Nat /\ DOMAIN r = 1 .. Len(c) + 1
      /\ r[Len(c) + 1] = e /\ \A k \in 1 .. Len(c) : r[k] = c[k]
    BY <1>1
<1>3. \A k \in DOMAIN c : c[k].session \in Sessions
  <2>1. \A k \in DOMAIN c : c[k] \in Entries
      OBVIOUS
  <2> QED
      BY <2>1 DEF Entries
<1>4. \A k, l \in DOMAIN r : r[k].session = r[l].session => k = l
    BY <1>2 DEF Agrees
<1>5. \A k \in DOMAIN r : r[k].model = new[r[k].session]
    BY <1>2, <1>3 DEF Agrees
<1> QED
    BY <1>1, <1>4, <1>5 DEF Agrees

\* The cache without a session.
LEMMA WithoutGood ==
    ASSUME cache \in Seq(Entries), Len(cache) <= CacheSize, CacheInv, NEW s \in Sessions
    PROVE  /\ Without(s) \in Seq(Entries)
           /\ Cached(s) = {} => Without(s) = cache
           /\ Cached(s) # {} => Len(Without(s)) = Len(cache) - 1
           /\ Agrees(Without(s), lastRecorded)
           /\ \A k \in DOMAIN Without(s) : Without(s)[k].session # s
<1>0. Agrees(cache, lastRecorded)
    BY DEF CacheInv, Agrees
<1>1. CASE Cached(s) = {}
    BY <1>0, <1>1 DEF Without, Cached
<1>2. CASE Cached(s) # {}
  <2>1. PICK i : i = CHOOSE k \in Cached(s) : TRUE
      OBVIOUS
  <2>2. i \in Cached(s) /\ Without(s) = RemoveAt(cache, i)
      BY <1>2, <2>1 DEF Without
  <2>3. i \in DOMAIN cache /\ cache[i].session = s
      BY <2>2 DEF Cached
  <2> QED
      BY <1>0, <1>2, <2>2, <2>3, RemoveAtElements, RemoveAgrees
<1> QED
    BY <1>1, <1>2

\* Get keeps what the cache says.
LEMMA GetGood ==
    ASSUME cache \in Seq(Entries), Len(cache) <= CacheSize, CacheInv, NEW s \in Sessions \cup {None}
    PROVE  /\ CacheGet(s) \in Seq(Entries) /\ Len(CacheGet(s)) <= CacheSize
           /\ Agrees(CacheGet(s), lastRecorded)
<1>0. Agrees(cache, lastRecorded)
    BY DEF CacheInv, Agrees
<1>1. CASE Cached(s) = {}
    BY <1>0, <1>1 DEF CacheGet
<1>2. CASE Cached(s) # {}
  <2>1. PICK i : i = CHOOSE k \in Cached(s) : TRUE
      OBVIOUS
  <2>2. i \in DOMAIN cache /\ cache[i].session = s
      BY <1>2, <2>1 DEF Cached
  <2>3. PICK e : e = cache[i]
      OBVIOUS
  <2>4. e \in Entries /\ e.session = s /\ s \in Sessions /\ e.model = lastRecorded[e.session]
    <3>1. e \in Entries
        BY <2>2, <2>3
    <3>2. e.session \in Sessions
        BY <3>1 DEF Entries
    <3> QED
        BY <1>0, <2>2, <2>3, <3>1, <3>2 DEF Agrees
  <2>5. PICK w : w = Without(s)
      OBVIOUS
  <2>6. /\ w \in Seq(Entries) /\ Len(w) = Len(cache) - 1 /\ Agrees(w, lastRecorded)
        /\ \A k \in DOMAIN w : w[k].session # s
      BY <1>2, <2>4, <2>5, WithoutGood
  <2>7. CacheGet(s) = w \o <<e>>
      BY <1>2, <2>1, <2>3, <2>5 DEF CacheGet
  <2>8. w \o <<e>> = Append(w, e) /\ Append(w, e) \in Seq(Entries) /\ Len(Append(w, e)) = Len(cache)
      BY <2>4, <2>6
  <2>9. Agrees(Append(w, e), lastRecorded)
      BY <2>4, <2>6, AppendAgrees
  <2> QED
      BY <2>7, <2>8, <2>9
<1> QED
    BY <1>1, <1>2

\* Add records a model.
LEMMA AddGood ==
    ASSUME cache \in Seq(Entries), Len(cache) <= CacheSize, CacheInv,
           NEW s \in Sessions, NEW m \in Names, NEW new,
           new[s] = m, \A t \in Sessions : t # s => new[t] = lastRecorded[t]
    PROVE  /\ CacheAdd(s, m) \in Seq(Entries) /\ Len(CacheAdd(s, m)) <= CacheSize
           /\ Agrees(CacheAdd(s, m), new)
<1>0. /\ CacheSize \in Nat \ {0} /\ Len(cache) \in Nat
      /\ Agrees(cache, lastRecorded)
    BY SelectorAssumption DEF CacheInv, Agrees
<1>1. PICK e : e = Entry(s, m)
    OBVIOUS
<1>2. e \in Entries /\ e.session = s /\ e.model = m
    BY <1>1 DEF Entry, Entries
<1>3. CASE Cached(s) = {} /\ Len(cache) = CacheSize
  <2>1. PICK r : r = Tail(cache)
      OBVIOUS
  <2>2. r \in Seq(Entries) /\ Len(r) = Len(cache) - 1
        /\ \A k \in 1 .. Len(cache) - 1 : r[k] = cache[k + 1]
      BY <1>0, <1>3, <2>1
  <2>3. DOMAIN r = 1 .. Len(cache) - 1 /\ \A k \in DOMAIN r : k + 1 \in DOMAIN cache /\ r[k] = cache[k + 1]
      BY <1>0, <2>2
  <2>4. Agrees(r, lastRecorded) /\ \A k \in DOMAIN r : r[k].session # s
      BY <1>0, <1>3, <2>3 DEF Agrees, Cached
  <2>5. CacheAdd(s, m) = Append(r, e)
      BY <1>1, <1>3, <2>1 DEF CacheAdd
  <2>6. Append(r, e) \in Seq(Entries) /\ Len(Append(r, e)) = CacheSize
      BY <1>0, <1>2, <1>3, <2>2
  <2>7. Agrees(Append(r, e), new)
      BY <1>2, <2>2, <2>4, AppendAgrees
  <2> QED
      BY <1>0, <2>5, <2>6, <2>7
<1>4. CASE ~ (Cached(s) = {} /\ Len(cache) = CacheSize)
  <2>1. PICK w : w = Without(s)
      OBVIOUS
  <2>2. /\ w \in Seq(Entries) /\ Agrees(w, lastRecorded) /\ \A k \in DOMAIN w : w[k].session # s
        /\ Cached(s) = {} => w = cache
        /\ Cached(s) # {} => Len(w) = Len(cache) - 1
      BY <2>1, WithoutGood
  <2>3. Len(w) + 1 <= CacheSize
      BY <1>0, <1>4, <2>2
  <2>4. CacheAdd(s, m) = Append(w, e)
      BY <1>1, <1>4, <2>1 DEF CacheAdd
  <2>5. Append(w, e) \in Seq(Entries) /\ Len(Append(w, e)) <= CacheSize
      BY <1>2, <2>2, <2>3
  <2>6. Agrees(Append(w, e), new)
      BY <1>2, <2>2, AppendAgrees
  <2> QED
      BY <2>4, <2>5, <2>6
<1> QED
    BY <1>3, <1>4

-----------------------------------------------------------------------------
(***************************************************************************)
(* The rest of the program.                                                *)
(***************************************************************************)
\* What is known of the turn stays while the turn does.
LEMMA TurnKept ==
    ASSUME TurnInv, ScoreInv, UNCHANGED <<run, pipeline>>
    PROVE  TurnInv' /\ ScoreInv'
<1>1. TurnInv'
    BY DEF TurnInv, Injective, Kept
<1>2. ASSUME NEW done \in Seq(Weighting)
      PROVE  ScoresAfter(done)' <=> ScoresAfter(done)
    BY DEF ScoresAfter, SessionPart, PricePart, OthersPart, Kept
<1>3. Best' = Best
    BY DEF Best, Kept
<1> QED
    BY <1>1, <1>2, <1>3 DEF ScoreInv

\* What the request asked for stays known as long as the turn and the attributes do,
\* and nothing is claimed of groups once something changed.
LEMMA AskedKept ==
    ASSUME AskedInv, UNCHANGED <<run, pipeline>>, ~stable' \/ UNCHANGED <<stable, attr>>
    PROVE  AskedInv'
<1>1. Kept' = Kept
    BY DEF Kept
<1> QED
    BY <1>1 DEF AskedInv

LEMMA ChangeTypes ==
    ASSUME TypeOK, Change
    PROVE  /\ pipeline' \in Pipelines /\ run' \in Turn /\ turns' \in 0 .. MaxTurns
           /\ changes' \in 0 .. MaxChanges /\ ~stable' /\ stable' \in BOOLEAN
           /\ UNCHANGED <<run, pipeline>>
<1>1. changes' \in 0 .. MaxChanges
    BY SelectorAssumption DEF TypeOK, Change
<1> QED
    BY <1>1 DEF TypeOK, Change

\* CreateModel, DeleteModel and PutAttribute.
LEMMA StoreChanges ==
    ASSUME SelectorInv, NEW o \in Models, CreateModel(o) \/ DeleteModel(o) \/ PutAttribute(o)
    PROVE  SelectorInv'
<1>0. TypeOK /\ TurnInv /\ AskedInv /\ CacheInv /\ ScoreInv
    BY DEF SelectorInv
<1>1. Change /\ UNCHANGED <<cache, lastRecorded>>
    BY DEF CreateModel, DeleteModel, PutAttribute
<1>2. TurnInv' /\ ScoreInv' /\ AskedInv'
    BY <1>0, <1>1, ChangeTypes, TurnKept, AskedKept
<1>3. CacheInv'
    BY <1>0, <1>1 DEF CacheInv
<1>4. registered' \subseteq created' /\ created' \subseteq Models
    BY <1>0 DEF TypeOK, CreateModel, DeleteModel, PutAttribute
<1>5. attr' \in [Models -> [price : Prices \cup {None}, count : Counts \cup {None},
                            groups : SUBSET Groups]]
  <2>1. CASE UNCHANGED attr
      BY <1>0, <2>1 DEF TypeOK
  <2>2. CASE \E p \in Prices : attr' = [attr EXCEPT ![o].price = p]
      BY <1>0, <2>2 DEF TypeOK
  <2>3. CASE \E n \in Counts : attr' = [attr EXCEPT ![o].count = n]
      BY <1>0, <2>3 DEF TypeOK
  <2>4. CASE \E g \in SUBSET Groups : attr' = [attr EXCEPT ![o].groups = g]
      BY <1>0, <2>4 DEF TypeOK
  <2> QED
      BY <2>1, <2>2, <2>3, <2>4 DEF CreateModel, DeleteModel, PutAttribute
<1>6. TypeOK'
    BY <1>0, <1>1, <1>4, <1>5, ChangeTypes DEF TypeOK
<1> QED
    BY <1>2, <1>3, <1>6 DEF SelectorInv

\* A model recorded: the history and the cache stay in step.
LEMMA Recorded ==
    ASSUME TypeOK, CacheInv, NEW s \in Sessions, NEW m \in Names,
           cache' = CacheAdd(s, m), lastRecorded' = [lastRecorded EXCEPT ![s] = m]
    PROVE  /\ cache' \in Seq(Entries) /\ Len(cache') <= CacheSize
           /\ lastRecorded' \in [Sessions -> Names \cup {None}]
           /\ CacheInv'
<1>1. cache \in Seq(Entries) /\ Len(cache) <= CacheSize
    BY DEF TypeOK, Entries
<1>2. lastRecorded \in [Sessions -> Names \cup {None}]
    BY DEF TypeOK
<1>3. lastRecorded'[s] = m /\ \A t \in Sessions : t # s => lastRecorded'[t] = lastRecorded[t]
    BY <1>2
<1>4. PICK new : new = lastRecorded'
    OBVIOUS
<1>5. new[s] = m /\ \A t \in Sessions : t # s => new[t] = lastRecorded[t]
    BY <1>3, <1>4
<1>6. /\ CacheAdd(s, m) \in Seq(Entries) /\ Len(CacheAdd(s, m)) <= CacheSize
      /\ Agrees(CacheAdd(s, m), new)
    BY <1>1, <1>5, AddGood
<1>7. Agrees(cache', lastRecorded')
    BY <1>4, <1>6
<1> QED
    BY <1>2, <1>6, <1>7 DEF CacheInv, Agrees

LEMMA OtherResponses ==
    ASSUME SelectorInv, NEW s \in Sessions, NEW m \in Names, OtherResponse(s, m)
    PROVE  SelectorInv'
<1>0. TypeOK /\ TurnInv /\ AskedInv /\ CacheInv /\ ScoreInv
    BY DEF SelectorInv
<1>1. Change /\ UNCHANGED <<registered, created, attr>>
    BY DEF OtherResponse, storeVars
<1>2. TurnInv' /\ ScoreInv' /\ AskedInv'
    BY <1>0, <1>1, ChangeTypes, TurnKept, AskedKept
<1>3. cache' = CacheAdd(s, m) /\ lastRecorded' = [lastRecorded EXCEPT ![s] = m]
    BY DEF OtherResponse
<1>4. /\ CacheInv' /\ cache' \in Seq(Entries) /\ Len(cache') <= CacheSize
      /\ lastRecorded' \in [Sessions -> Names \cup {None}]
    BY <1>0, <1>3, Recorded
<1>5. TypeOK'
    BY <1>0, <1>1, <1>4, ChangeTypes DEF TypeOK, Entries
<1> QED
    BY <1>2, <1>4, <1>5 DEF SelectorInv

LEMMA Expires ==
    ASSUME SelectorInv, Expire
    PROVE  SelectorInv'
<1>0. TypeOK /\ TurnInv /\ AskedInv /\ CacheInv /\ ScoreInv
    BY DEF SelectorInv
<1>1. UNCHANGED <<registered, created, attr, pipeline, run, turns, changes, lastRecorded, stable>>
    BY DEF Expire, storeVars
<1>2. TurnInv' /\ ScoreInv' /\ AskedInv'
    BY <1>0, <1>1, TurnKept, AskedKept
<1>3. PICK i \in DOMAIN cache : cache' = RemoveAt(cache, i)
    BY DEF Expire
<1>4. cache \in Seq(Entries) /\ Len(cache) <= CacheSize /\ CacheSize \in Nat /\ Len(cache) \in Nat
      /\ Agrees(cache, lastRecorded)
    BY <1>0, SelectorAssumption DEF TypeOK, Entries, CacheInv, Agrees
<1>5. cache' \in Seq(Entries) /\ Len(cache') = Len(cache) - 1
    BY <1>3, <1>4, RemoveAtElements
<1>6. Agrees(RemoveAt(cache, i), lastRecorded)
    BY <1>4, RemoveAgrees
<1>7. CacheInv'
    BY <1>1, <1>3, <1>6 DEF CacheInv, Agrees
<1>8. Len(cache') <= CacheSize
    BY <1>4, <1>5
<1>9. TypeOK'
    BY <1>0, <1>1, <1>5, <1>8 DEF TypeOK, Entries
<1> QED
    BY <1>2, <1>7, <1>9 DEF SelectorInv

-----------------------------------------------------------------------------
(***************************************************************************)
(* The stream: a turn starts and ends.                                     *)
(***************************************************************************)
LEMMA NoTurnType == NoTurn \in Turn /\ Rejected \in Turn
<1>1. [kind |-> "auto"] \in Wanted
    BY DEF Wanted
<1>2. NoTurn \in Turn
    BY <1>1 DEF NoTurn, Turn
<1> QED
    BY <1>1, <1>2 DEF Rejected, NoTurn, Turn

\* A step that changes the turn only.
LEMMA StepTypes ==
    ASSUME TypeOK, CacheInv, NEW r \in Turn, Step(r)
    PROVE  TypeOK' /\ CacheInv' /\ UNCHANGED <<pipeline, attr, stable, registered>>
BY DEF TypeOK, CacheInv, Step, selectorUnchanged, storeVars

\* Between turns nothing is claimed of the turn.
LEMMA BetweenTurns ==
    ASSUME run' = NoTurn \/ run' = Rejected
    PROVE  TurnInv' /\ AskedInv' /\ ScoreInv'
<1>1. /\ run'.pc \in {"idle", "rejected"} /\ run'.models = <<>> /\ run'.group = <<>>
    BY DEF NoTurn, Rejected
<1>2. TurnInv'
    BY <1>1 DEF TurnInv, Choosing, Injective
<1>3. AskedInv'
    BY <1>1 DEF AskedInv, Choosing
<1>4. ScoreInv'
    BY <1>1 DEF ScoreInv, Choosing
<1> QED
    BY <1>2, <1>3, <1>4

\* GetModels lists the models, each once.
LEMMA ListedOnce ==
    ASSUME NEW S, S \subseteq Models, S # {}, NEW models \in SetToSeqs(S)
    PROVE  models \in Seq(Models) /\ models # <<>> /\ Injective(models)
<1>1. IsFiniteSet(S)
    BY SelectorAssumption, FS_Subset
<1>2. Cardinality(S) \in Nat /\ Cardinality(S) # 0
    BY <1>1, FS_CardinalityType, FS_EmptySet
<1>3. PICK n : n = Cardinality(S)
    OBVIOUS
<1>4. models \in [1 .. n -> S] /\ \A i, j \in 1 .. n : i # j => models[i] # models[j]
    BY <1>3 DEF SetToSeqs
<1>5. models \in Seq(Models) /\ DOMAIN models = 1 .. n /\ 1 \in 1 .. n
    BY <1>2, <1>3, <1>4
<1>6. models # <<>>
  <2>1. 1 \in DOMAIN models
      BY <1>5
  <2>2. DOMAIN <<>> = {}
      OBVIOUS
  <2> QED
      BY <2>1, <2>2, Zenon
<1>7. Injective(models)
    BY <1>4, <1>5 DEF Injective
<1> QED
    BY <1>5, <1>6, <1>7

\* Before the first scorer every score is 0.
LEMMA ScoresStart ==
    ASSUME TypeOK, UNCHANGED pipeline, run'.rest = pipeline.scorers, run'.prior = None,
           run'.score = [o \in Models |-> 0], run'.pc \in {"filter", "score"}
    PROVE  ScoreInv'
<1>1. Scale \in Nat /\ TotalWeight(<<>>, {"session"}) = 0
      /\ TotalWeight(<<>>, Scorers \ {"session"}) = 0
    BY SelectorAssumption, TotalEmpty
<1>2. pipeline.scorers \in Seq(Weighting)
    BY SelectorAssumption DEF TypeOK, Pipeline
<1>3. pipeline.scorers = <<>> \o pipeline.scorers
    BY <1>2
<1>4. ASSUME NEW o \in Models
      PROVE  SessionPart(<<>>, o)' = 0 /\ PricePart(o)' = 0 /\ OthersPart(<<>>)' = 0
  <2>1. SessionPart(<<>>, o)' = 0
      BY DEF SessionPart
  <2>2. PricePart(o)' = 0
      BY DEF PricePart
  <2>3. OthersPart(<<>>)' = Scale * TotalWeight(<<>>, Scorers \ {"session"})
      BY DEF OthersPart
  <2>4. OthersPart(<<>>)' = 0
      BY <1>1, <2>3
  <2> QED
      BY <2>1, <2>2, <2>4
<1>5. \A o \in Models : run'.score[o] = 0
    OBVIOUS
<1>6. ScoresAfter(<<>>)'
    BY <1>1, <1>3, <1>4, <1>5 DEF ScoresAfter
<1>7. <<>> \in Seq(Weighting)
    OBVIOUS
<1> QED
    BY <1>6, <1>7 DEF ScoreInv

LEMMA ProcessRequests ==
    ASSUME SelectorInv, ProcessRequest
    PROVE  SelectorInv'
<1>0. TypeOK /\ CacheInv
    BY DEF SelectorInv
<1>1. /\ UNCHANGED <<registered, created, attr, pipeline, changes, lastRecorded, cache>>
      /\ turns' \in 0 .. MaxTurns /\ stable'
  <2>1. UNCHANGED <<registered, created, attr, pipeline, changes, lastRecorded, cache>>
      BY DEF ProcessRequest, selectorUnchanged, storeVars
  <2>2. turns < MaxTurns /\ turns' = turns + 1 /\ stable' = TRUE
      BY DEF ProcessRequest
  <2>3. turns \in 0 .. MaxTurns /\ MaxTurns \in Nat
      BY <1>0, SelectorAssumption DEF TypeOK
  <2>4. turns' \in 0 .. MaxTurns
      BY <2>2, <2>3
  <2> QED
      BY <2>1, <2>2, <2>4
<1>2. CacheInv'
    BY <1>0, <1>1 DEF CacheInv
<1>3. run' \in Turn => TypeOK'
    BY <1>0, <1>1 DEF TypeOK
<1>4. CASE registered = {}
  <2>1. run' = Rejected
      BY <1>4 DEF ProcessRequest
  <2> QED
      BY <1>2, <1>3, <2>1, NoTurnType, BetweenTurns DEF SelectorInv
<1>5. CASE registered # {}
  <2>1. PICK wanted \in IF pipeline.filter THEN Wanted ELSE {NoTurn.wanted},
             session \in {None} \cup (IF HasSessions THEN Sessions ELSE {}),
             models \in SetToSeqs(registered) :
             run' = [NoTurn EXCEPT !.pc = IF pipeline.filter THEN "filter" ELSE "score",
                                   !.wanted = wanted, !.session = session,
                                   !.models = models, !.rest = pipeline.scorers]
      BY <1>5 DEF ProcessRequest
  <2>2. wanted \in Wanted /\ session \in Sessions \cup {None}
      BY DEF NoTurn, Wanted
  <2>3. models \in Seq(Models) /\ models # <<>> /\ Injective(models)
      BY <1>0, <1>5, ListedOnce DEF TypeOK
  <2>4. pipeline.scorers \in Seq(Weighting)
      BY <1>0, SelectorAssumption DEF TypeOK, Pipeline
  <2>5. run' \in Turn
    <3>1. PICK pc : pc = IF pipeline.filter THEN "filter" ELSE "score"
        OBVIOUS
    <3>2. pc \in {"filter", "score"}
        BY <3>1
    <3>3. run' = [NoTurn EXCEPT !.pc = pc, !.wanted = wanted, !.session = session,
                                !.models = models, !.rest = pipeline.scorers]
        BY <2>1, <3>1
    <3> QED
        BY <2>2, <2>3, <2>4, <3>2, <3>3, NoTurnType DEF Turn
  <2>6. /\ run'.pc = IF pipeline.filter THEN "filter" ELSE "score"
        /\ run'.models = models /\ run'.group = <<>> /\ run'.rest = pipeline.scorers
        /\ run'.prior = None /\ run'.score = [o \in Models |-> 0]
      BY <2>1 DEF NoTurn
  <2>7. TurnInv'
      BY <2>3, <2>6 DEF TurnInv, Choosing, Injective
  <2>8. AskedInv'
      BY <1>1, <2>6 DEF AskedInv, Choosing
  <2>9. ScoreInv'
      BY <1>0, <1>1, <2>6, ScoresStart
  <2> QED
      BY <1>2, <1>3, <2>5, <2>7, <2>8, <2>9 DEF SelectorInv
<1> QED
    BY <1>4, <1>5

LEMMA Ends ==
    ASSUME SelectorInv, ProcessResponse \/ EndTurn
    PROVE  SelectorInv'
<1>0. TypeOK /\ CacheInv
    BY DEF SelectorInv
<1>1. CASE EndTurn
  <2>1. Step(NoTurn) /\ run' = NoTurn
      BY <1>1 DEF EndTurn, Step
  <2> QED
      BY <1>0, <2>1, NoTurnType, StepTypes, BetweenTurns DEF SelectorInv
<1>2. CASE ProcessResponse
  <2>1. run' = NoTurn /\ UNCHANGED <<registered, created, attr, pipeline, turns, changes, stable>>
      BY <1>2 DEF ProcessResponse, storeVars
  <2>2. PICK s \in (IF run.session # None THEN {run.session} ELSE Fresh), m \in Names :
           cache' = CacheAdd(s, m) /\ lastRecorded' = [lastRecorded EXCEPT ![s] = m]
      BY <1>2 DEF ProcessResponse
  <2>3. s \in Sessions
      BY <1>0 DEF TypeOK, Turn, Fresh
  <2>4. /\ cache' \in Seq(Entries) /\ Len(cache') <= CacheSize
        /\ lastRecorded' \in [Sessions -> Names \cup {None}] /\ CacheInv'
      BY <1>0, <2>2, <2>3, Recorded
  <2>5. TypeOK'
      BY <1>0, <2>1, <2>4, NoTurnType DEF TypeOK, Entries
  <2> QED
      BY <2>1, <2>4, <2>5, BetweenTurns DEF SelectorInv
<1> QED
    BY <1>1, <1>2

-----------------------------------------------------------------------------
(***************************************************************************)
(* The filter.                                                             *)
(***************************************************************************)
LEMMA FilteredType ==
    ASSUME NEW t \in Turn, NEW models \in Seq(Models)
    PROVE  [t EXCEPT !.pc = "score", !.models = models, !.next = 1, !.group = <<>>] \in Turn
<1>1. PICK pc, next, group : pc = "score" /\ next = 1 /\ group = <<>>
    OBVIOUS
<1>2. /\ pc \in {"idle", "filter", "score", "sum", "cost", "count", "forwarded", "rejected", "panicked"}
      /\ next \in Nat \ {0} /\ group \in Seq(Models)
    BY <1>1
<1>3. [t EXCEPT !.pc = pc, !.models = models, !.next = next, !.group = group] \in Turn
    BY <1>2 DEF Turn
<1> QED
    BY <1>1, <1>3

\* The filter is over, with candidates the request asked for, each once.
LEMMA FilterOver ==
    ASSUME SelectorInv, run.pc = "filter", NEW models \in Seq(Models), Injective(models),
           Step(Filtered(models)),
           \A i \in DOMAIN models :
              /\ run.wanted.kind # "malformed"
              /\ run.wanted.kind = "name" => NameOf[models[i]] = run.wanted.name
              /\ run.wanted.kind = "group" /\ stable => run.wanted.group \in attr[models[i]].groups
    PROVE  SelectorInv'
<1>0. TypeOK /\ TurnInv /\ CacheInv /\ ScoreInv
    BY DEF SelectorInv
<1>1. CASE models = <<>>
  <2>1. Step(Rejected) /\ run' = Rejected
      BY <1>1 DEF Filtered, Step
  <2> QED
      BY <1>0, <2>1, NoTurnType, StepTypes, BetweenTurns DEF SelectorInv
<1>2. CASE models # <<>>
  <2>1. PICK r : r = [run EXCEPT !.pc = "score", !.models = models, !.next = 1, !.group = <<>>]
      OBVIOUS
  <2>2. Step(r) /\ run' = r
      BY <1>2, <2>1 DEF Filtered, Step
  <2>3. run \in Turn /\ r \in Turn
    <3>1. run \in Turn
        BY <1>0 DEF TypeOK
    <3>2. r \in Turn
        BY <2>1, <3>1, FilteredType
    <3> QED
        BY <3>1, <3>2
  <2>4. /\ r.pc = "score" /\ r.models = models /\ r.group = <<>> /\ r.wanted = run.wanted
        /\ r.prior = run.prior /\ r.rest = run.rest /\ r.score = run.score
      BY <2>1, <2>3 DEF Turn
  <2>5. TypeOK' /\ CacheInv' /\ UNCHANGED <<pipeline, attr, stable, registered>>
      BY <1>0, <2>2, <2>3, StepTypes
  <2>6. TurnInv'
      BY <1>2, <2>2, <2>4 DEF TurnInv, Choosing, Injective
  <2>7. AskedInv'
    <3>1. Kept' = {models[i] : i \in DOMAIN models}
        BY <2>2, <2>4 DEF Kept, ToSet
    <3> QED
        BY <2>2, <2>4, <2>5, <3>1 DEF AskedInv
  <2>8. ScoreInv'
    <3>1. run.prior = None
        BY <1>0 DEF TurnInv
    <3>2. PICK done \in Seq(Weighting) : ScoresAfter(done)
        BY <1>0 DEF ScoreInv
    <3>3. ASSUME NEW o \in Models
          PROVE  /\ SessionPart(done, o) = 0 /\ SessionPart(done, o)' = 0
                 /\ PricePart(o) = 0 /\ PricePart(o)' = 0
        BY <2>2, <2>4, <3>1 DEF SessionPart, PricePart
    <3>4. OthersPart(done)' = OthersPart(done)
        BY DEF OthersPart
    <3>5. ScoresAfter(done)'
        BY <2>2, <2>4, <2>5, <3>2, <3>3, <3>4 DEF ScoresAfter
    <3> QED
        BY <2>2, <2>4, <3>5 DEF ScoreInv
  <2> QED
      BY <2>5, <2>6, <2>7, <2>8 DEF SelectorInv
<1> QED
    BY <1>1, <1>2

LEMMA Filters ==
    ASSUME SelectorInv, Filter
    PROVE  SelectorInv'
<1>1. run.pc = "filter" /\ run.wanted.kind # "group" /\ Step(Filtered(Selected(run.models, Matching)))
    BY DEF Filter
<1>2. run \in Turn /\ Injective(run.models)
    BY DEF SelectorInv, TypeOK, TurnInv
<1>3. run.models \in Seq(Models)
    BY <1>2 DEF Turn
<1>4. PICK models : models = Selected(run.models, Matching)
    OBVIOUS
<1>5. models \in Seq(Models \cap Matching)
    BY <1>3, <1>4, SelectedType
<1>6. models \in Seq(Models) /\ \A i \in DOMAIN models : models[i] \in Matching
    BY <1>5
<1>7. Injective(models)
    BY <1>2, <1>3, <1>4, SelectedInjective DEF Injective
<1>8. ASSUME NEW i \in DOMAIN models
      PROVE  /\ run.wanted.kind # "malformed"
             /\ run.wanted.kind = "name" => NameOf[models[i]] = run.wanted.name
    BY <1>6 DEF Matching
<1> QED
    BY <1>1, <1>4, <1>6, <1>7, <1>8, FilterOver

LEMMA FilterGroups ==
    ASSUME SelectorInv, FilterGroup
    PROVE  SelectorInv'
<1>0. TypeOK /\ TurnInv /\ AskedInv /\ CacheInv /\ ScoreInv
    BY DEF SelectorInv
<1>1. run.pc = "filter" /\ run.wanted.kind = "group"
    BY DEF FilterGroup
<1>2. run \in Turn /\ Injective(run.models) /\ Injective(run.group)
    BY <1>0, <1>1 DEF TypeOK, TurnInv
<1>3. /\ run.models \in Seq(Models) /\ run.group \in Seq(Models) /\ run.next \in Nat \ {0}
      /\ DOMAIN run.models = 1 .. Len(run.models) /\ Len(run.models) \in Nat
      /\ DOMAIN run.group = 1 .. Len(run.group) /\ Len(run.group) \in Nat
    BY <1>2 DEF Turn
<1>4. CASE run.next > Len(run.models)
  <2>1. Step(Filtered(run.group))
      BY <1>4 DEF FilterGroup
  <2>2. stable => \A i \in DOMAIN run.group : run.wanted.group \in attr[run.group[i]].groups
      BY <1>0, <1>1 DEF AskedInv
  <2> QED
      BY <1>1, <1>2, <1>3, <2>1, <2>2, FilterOver
<1>5. CASE ~ (run.next > Len(run.models))
  <2>1. PICK o : o = run.models[run.next]
      OBVIOUS
  <2>2. o \in Models /\ run.next \in DOMAIN run.models
      BY <1>3, <1>5, <2>1
  <2>3. PICK group : group = IF run.wanted.group \in attr[o].groups THEN Append(run.group, o)
                             ELSE run.group
      OBVIOUS
  <2>4. PICK r : r = [run EXCEPT !.next = @ + 1, !.group = group]
      OBVIOUS
  <2>5. Step(r) /\ run' = r
      BY <1>5, <2>1, <2>3, <2>4 DEF FilterGroup, Step
  <2>6. group \in Seq(Models)
      BY <1>3, <2>2, <2>3
  <2>7. r \in Turn
    <3>1. run.next + 1 \in Nat \ {0}
        BY <1>3
    <3>2. PICK next : next = run.next + 1
        OBVIOUS
    <3>3. r = [run EXCEPT !.next = next, !.group = group] /\ next \in Nat \ {0}
        BY <2>4, <3>1, <3>2
    <3> QED
        BY <1>2, <2>6, <3>3 DEF Turn
  <2>8. /\ r.pc = "filter" /\ r.models = run.models /\ r.group = group /\ r.wanted = run.wanted
        /\ r.prior = run.prior /\ r.rest = run.rest /\ r.score = run.score /\ r.next = run.next + 1
      BY <1>1, <1>2, <2>4 DEF Turn
  <2>9. TypeOK' /\ CacheInv' /\ UNCHANGED <<pipeline, attr, stable, registered>>
      BY <1>0, <2>5, <2>7, StepTypes
  <2>10. \A i \in DOMAIN run.group : \E k \in DOMAIN run.models :
            k < run.next /\ run.models[k] = run.group[i]
      BY <1>0, <1>1 DEF TurnInv
  <2>11. \A i \in DOMAIN run.group : run.group[i] # o
      BY <1>2, <1>3, <2>1, <2>2, <2>10 DEF Injective
  <2>12. \A i \in DOMAIN group : group[i] = o \/ (i \in DOMAIN run.group /\ group[i] = run.group[i])
      BY <1>3, <2>2, <2>3
  <2>13. Injective(group)
    <3>1. CASE run.wanted.group \in attr[o].groups
      <4>1. /\ DOMAIN group = 1 .. Len(run.group) + 1 /\ group[Len(run.group) + 1] = o
            /\ \A i \in 1 .. Len(run.group) : group[i] = run.group[i]
          BY <1>3, <2>2, <2>3, <3>1
      <4>2. PICK old : old = run.group
          OBVIOUS
      <4>3. /\ DOMAIN old = 1 .. Len(old) /\ Len(old) \in Nat /\ Injective(old)
            /\ \A i \in DOMAIN old : old[i] # o
            /\ DOMAIN group = 1 .. Len(old) + 1 /\ group[Len(old) + 1] = o
            /\ \A i \in 1 .. Len(old) : group[i] = old[i]
          BY <1>2, <1>3, <2>11, <4>1, <4>2
      <4> QED
          BY <4>3 DEF Injective
    <3>2. CASE ~ (run.wanted.group \in attr[o].groups)
        BY <1>2, <2>3, <3>2
    <3> QED
        BY <3>1, <3>2
  <2>14. \A i \in DOMAIN group : \E k \in DOMAIN run.models : k < run.next + 1 /\ run.models[k] = group[i]
    <3>1. ASSUME NEW i \in DOMAIN group
          PROVE  \E k \in DOMAIN run.models : k < run.next + 1 /\ run.models[k] = group[i]
      <4>1. CASE group[i] = o
          BY <1>3, <2>1, <2>2, <4>1
      <4>2. CASE i \in DOMAIN run.group /\ group[i] = run.group[i]
        <5>1. PICK k \in DOMAIN run.models : k < run.next /\ run.models[k] = run.group[i]
            BY <2>10, <4>2
        <5>2. k < run.next + 1
            BY <1>3, <5>1
        <5> QED
            BY <4>2, <5>1, <5>2
      <4> QED
          BY <2>12, <4>1, <4>2
    <3> QED
        BY <3>1
  <2>15. TurnInv'
    <3>1. run.prior = None
        BY <1>0, <1>1 DEF TurnInv
    <3> QED
        BY <1>2, <2>5, <2>8, <2>13, <2>14, <3>1 DEF TurnInv, Choosing, Injective
  <2>16. AskedInv'
    <3>1. ASSUME stable, NEW i \in DOMAIN group
          PROVE  run.wanted.group \in attr[group[i]].groups
      <4>1. \A k \in DOMAIN run.group : run.wanted.group \in attr[run.group[k]].groups
          BY <1>0, <1>1, <3>1 DEF AskedInv
      <4>2. CASE run.wanted.group \in attr[o].groups
          BY <2>12, <4>1, <4>2
      <4>3. CASE ~ (run.wanted.group \in attr[o].groups)
          BY <2>3, <4>1, <4>3
      <4> QED
          BY <4>2, <4>3
    <3> QED
        BY <2>5, <2>8, <2>9, <3>1 DEF AskedInv, Choosing
  <2>17. ScoreInv'
    <3>1. run.prior = None
        BY <1>0, <1>1 DEF TurnInv
    <3>2. PICK done \in Seq(Weighting) : ScoresAfter(done)
        BY <1>0, <1>1 DEF ScoreInv
    <3>3. ASSUME NEW p \in Models
          PROVE  /\ SessionPart(done, p) = 0 /\ SessionPart(done, p)' = 0
                 /\ PricePart(p) = 0 /\ PricePart(p)' = 0
        BY <1>1, <2>5, <2>8, <3>1 DEF SessionPart, PricePart
    <3>4. OthersPart(done)' = OthersPart(done)
        BY DEF OthersPart
    <3>5. ScoresAfter(done)'
        BY <2>5, <2>8, <2>9, <3>2, <3>3, <3>4 DEF ScoresAfter
    <3> QED
        BY <2>5, <2>8, <3>5 DEF ScoreInv
  <2> QED
      BY <2>9, <2>15, <2>16, <2>17 DEF SelectorInv
<1> QED
    BY <1>4, <1>5

-----------------------------------------------------------------------------
(***************************************************************************)
(* The scorers.                                                            *)
(***************************************************************************)
LEMMA RangeForced ==
    ASSUME NEW x \in Int
    PROVE  enforceScoreRange(x) \in Nat /\ enforceScoreRange(x) <= Scale
BY SelectorAssumption DEF enforceScoreRange

\* The weight of the scorer under way.
LEMMA HeadType ==
    ASSUME run \in Turn, run.rest # <<>>
    PROVE  /\ run.rest \in Seq(Weighting) /\ Head(run.rest) \in Weighting
           /\ Tail(run.rest) \in Seq(Weighting) /\ Head(run.rest).weight \in Nat
<1>1. run.rest \in Seq(Weighting)
    BY DEF Turn
<1>2. Head(run.rest) \in Weighting /\ Tail(run.rest) \in Seq(Weighting)
    BY <1>1
<1> QED
    BY <1>1, <1>2 DEF Weighting

\* A scorer adds a number between 0 and its weight, to the models it scores.
LEMMA WeightedBounds ==
    ASSUME run \in Turn, run.rest # <<>>, NEW raw, \A o \in DOMAIN raw : raw[o] \in Int
    PROVE  /\ Weighted(raw) \in [Models -> Int]
           /\ \A o \in Models :
                 /\ run.score[o] <= Weighted(raw)[o]
                 /\ o \in DOMAIN raw => Weighted(raw)[o] <= run.score[o] + Scale * Head(run.rest).weight
                 /\ o \notin DOMAIN raw => Weighted(raw)[o] = run.score[o]
<1>1. PICK w : w = Head(run.rest).weight
    OBVIOUS
<1>2. w \in Nat /\ Scale \in Nat
    BY <1>1, HeadType, SelectorAssumption
<1>3. \A o \in Models : run.score[o] \in Int
    BY DEF Turn
<1>4. \A o \in Models : Weighted(raw)[o] = run.score[o] + IF o \in DOMAIN raw
                                                   THEN enforceScoreRange(raw[o]) * w ELSE 0
    BY <1>1 DEF Weighted
<1>5. ASSUME NEW o \in Models, o \in DOMAIN raw
      PROVE  /\ Weighted(raw)[o] \in Int /\ run.score[o] <= Weighted(raw)[o]
             /\ Weighted(raw)[o] <= run.score[o] + Scale * w
  <2>1. PICK x : x = enforceScoreRange(raw[o])
      OBVIOUS
  <2>2. x \in Nat /\ x <= Scale
      BY <1>5, <2>1, RangeForced
  <2>3. x * w \in Nat /\ x * w <= Scale * w
      BY <1>2, <2>2
  <2>4. Weighted(raw)[o] = run.score[o] + x * w
      BY <1>4, <1>5, <2>1
  <2>5. Scale * w \in Nat /\ run.score[o] \in Int
      BY <1>2, <1>3
  <2> QED
      BY <2>3, <2>4, <2>5
<1>6. ASSUME NEW o \in Models, o \notin DOMAIN raw
      PROVE  Weighted(raw)[o] = run.score[o]
    BY <1>3, <1>4, <1>6
<1>7. Weighted(raw) = [o \in Models |-> Weighted(raw)[o]]
    BY DEF Weighted
<1>8. \A o \in Models : Weighted(raw)[o] \in Int
    BY <1>3, <1>5, <1>6
<1>9. Weighted(raw) \in [Models -> Int]
    BY <1>7, <1>8
<1> QED
    BY <1>1, <1>3, <1>5, <1>6, <1>9

\* A scorer that is done goes from those to come to those done.
LEMMA OneMoreDone ==
    ASSUME NEW done \in Seq(Weighting), NEW rest \in Seq(Weighting), rest # <<>>
    PROVE  done \o rest = Append(done, Head(rest)) \o Tail(rest)
<1>1. PICK h, t : h = Head(rest) /\ t = Tail(rest)
    OBVIOUS
<1>2. h \in Weighting /\ t \in Seq(Weighting) /\ rest = <<h>> \o t
    BY <1>1
<1>3. done \o (<<h>> \o t) = (done \o <<h>>) \o t
    BY <1>2, SingletonType, ConcatAssociative
<1>4. done \o <<h>> = Append(done, h)
    BY <1>2
<1> QED
    BY <1>1, <1>2, <1>3, <1>4

\* The weights of those done, after a scorer that is not the session scorer.
LEMMA TotalsAfterOther ==
    ASSUME NEW done \in Seq(Weighting), NEW h \in Weighting, h.kind # "session"
    PROVE  /\ TotalWeight(Append(done, h), {"session"}) = TotalWeight(done, {"session"})
           /\ Scale * TotalWeight(Append(done, h), Scorers \ {"session"})
                = Scale * TotalWeight(done, Scorers \ {"session"}) + Scale * h.weight
<1>1. Part(h, {"session"}) = 0 /\ Part(h, Scorers \ {"session"}) = h.weight /\ h.weight \in Nat
    BY DEF Part, Weighting
<1>2. TotalWeight(done, {"session"}) \in Nat /\ TotalWeight(done, Scorers \ {"session"}) \in Nat
    BY TotalType
<1>3. /\ TotalWeight(Append(done, h), {"session"}) = TotalWeight(done, {"session"}) + 0
      /\ TotalWeight(Append(done, h), Scorers \ {"session"})
           = TotalWeight(done, Scorers \ {"session"}) + h.weight
    BY <1>1, TotalAppend
<1>4. \A a, b, c \in Nat : a * (b + c) = a * b + a * c
    OBVIOUS
<1> QED
    BY <1>1, <1>2, <1>3, <1>4, SelectorAssumption

\* The fields of the turn after a scorer returned, and its type.
LEMMA ScoredFields ==
    ASSUME run \in Turn, run.rest # <<>>, NEW raw, \A o \in DOMAIN raw : raw[o] \in Int
    PROVE  /\ Scored(raw) \in Turn
           /\ Scored(raw).pc = "score" /\ Scored(raw).models = run.models
           /\ Scored(raw).wanted = run.wanted /\ Scored(raw).group = run.group
           /\ Scored(raw).prior = run.prior /\ Scored(raw).rest = Tail(run.rest)
           /\ Scored(raw).score = Weighted(raw)
<1>1. PICK pc, next, rest, sum, counts, score :
         /\ pc = "score" /\ next = 1 /\ rest = Tail(run.rest) /\ sum = 0
         /\ counts = [o \in Models |-> 0] /\ score = Weighted(raw)
    OBVIOUS
<1>2. /\ pc \in {"idle", "filter", "score", "sum", "cost", "count", "forwarded", "rejected", "panicked"}
      /\ next \in Nat \ {0} /\ rest \in Seq(Weighting) /\ sum \in Nat
      /\ counts \in [Models -> Nat] /\ score \in [Models -> Int]
    BY <1>1, HeadType, WeightedBounds
<1>3. PICK r : r = [run EXCEPT !.pc = pc, !.next = next, !.rest = rest, !.sum = sum,
                               !.counts = counts, !.score = score]
    OBVIOUS
<1>4. r \in Turn
    BY <1>2, <1>3 DEF Turn
<1>5. /\ r.pc = pc /\ r.models = run.models /\ r.wanted = run.wanted /\ r.group = run.group
      /\ r.prior = run.prior /\ r.rest = rest /\ r.score = score
    BY <1>3 DEF Turn
<1>6. Scored(raw) = r
    BY <1>1, <1>3 DEF Scored
<1> QED
    BY <1>1, <1>4, <1>5, <1>6

\* What was asked for stays known while the candidates, the request and the groups do.
LEMMA AskedStays ==
    ASSUME AskedInv, run.pc \in Choosing, run'.models = run.models, run'.wanted = run.wanted,
           run'.group = run.group, UNCHANGED <<pipeline, attr, stable>>
    PROVE  AskedInv'
<1>1. Kept' = Kept
    BY DEF Kept
<1> QED
    BY <1>1 DEF AskedInv

\* A session scorer among the last of those to come is among them.
LEMMA SessionToCome ==
    ASSUME NEW rest \in Seq(Weighting), rest # <<>>, NEW i \in DOMAIN Tail(rest),
           Tail(rest)[i].kind = "session"
    PROVE  \E k \in DOMAIN rest : rest[k].kind = "session"
<1>1. PICK t : t = Tail(rest)
    OBVIOUS
<1>2. Len(rest) \in Nat /\ DOMAIN rest = 1 .. Len(rest) /\ DOMAIN t = 1 .. Len(rest) - 1
      /\ \A k \in 1 .. Len(rest) - 1 : t[k] = rest[k + 1]
    BY <1>1
<1>3. i + 1 \in DOMAIN rest /\ rest[i + 1] = t[i]
    BY <1>1, <1>2
<1> QED
    BY <1>1, <1>3

\* Every scorer but the session scorer, when it returns.
LEMMA ScorerReturns ==
    ASSUME SelectorInv, run.pc \in {"score", "sum", "cost", "count"}, run.rest # <<>>,
           Head(run.rest).kind # "session", NEW raw, \A o \in DOMAIN raw : raw[o] \in Int,
           run.pc = "cost" => DOMAIN raw = {}, Step(Scored(raw))
    PROVE  SelectorInv'
<1>0. TypeOK /\ TurnInv /\ AskedInv /\ CacheInv /\ ScoreInv /\ run \in Turn
    BY DEF SelectorInv, TypeOK
<1>1. /\ Scored(raw) \in Turn /\ run' = Scored(raw)
      /\ run'.pc = "score" /\ run'.models = run.models /\ run'.wanted = run.wanted
      /\ run'.group = run.group /\ run'.prior = run.prior /\ run'.rest = Tail(run.rest)
      /\ run'.score = Weighted(raw)
    BY <1>0, ScoredFields DEF Step
<1>2. TypeOK' /\ CacheInv' /\ UNCHANGED <<pipeline, attr, stable, registered>>
    BY <1>0, <1>1, StepTypes
<1>3. AskedInv'
    BY <1>0, <1>1, <1>2, AskedStays DEF Choosing
<1>4. TurnInv'
    BY <1>0, <1>1 DEF TurnInv, Choosing, Injective
<1>5. ScoreInv'
  <2>1. PICK done \in Seq(Weighting) : ScoresAfter(done)
      BY <1>0 DEF ScoreInv, Choosing
  <2>2. PICK h, w, new : h = Head(run.rest) /\ w = Scale * Head(run.rest).weight /\ new = Append(done, h)
      OBVIOUS
  <2>3. /\ h \in Weighting /\ h.weight \in Nat /\ h.kind # "session" /\ new \in Seq(Weighting)
        /\ w \in Nat /\ run.rest \in Seq(Weighting)
      BY <1>0, <2>2, HeadType, SelectorAssumption
  <2>4. /\ TotalWeight(new, {"session"}) = TotalWeight(done, {"session"})
        /\ Scale * TotalWeight(new, Scorers \ {"session"})
             = Scale * TotalWeight(done, Scorers \ {"session"}) + w
      BY <2>2, <2>3, TotalsAfterOther
  <2>5. pipeline'.scorers = new \o run'.rest
    <3>1. done \o run.rest = Append(done, Head(run.rest)) \o Tail(run.rest)
        BY <2>3, OneMoreDone
    <3>2. pipeline.scorers = done \o run.rest
        BY <2>1 DEF ScoresAfter
    <3> QED
        BY <1>1, <1>2, <2>2, <3>1, <3>2
  <2>6. (\E i \in DOMAIN run'.rest : run'.rest[i].kind = "session") =>
           run'.prior = None /\ TotalWeight(new, {"session"}) = 0
    <3>1. (\E i \in DOMAIN run.rest : run.rest[i].kind = "session") =>
             run.prior = None /\ TotalWeight(done, {"session"}) = 0
        BY <2>1 DEF ScoresAfter
    <3> QED
        BY <1>1, <2>3, <2>4, <3>1, SessionToCome
  <2>7. ASSUME NEW o \in Models
        PROVE  /\ SessionPart(new, o)' <= run'.score[o]
               /\ run'.score[o] <= SessionPart(new, o)' + OthersPart(new)' + PricePart(o)'
    <3>1. PICK p, q, s, x, y : /\ p = SessionPart(done, o) /\ q = OthersPart(done)
                               /\ s = run.score[o] /\ x = Weighted(raw)[o] /\ y = PricePart(o)
        OBVIOUS
    <3>2. p <= s /\ s <= p + q + y
        BY <2>1, <3>1 DEF ScoresAfter
    <3>3. s \in Int /\ x \in Int /\ s <= x
        BY <1>0, <3>1, WeightedBounds DEF Turn
    <3>4. x <= s + w /\ (o \notin DOMAIN raw => x = s)
        BY <1>0, <2>2, <2>3, <3>1, <3>3, WeightedBounds
    <3>5. y \in {0, w} /\ (run.pc # "cost" => y = 0)
        BY <2>2, <3>1 DEF PricePart
    <3>6. run.pc = "cost" => o \notin DOMAIN raw
        OBVIOUS
    <3>7. p \in Nat /\ q \in Nat
      <4>1. TotalWeight(done, {"session"}) \in Nat /\ TotalWeight(done, Scorers \ {"session"}) \in Nat
          BY TotalType
      <4>2. Scale * TotalWeight(done, {"session"}) \in Nat
            /\ Scale * TotalWeight(done, Scorers \ {"session"}) \in Nat
          BY <4>1, SelectorAssumption
      <4> QED
          BY <3>1, <4>2 DEF SessionPart, OthersPart
    <3>8. SessionPart(new, o)' = p
      <4>1. Kept' = Kept
          BY <1>1 DEF Kept
      <4> QED
          BY <1>1, <2>4, <3>1, <4>1 DEF SessionPart
    <3>9. OthersPart(new)' = q + w
        BY <2>4, <3>1 DEF OthersPart
    <3>10. PricePart(o)' = 0
        BY <1>1 DEF PricePart
    <3>11. run'.score[o] = x
        BY <1>1, <3>1
    <3>12. p <= x /\ x <= p + (q + w) + 0
        BY <2>3, <3>2, <3>3, <3>4, <3>5, <3>6, <3>7
    <3> QED
        BY <3>8, <3>9, <3>10, <3>11, <3>12
  <2>8. ScoresAfter(new)'
      BY <2>5, <2>6, <2>7 DEF ScoresAfter
  <2> QED
      BY <1>1, <2>3, <2>8 DEF ScoreInv
<1> QED
    BY <1>2, <1>3, <1>4, <1>5 DEF SelectorInv

\* A scorer starts, or goes from one of its loops to the next.
LEMMA ScoresStay ==
    ASSUME ScoreInv, run \in Turn, run.pc \in {"score", "sum", "count"}, UNCHANGED pipeline,
           run'.models = run.models, run'.prior = run.prior, run'.rest = run.rest,
           run'.score = run.score,
           run'.pc \in {"score", "sum", "count"} \/ (run'.pc = "cost" /\ run'.next = 1)
    PROVE  ScoreInv'
<1>1. PICK done \in Seq(Weighting) : ScoresAfter(done)
    BY DEF ScoreInv, Choosing
<1>2. \A i \in DOMAIN run.models : ~ (i < 1)
  <2>1. run.models \in Seq(Models)
      BY DEF Turn
  <2>2. DOMAIN run.models = 1 .. Len(run.models) /\ Len(run.models) \in Nat
      BY <2>1
  <2> QED
      BY <2>2
<1>3. ASSUME NEW o \in Models
      PROVE  PricePart(o) = 0 /\ PricePart(o)' = 0 /\ SessionPart(done, o)' = SessionPart(done, o)
  <2>1. PricePart(o) = 0
      BY DEF PricePart
  <2>2. PricePart(o)' = 0
      BY <1>2 DEF PricePart
  <2>3. SessionPart(done, o)' = SessionPart(done, o)
      BY DEF SessionPart, Kept
  <2> QED
      BY <2>1, <2>2, <2>3
<1>4. OthersPart(done)' = OthersPart(done)
    BY DEF OthersPart
<1>5. ScoresAfter(done)'
    BY <1>1, <1>3, <1>4 DEF ScoresAfter
<1>6. run'.pc # "forwarded"
    OBVIOUS
<1> QED
    BY <1>5, <1>6 DEF ScoreInv

\* A step inside a scorer that leaves scores and candidates alone.
LEMMA ScorerGoesOn ==
    ASSUME SelectorInv, run.pc \in {"score", "sum", "count"}, NEW r \in Turn, Step(r),
           r.models = run.models, r.wanted = run.wanted, r.group = run.group,
           r.prior = run.prior, r.rest = run.rest, r.score = run.score,
           r.pc \in {"score", "sum", "count"} \/ (r.pc = "cost" /\ r.next = 1),
           r.pc \in {"sum", "cost"} => run.rest # <<>> /\ Head(run.rest).kind = "cost",
           r.pc = "count" => run.rest # <<>> /\ Head(run.rest).kind = "inflight",
           r.pc = "cost" => r.sum > 0
    PROVE  SelectorInv'
<1>0. TypeOK /\ TurnInv /\ AskedInv /\ CacheInv /\ ScoreInv /\ run \in Turn
    BY DEF SelectorInv, TypeOK
<1>1. run' = r /\ TypeOK' /\ CacheInv' /\ UNCHANGED <<pipeline, attr, stable, registered>>
    BY <1>0, StepTypes DEF Step
<1>2. AskedInv'
    BY <1>0, <1>1, AskedStays DEF Choosing
<1>3. TurnInv'
    BY <1>0, <1>1 DEF TurnInv, Choosing, Injective
<1>4. ScoreInv'
    BY <1>0, <1>1, ScoresStay
<1> QED
    BY <1>1, <1>2, <1>3, <1>4 DEF SelectorInv

\* The process panicked: nothing is forwarded.
LEMMA Panics ==
    ASSUME SelectorInv, run.pc \in {"sum", "cost"}, Step([run EXCEPT !.pc = "panicked"])
    PROVE  SelectorInv'
<1>0. TypeOK /\ TurnInv /\ AskedInv /\ CacheInv /\ run \in Turn
    BY DEF SelectorInv, TypeOK
<1>1. PICK r : r = [run EXCEPT !.pc = "panicked"]
    OBVIOUS
<1>2. r \in Turn /\ r.pc = "panicked" /\ r.models = run.models /\ r.wanted = run.wanted
      /\ r.group = run.group
    BY <1>0, <1>1 DEF Turn
<1>3. run' = r /\ TypeOK' /\ CacheInv' /\ UNCHANGED <<pipeline, attr, stable, registered>>
    BY <1>0, <1>1, <1>2, StepTypes DEF Step
<1>4. TurnInv' /\ ScoreInv'
    BY <1>0, <1>2, <1>3 DEF TurnInv, ScoreInv, Choosing, Injective
<1>5. AskedInv'
    BY <1>0, <1>2, <1>3, AskedStays DEF Choosing
<1> QED
    BY <1>3, <1>4, <1>5 DEF SelectorInv

\* The neutral scores.
LEMMA NeutralScores ==
    /\ \A o \in DOMAIN [p \in Kept |-> Scale \div 2] : [p \in Kept |-> Scale \div 2][o] \in Int
    /\ \A o \in DOMAIN [p \in Kept |-> Scale] : [p \in Kept |-> Scale][o] \in Int
<1>1. Scale \in Nat /\ Scale \div 2 \in Int
    BY SelectorAssumption
<1> QED
    BY <1>1

LEMMA CostGuardScores ==
    ASSUME SelectorInv, CostGuardScore
    PROVE  SelectorInv'
<1>1. run.pc = "score" /\ run.rest # <<>> /\ Head(run.rest).kind # "session"
    BY DEF CostGuardScore, Scorer
<1>2. Step(Scored([o \in Kept |-> Scale \div 2]))
    BY DEF CostGuardScore
<1> QED
    BY <1>1, <1>2, NeutralScores, ScorerReturns

LEMMA CostScores ==
    ASSUME SelectorInv, CostScore
    PROVE  SelectorInv'
<1>1. run.pc = "score" /\ run.rest # <<>> /\ Head(run.rest).kind = "cost"
    BY DEF CostScore, Scorer
<1>2. CASE Len(run.models) = 1
  <2>1. Step(Scored([o \in Kept |-> Scale \div 2]))
      BY <1>2 DEF CostScore
  <2> QED
      BY <1>1, <2>1, NeutralScores, ScorerReturns
<1>3. CASE Len(run.models) # 1
  <2>1. PICK r : r = [run EXCEPT !.pc = "sum"]
      OBVIOUS
  <2>2. run \in Turn /\ Step(r)
      BY <1>3, <2>1 DEF CostScore, SelectorInv, TypeOK
  <2>3. /\ r \in Turn /\ r.pc = "sum" /\ r.models = run.models /\ r.wanted = run.wanted
        /\ r.group = run.group /\ r.prior = run.prior /\ r.rest = run.rest /\ r.score = run.score
      BY <2>1, <2>2 DEF Turn
  <2> QED
      BY <1>1, <2>2, <2>3, ScorerGoesOn
<1> QED
    BY <1>2, <1>3

LEMMA InflightScores ==
    ASSUME SelectorInv, InflightScore
    PROVE  SelectorInv'
<1>1. run.pc = "score" /\ run.rest # <<>> /\ Head(run.rest).kind = "inflight"
    BY DEF InflightScore, Scorer
<1>2. PICK r : r = [run EXCEPT !.pc = "count"]
    OBVIOUS
<1>3. run \in Turn /\ Step(r)
    BY <1>2 DEF InflightScore, SelectorInv, TypeOK
<1>4. /\ r \in Turn /\ r.pc = "count" /\ r.models = run.models /\ r.wanted = run.wanted
      /\ r.group = run.group /\ r.prior = run.prior /\ r.rest = run.rest /\ r.score = run.score
    BY <1>2, <1>3 DEF Turn
<1> QED
    BY <1>1, <1>3, <1>4, ScorerGoesOn

\* The candidate a loop of a scorer is at.
LEMMA AtCandidate ==
    ASSUME run \in Turn, ~ (run.next > Len(run.models))
    PROVE  /\ run.next \in DOMAIN run.models /\ run.next \in Nat /\ run.next + 1 \in Nat \ {0}
           /\ run.models[run.next] \in Models
<1>1. run.models \in Seq(Models) /\ run.next \in Nat \ {0}
    BY DEF Turn
<1>2. DOMAIN run.models = 1 .. Len(run.models) /\ Len(run.models) \in Nat
    BY <1>1
<1>3. run.next \in DOMAIN run.models
    BY <1>1, <1>2
<1> QED
    BY <1>1, <1>3

LEMMA SumsPrices ==
    ASSUME SelectorInv, SumPrices
    PROVE  SelectorInv'
<1>1. /\ run.pc = "sum" /\ run \in Turn /\ run.rest # <<>> /\ Head(run.rest).kind = "cost"
      /\ run.sum \in Nat
    BY DEF SumPrices, SelectorInv, TypeOK, TurnInv, Turn
<1>2. CASE run.next > Len(run.models)
  <2>1. CASE run.sum = 0
    <3>1. Step(Scored([o \in Kept |-> Scale]))
        BY <1>2, <2>1 DEF SumPrices
    <3> QED
        BY <1>1, <3>1, NeutralScores, ScorerReturns
  <2>2. CASE run.sum # 0
    <3>1. PICK r : r = [run EXCEPT !.pc = "cost", !.next = 1]
        OBVIOUS
    <3>2. Step(r)
        BY <1>2, <2>2, <3>1 DEF SumPrices
    <3>3. /\ r \in Turn /\ r.pc = "cost" /\ r.models = run.models /\ r.wanted = run.wanted
          /\ r.group = run.group /\ r.prior = run.prior /\ r.rest = run.rest /\ r.score = run.score
          /\ r.next = 1 /\ r.sum = run.sum
      <4>1. PICK pc, next : pc = "cost" /\ next = 1
          OBVIOUS
      <4>2. pc \in {"cost"} /\ next \in Nat \ {0} /\ r = [run EXCEPT !.pc = pc, !.next = next]
          BY <3>1, <4>1
      <4>3. r \in Turn
          BY <1>1, <4>2 DEF Turn
      <4> QED
          BY <1>1, <3>1, <4>3 DEF Turn
    <3>4. r.sum > 0
        BY <1>1, <2>2, <3>3
    <3> QED
        BY <1>1, <3>2, <3>3, <3>4, ScorerGoesOn
  <2> QED
      BY <2>1, <2>2
<1>3. CASE ~ (run.next > Len(run.models))
  <2>1. PICK price : price = attr[run.models[run.next]].price
      OBVIOUS
  <2>2. price \in Prices \cup {None}
      BY <1>1, <1>3, <2>1, AtCandidate DEF SelectorInv, TypeOK
  <2>3. CASE price = None
    <3>1. Step([run EXCEPT !.pc = "panicked"])
        BY <1>3, <2>1, <2>3 DEF SumPrices
    <3> QED
        BY <1>1, <3>1, Panics
  <2>4. CASE price # None
    <3>1. PICK next, sum : next = run.next + 1 /\ sum = run.sum + price
        OBVIOUS
    <3>2. price \in Nat
        BY <2>2, <2>4, SelectorAssumption
    <3>3. next \in Nat \ {0} /\ sum \in Nat
        BY <1>1, <1>3, <3>1, <3>2, AtCandidate
    <3>4. PICK r : r = [run EXCEPT !.next = next, !.sum = sum]
        OBVIOUS
    <3>5. Step(r)
        BY <1>3, <2>1, <2>4, <3>1, <3>4 DEF SumPrices
    <3>6. /\ r \in Turn /\ r.pc = "sum" /\ r.models = run.models /\ r.wanted = run.wanted
          /\ r.group = run.group /\ r.prior = run.prior /\ r.rest = run.rest /\ r.score = run.score
        BY <1>1, <3>3, <3>4 DEF Turn
    <3> QED
        BY <1>1, <3>5, <3>6, ScorerGoesOn
  <2> QED
      BY <2>3, <2>4
<1> QED
    BY <1>2, <1>3

\* The cost scorer's part of one candidate.
LEMMA PricesOne ==
    ASSUME SelectorInv, run.pc = "cost", ~ (run.next > Len(run.models)), NEW x \in Int,
           Step([run EXCEPT !.next = @ + 1,
                            !.score = Weighted([p \in {run.models[run.next]} |-> x])])
    PROVE  SelectorInv'
<1>0. TypeOK /\ TurnInv /\ AskedInv /\ CacheInv /\ ScoreInv /\ run \in Turn
    BY DEF SelectorInv, TypeOK
<1>1. PICK o, next, raw, score :
         /\ o = run.models[run.next] /\ next = run.next + 1 /\ raw = [p \in {o} |-> x]
         /\ score = Weighted(raw)
    OBVIOUS
<1>2. /\ o \in Models /\ run.next \in DOMAIN run.models /\ run.next \in Nat
      /\ next \in Nat \ {0}
    BY <1>0, <1>1, AtCandidate
<1>3. run.rest # <<>> /\ Head(run.rest).kind = "cost" /\ run.sum > 0 /\ run.models # <<>>
      /\ Injective(run.models)
    BY <1>0 DEF TurnInv, Choosing
<1>4. PICK w : w = Scale * Head(run.rest).weight
    OBVIOUS
<1>5. w \in Nat
    BY <1>0, <1>3, <1>4, HeadType, SelectorAssumption
<1>6. DOMAIN raw = {o} /\ \A p \in DOMAIN raw : raw[p] \in Int
    BY <1>1
<1>7. /\ score \in [Models -> Int]
      /\ \A p \in Models : /\ run.score[p] <= score[p]
                           /\ p = o => score[p] <= run.score[p] + w
                           /\ p # o => score[p] = run.score[p]
    BY <1>0, <1>1, <1>3, <1>4, <1>6, WeightedBounds
<1>8. PICK r : r = [run EXCEPT !.next = next, !.score = score]
    OBVIOUS
<1>9. Step(r) /\ run' = r
    BY <1>1, <1>8 DEF Step
<1>10. /\ r \in Turn /\ r.pc = "cost" /\ r.models = run.models /\ r.wanted = run.wanted
       /\ r.group = run.group /\ r.prior = run.prior /\ r.rest = run.rest /\ r.score = score
       /\ r.next = next /\ r.sum = run.sum
    BY <1>0, <1>2, <1>7, <1>8 DEF Turn
<1>11. TypeOK' /\ CacheInv' /\ UNCHANGED <<pipeline, attr, stable, registered>>
    BY <1>0, <1>9, <1>10, StepTypes
<1>12. AskedInv'
    BY <1>0, <1>9, <1>10, <1>11, AskedStays DEF Choosing
<1>13. TurnInv'
    BY <1>3, <1>9, <1>10 DEF TurnInv, Choosing, Injective
<1>14. ScoreInv'
  <2>1. PICK done \in Seq(Weighting) : ScoresAfter(done)
      BY <1>0 DEF ScoreInv, Choosing
  <2>2. ASSUME NEW p \in Models
        PROVE  /\ SessionPart(done, p)' <= run'.score[p]
               /\ run'.score[p] <= SessionPart(done, p)' + OthersPart(done)' + PricePart(p)'
    <3>1. PICK a, b, s, y, z : /\ a = SessionPart(done, p) /\ b = OthersPart(done)
                               /\ s = run.score[p] /\ y = PricePart(p) /\ z = PricePart(p)'
        OBVIOUS
    <3>2. a <= s /\ s <= a + b + y
        BY <2>1, <3>1 DEF ScoresAfter
    <3>3. SessionPart(done, p)' = a /\ OthersPart(done)' = b
        BY <1>9, <1>10, <3>1 DEF SessionPart, OthersPart, Kept
    <3>4. a \in Nat /\ b \in Nat
      <4>1. TotalWeight(done, {"session"}) \in Nat /\ TotalWeight(done, Scorers \ {"session"}) \in Nat
          BY TotalType
      <4>2. Scale * TotalWeight(done, {"session"}) \in Nat
            /\ Scale * TotalWeight(done, Scorers \ {"session"}) \in Nat
          BY <4>1, SelectorAssumption
      <4> QED
          BY <3>1, <4>2 DEF SessionPart, OthersPart
    <3>5. s \in Int /\ score[p] \in Int /\ run'.score[p] = score[p]
        BY <1>0, <1>7, <1>9, <1>10, <3>1 DEF Turn
    <3>6. y \in {0, w} /\ z \in {0, w}
        BY <1>4, <1>9, <1>10, <3>1 DEF PricePart
    <3>7. CASE p = o
      <4>1. ASSUME NEW i \in DOMAIN run.models, i < run.next, run.models[i] = p
            PROVE  FALSE
        <5>1. i = run.next
            BY <1>1, <1>2, <1>3, <3>7, <4>1 DEF Injective
        <5> QED
            BY <1>2, <4>1, <5>1
      <4>2. y = 0
          BY <3>1, <4>1 DEF PricePart
      <4>3. run.next < next
          BY <1>1, <1>2
      <4>4. z = w
          BY <1>1, <1>2, <1>4, <1>9, <1>10, <3>1, <3>7, <4>3 DEF PricePart
      <4>5. s <= score[p] /\ score[p] <= s + w
          BY <1>7, <3>1, <3>7
      <4>6. a <= score[p] /\ score[p] <= a + b + z
          BY <1>5, <3>2, <3>4, <3>5, <4>2, <4>4, <4>5
      <4> QED
          BY <3>1, <3>3, <3>5, <4>6
    <3>8. CASE p # o
      <4>1. score[p] = s
          BY <1>7, <3>1, <3>8
      <4>2. y = w => z = w
        <5>1. CASE \E i \in DOMAIN run.models : i < run.next /\ run.models[i] = p
          <6>1. PICK i \in DOMAIN run.models : i < run.next /\ run.models[i] = p
              BY <5>1
          <6>2. i \in Nat
            <7>1. run.models \in Seq(Models)
                BY <1>0 DEF Turn
            <7>2. DOMAIN run.models = 1 .. Len(run.models) /\ Len(run.models) \in Nat
                BY <7>1
            <7> QED
                BY <7>2
          <6>3. i < next
              BY <1>1, <1>2, <6>1, <6>2
          <6> QED
              BY <1>4, <1>9, <1>10, <3>1, <6>1, <6>3 DEF PricePart
        <5>2. CASE ~ \E i \in DOMAIN run.models : i < run.next /\ run.models[i] = p
          <6>1. y = 0
              BY <3>1, <5>2 DEF PricePart
          <6> QED
              BY <3>6, <6>1
        <5> QED
            BY <5>1, <5>2
      <4>3. a <= score[p] /\ score[p] <= a + b + z
          BY <1>5, <3>2, <3>4, <3>5, <3>6, <4>1, <4>2
      <4> QED
          BY <3>1, <3>3, <3>5, <4>3
    <3> QED
        BY <3>7, <3>8
  <2>3. ScoresAfter(done)'
      BY <1>9, <1>10, <1>11, <2>1, <2>2 DEF ScoresAfter
  <2> QED
      BY <1>9, <1>10, <2>3 DEF ScoreInv
<1> QED
    BY <1>11, <1>12, <1>13, <1>14 DEF SelectorInv

LEMMA PricesAgainstSum ==
    ASSUME SelectorInv, PriceAgainstSum
    PROVE  SelectorInv'
<1>1. /\ run.pc = "cost" /\ run \in Turn /\ run.rest # <<>> /\ Head(run.rest).kind = "cost"
      /\ run.sum \in Nat /\ run.sum > 0
    BY DEF PriceAgainstSum, SelectorInv, TypeOK, TurnInv, Turn
<1>2. CASE run.next > Len(run.models)
  <2>1. PICK raw : raw = [o \in {} |-> 0]
      OBVIOUS
  <2>2. DOMAIN raw = {} /\ Step(Scored(raw))
      BY <1>2, <2>1 DEF PriceAgainstSum
  <2>3. \A o \in DOMAIN raw : raw[o] \in Int
      BY <2>2
  <2> QED
      BY <1>1, <2>2, <2>3, ScorerReturns
<1>3. CASE ~ (run.next > Len(run.models))
  <2>1. PICK price : price = attr[run.models[run.next]].price
      OBVIOUS
  <2>2. price \in Prices \cup {None}
      BY <1>1, <1>3, <2>1, AtCandidate DEF SelectorInv, TypeOK
  <2>3. CASE price = None
    <3>1. Step([run EXCEPT !.pc = "panicked"])
        BY <1>3, <2>1, <2>3 DEF PriceAgainstSum
    <3> QED
        BY <1>1, <3>1, Panics
  <2>4. CASE price # None
    <3>1. price \in Nat
        BY <2>2, <2>4, SelectorAssumption
    <3>2. PICK x : x = Scale - (price * Scale) \div run.sum
        OBVIOUS
    <3>3. x \in Int
      <4>1. Scale \in Nat /\ price * Scale \in Nat
          BY <3>1, SelectorAssumption
      <4>2. (price * Scale) \div run.sum \in Int
          BY <1>1, <4>1
      <4> QED
          BY <3>2, <4>1, <4>2
    <3>4. Step([run EXCEPT !.next = @ + 1, !.score = Weighted([p \in {run.models[run.next]} |-> x])])
        BY <1>3, <2>1, <2>4, <3>2 DEF PriceAgainstSum
    <3> QED
        BY <1>1, <1>3, <3>3, <3>4, PricesOne
  <2> QED
      BY <2>3, <2>4
<1> QED
    BY <1>2, <1>3

\* The counts read have a most and a least.
LEMMA CountExtremes ==
    ASSUME run \in Turn, run.models # <<>>
    PROVE  LET counts == {run.counts[o] : o \in Kept}
               most == CHOOSE n \in counts : \A k \in counts : k <= n
               least == CHOOSE n \in counts : \A k \in counts : n <= k
           IN  /\ most \in Nat /\ least \in Nat /\ least <= most
               /\ most \in counts /\ \A k \in counts : least <= k /\ k <= most
<1> DEFINE counts == {run.counts[o] : o \in Kept}
           most == CHOOSE n \in counts : \A k \in counts : k <= n
           least == CHOOSE n \in counts : \A k \in counts : n <= k
<1>1. /\ run.models \in Seq(Models) /\ run.counts \in [Models -> Nat]
    BY DEF Turn
<1>2. PICK s : s = [i \in DOMAIN run.models |-> run.counts[run.models[i]]]
    OBVIOUS
<1>3. DOMAIN run.models = 1 .. Len(run.models) /\ Len(run.models) \in Nat
      /\ \A i \in DOMAIN run.models : run.models[i] \in Models
    BY <1>1
<1>4. s \in [1 .. Len(run.models) -> Nat]
    BY <1>1, <1>2, <1>3
<1>5. s \in Seq(Nat) /\ DOMAIN s = DOMAIN run.models
    BY <1>3, <1>4
<1>6. 1 \in DOMAIN s
    BY <1>1, <1>3, <1>5
<1>7. s # <<>>
  <2>1. DOMAIN <<>> = {}
      OBVIOUS
  <2> QED
      BY <1>6, <2>1, Zenon
<1>8. counts = {s[i] : i \in DOMAIN s}
    BY <1>2, <1>5 DEF Kept, ToSet
<1> HIDE DEF counts
<1>9. \A n \in counts : n \in Nat
  <2>1. \A i \in DOMAIN s : s[i] \in Nat
      BY <1>5
  <2> QED
      BY <1>8, <2>1
<1>10. \E n \in counts : \A k \in counts : k <= n
  <2>1. PICK i \in DOMAIN s : \A j \in DOMAIN s : s[j] <= s[i]
      BY <1>5, <1>7, LargestElement
  <2> QED
      BY <1>8, <2>1
<1>11. \E n \in counts : \A k \in counts : n <= k
  <2>1. counts \subseteq Nat /\ counts # {}
      BY <1>6, <1>8, <1>9
  <2> QED
      BY <2>1, LeastNumber
<1>12. most \in counts /\ \A k \in counts : k <= most
    BY <1>10
<1>13. least \in counts /\ \A k \in counts : least <= k
    BY <1>11
<1> QED
    BY <1>9, <1>12, <1>13 DEF counts

LEMMA ReadsCounts ==
    ASSUME SelectorInv, ReadCounts
    PROVE  SelectorInv'
<1>1. /\ run.pc = "count" /\ run \in Turn /\ run.rest # <<>> /\ Head(run.rest).kind = "inflight"
      /\ run.models # <<>> /\ TypeOK
    BY DEF ReadCounts, SelectorInv, TypeOK, TurnInv, Choosing
<1>2. CASE run.next > Len(run.models)
  <2> DEFINE counts == {run.counts[o] : o \in Kept}
             most == CHOOSE n \in counts : \A k \in counts : k <= n
             least == CHOOSE n \in counts : \A k \in counts : n <= k
             raw == [o \in Kept |-> IF most = least THEN Scale
                                    ELSE LeastLoadedFirst(most, least, run.counts[o])]
  <2>1. most \in Nat /\ least \in Nat /\ least <= most
      BY <1>1, CountExtremes
  <2>2. Step(Scored(raw))
      BY <1>2 DEF ReadCounts
  <2> HIDE DEF most, least
  <2>3. ASSUME NEW o \in DOMAIN raw
        PROVE  raw[o] \in Int
    <3>1. o \in Kept /\ raw[o] = IF most = least THEN Scale
                                 ELSE LeastLoadedFirst(most, least, run.counts[o])
        BY <2>3
    <3>2. o \in Models
      <4>1. run.models \in Seq(Models)
          BY <1>1 DEF Turn
      <4>2. \A i \in DOMAIN run.models : run.models[i] \in Models
          BY <4>1
      <4> QED
          BY <3>1, <4>2 DEF Kept, ToSet
    <3>3. PICK c : c = run.counts[o]
        OBVIOUS
    <3>4. c \in Nat /\ Scale \in Nat
        BY <1>1, <3>2, <3>3, SelectorAssumption DEF Turn
    <3>5. CASE most = least
        BY <3>1, <3>4, <3>5
    <3>6. CASE most # least
      <4>1. most - least \in Nat /\ most - least > 0 /\ (most - c) * Scale \in Int
          BY <2>1, <3>4, <3>6
      <4>2. ((most - c) * Scale) \div (most - least) \in Int
          BY <4>1
      <4> QED
          BY <3>1, <3>3, <3>6, <4>2 DEF LeastLoadedFirst
    <3> QED
        BY <3>5, <3>6
  <2> HIDE DEF raw
  <2> QED
      BY <1>1, <2>2, <2>3, ScorerReturns
<1>3. CASE ~ (run.next > Len(run.models))
  <2>1. PICK o, next, n : /\ o = run.models[run.next] /\ next = run.next + 1
                          /\ n = IF attr[o].count = None THEN 0 ELSE attr[o].count
      OBVIOUS
  <2>2. o \in Models /\ next \in Nat \ {0}
      BY <1>1, <1>3, <2>1, AtCandidate
  <2>3. n \in Nat
    <3>1. attr[o].count \in Counts \cup {None}
        BY <1>1, <2>2 DEF TypeOK
    <3> QED
        BY <2>1, <3>1, SelectorAssumption
  <2>4. PICK counts : counts = [run.counts EXCEPT ![o] = n]
      OBVIOUS
  <2>5. counts \in [Models -> Nat]
      BY <1>1, <2>2, <2>3, <2>4 DEF Turn
  <2>6. PICK r : r = [run EXCEPT !.next = next, !.counts = counts]
      OBVIOUS
  <2>7. Step(r)
      BY <1>3, <2>1, <2>4, <2>6 DEF ReadCounts
  <2>8. /\ r \in Turn /\ r.pc = "count" /\ r.models = run.models /\ r.wanted = run.wanted
        /\ r.group = run.group /\ r.prior = run.prior /\ r.rest = run.rest /\ r.score = run.score
      BY <1>1, <2>2, <2>5, <2>6 DEF Turn
  <2> QED
      BY <1>1, <2>7, <2>8, ScorerGoesOn
<1> QED
    BY <1>2, <1>3

\* The model the session scorer finds is the one recorded last.
LEMMA FindsRecorded ==
    ASSUME TypeOK, CacheInv, NEW s \in Sessions \cup {None}
    PROVE  LET known == Cached(s)
               previous == IF known = {} THEN None ELSE cache[CHOOSE i \in known : TRUE].model
           IN  /\ previous \in Names \cup {None}
               /\ previous = IF known = {} THEN None ELSE lastRecorded[s]
<1>1. CASE Cached(s) = {}
    BY <1>1
<1>2. CASE Cached(s) # {}
  <2>1. PICK i : i = CHOOSE k \in Cached(s) : TRUE
      OBVIOUS
  <2>2. i \in DOMAIN cache /\ cache[i].session = s
      BY <1>2, <2>1 DEF Cached
  <2>3. cache[i].model = lastRecorded[s]
      BY <2>2 DEF CacheInv
  <2>4. cache[i] \in Entries
    <3>1. cache \in Seq(Entries)
        BY DEF TypeOK, Entries
    <3> QED
        BY <2>2, <3>1
  <2>5. cache[i].model \in Names
      BY <2>4 DEF Entries
  <2> QED
      BY <1>2, <2>1, <2>3, <2>5
<1> QED
    BY <1>1, <1>2

\* No session scorer comes after the session scorer.
LEMMA OneSessionScorer ==
    ASSUME TypeOK, NEW done \in Seq(Weighting), NEW rest \in Seq(Weighting), rest # <<>>,
           pipeline.scorers = done \o rest, Head(rest).kind = "session"
    PROVE  ~ \E i \in DOMAIN Tail(rest) : Tail(rest)[i].kind = "session"
<1> SUFFICES ASSUME NEW i \in DOMAIN Tail(rest), Tail(rest)[i].kind = "session"
             PROVE  FALSE
    OBVIOUS
<1>1. PICK all, t : all = done \o rest /\ t = Tail(rest)
    OBVIOUS
<1>2. /\ Len(rest) \in Nat /\ Len(rest) # 0 /\ Len(done) \in Nat /\ rest[1] = Head(rest)
      /\ DOMAIN t = 1 .. Len(rest) - 1 /\ \A k \in 1 .. Len(rest) - 1 : t[k] = rest[k + 1]
    BY <1>1
<1>3. /\ DOMAIN all = 1 .. Len(done) + Len(rest)
      /\ \A k \in 1 .. Len(rest) : all[Len(done) + k] = rest[k]
    BY <1>1
<1>4. i \in Nat /\ i + 1 \in 1 .. Len(rest) /\ rest[i + 1] = t[i] /\ 1 \in 1 .. Len(rest) /\ i # 0
    BY <1>1, <1>2
<1>5. /\ Len(done) + 1 \in DOMAIN all /\ Len(done) + (i + 1) \in DOMAIN all
      /\ all[Len(done) + 1] = rest[1] /\ all[Len(done) + (i + 1)] = rest[i + 1]
    BY <1>2, <1>3, <1>4
<1>6. \A j, k \in DOMAIN all : all[j].kind = "session" /\ all[k].kind = "session" => j = k
    BY <1>1, SelectorAssumption DEF TypeOK
<1>7. Len(done) + 1 = Len(done) + (i + 1)
    BY <1>1, <1>2, <1>4, <1>5, <1>6
<1> QED
    BY <1>2, <1>4, <1>7

LEMMA SessionScores ==
    ASSUME SelectorInv, SessionScore
    PROVE  SelectorInv'
<1>0. TypeOK /\ TurnInv /\ AskedInv /\ CacheInv /\ ScoreInv /\ run \in Turn
    BY DEF SelectorInv, TypeOK
<1>1. run.pc = "score" /\ run.rest # <<>> /\ Head(run.rest).kind = "session"
    BY DEF SessionScore, Scorer
<1>2. run.session \in Sessions \cup {None}
    BY <1>0 DEF Turn
<1>3. PICK previous : previous = IF Cached(run.session) = {} THEN None
                                 ELSE cache[CHOOSE i \in Cached(run.session) : TRUE].model
    OBVIOUS
<1>4. /\ previous \in Names \cup {None}
      /\ previous = IF Cached(run.session) = {} THEN None ELSE lastRecorded[run.session]
    BY <1>0, <1>2, <1>3, FindsRecorded
<1>5. PICK raw : raw = [o \in Kept |-> IF NameOf[o] = previous THEN Scale ELSE 0]
    OBVIOUS
<1>6. /\ run' = [Scored(raw) EXCEPT !.prior = previous] /\ cache' = CacheGet(run.session)
      /\ UNCHANGED <<registered, created, attr, pipeline, changes, lastRecorded, turns, stable>>
    BY <1>3, <1>4, <1>5 DEF SessionScore, selectorUnchanged, storeVars
<1>7. DOMAIN raw = Kept /\ Scale \in Nat /\ \A o \in DOMAIN raw : raw[o] \in Int
    BY <1>5, SelectorAssumption
<1>8. PICK sc : sc = Scored(raw)
    OBVIOUS
<1>9. /\ sc \in Turn /\ sc.pc = "score" /\ sc.models = run.models /\ sc.wanted = run.wanted
      /\ sc.group = run.group /\ sc.rest = Tail(run.rest) /\ sc.score = Weighted(raw)
    BY <1>0, <1>1, <1>7, <1>8, ScoredFields
<1>10. /\ run' \in Turn /\ run'.pc = "score" /\ run'.models = run.models
       /\ run'.wanted = run.wanted /\ run'.group = run.group /\ run'.rest = Tail(run.rest)
       /\ run'.score = Weighted(raw) /\ run'.prior = previous
    BY <1>4, <1>6, <1>8, <1>9 DEF Turn
<1>11. CacheInv' /\ cache' \in Seq(Entries) /\ Len(cache') <= CacheSize
  <2>1. cache \in Seq(Entries) /\ Len(cache) <= CacheSize
      BY <1>0 DEF TypeOK, Entries
  <2>2. /\ CacheGet(run.session) \in Seq(Entries) /\ Len(CacheGet(run.session)) <= CacheSize
        /\ Agrees(CacheGet(run.session), lastRecorded)
      BY <1>0, <1>2, <2>1, GetGood
  <2> QED
      BY <1>6, <2>2 DEF CacheInv, Agrees
<1>12. TypeOK'
    BY <1>0, <1>6, <1>10, <1>11 DEF TypeOK, Entries
<1>13. AskedInv'
    BY <1>0, <1>1, <1>6, <1>10, AskedStays DEF Choosing
<1>14. TurnInv'
    BY <1>0, <1>1, <1>10 DEF TurnInv, Choosing, Injective
<1>15. ScoreInv'
  <2>1. PICK done \in Seq(Weighting) : ScoresAfter(done)
      BY <1>0, <1>1 DEF ScoreInv, Choosing
  <2>2. PICK h, w, new : h = Head(run.rest) /\ w = Scale * Head(run.rest).weight /\ new = Append(done, h)
      OBVIOUS
  <2>3. /\ h \in Weighting /\ h.weight \in Nat /\ h.kind = "session" /\ new \in Seq(Weighting)
        /\ w \in Nat /\ run.rest \in Seq(Weighting)
      BY <1>0, <1>1, <2>2, HeadType, SelectorAssumption
  <2>4. run.prior = None /\ TotalWeight(done, {"session"}) = 0
    <3>1. 1 \in DOMAIN run.rest /\ run.rest[1] = Head(run.rest)
        BY <1>1, <2>3
    <3>2. \E i \in DOMAIN run.rest : run.rest[i].kind = "session"
        BY <1>1, <3>1
    <3> QED
        BY <2>1, <3>2 DEF ScoresAfter
  <2>5. /\ Scale * TotalWeight(new, {"session"}) = w
        /\ TotalWeight(new, Scorers \ {"session"}) = TotalWeight(done, Scorers \ {"session"})
        /\ TotalWeight(done, Scorers \ {"session"}) \in Nat
    <3>1. Part(h, {"session"}) = h.weight /\ Part(h, Scorers \ {"session"}) = 0
        BY <2>3 DEF Part
    <3>2. TotalWeight(done, Scorers \ {"session"}) \in Nat
        BY TotalType
    <3>3. /\ TotalWeight(new, {"session"}) = 0 + h.weight
          /\ TotalWeight(new, Scorers \ {"session"}) = TotalWeight(done, Scorers \ {"session"}) + 0
        BY <2>2, <2>3, <2>4, <3>1, TotalAppend
    <3> QED
        BY <2>2, <2>3, <3>2, <3>3
  <2>6. pipeline.scorers = done \o run.rest
      BY <2>1 DEF ScoresAfter
  <2>7. pipeline'.scorers = new \o run'.rest
    <3>1. done \o run.rest = Append(done, Head(run.rest)) \o Tail(run.rest)
        BY <1>1, <2>3, OneMoreDone
    <3> QED
        BY <1>6, <1>10, <2>2, <2>6, <3>1
  <2>8. ~ \E i \in DOMAIN run'.rest : run'.rest[i].kind = "session"
      BY <1>0, <1>1, <1>10, <2>3, <2>6, OneSessionScorer
  <2>9. ASSUME NEW o \in Models
        PROVE  /\ SessionPart(new, o)' <= run'.score[o]
               /\ run'.score[o] <= SessionPart(new, o)' + OthersPart(new)' + PricePart(o)'
    <3>1. PICK q, s, x : q = OthersPart(done) /\ s = run.score[o] /\ x = Weighted(raw)[o]
        OBVIOUS
    <3>2. SessionPart(done, o) = 0 /\ PricePart(o) = 0 /\ PricePart(o)' = 0
        BY <1>1, <1>10, <2>4 DEF SessionPart, PricePart
    <3>3. s \in Int /\ q \in Nat
        BY <1>0, <1>7, <2>5, <3>1 DEF Turn, OthersPart
    <3>4. 0 <= s /\ s <= q
      <4>1. 0 <= s /\ s <= 0 + q + 0
          BY <2>1, <3>1, <3>2 DEF ScoresAfter
      <4> QED
          BY <3>3, <4>1
    <3>5. OthersPart(new)' = q
        BY <2>5, <3>1 DEF OthersPart
    <3>6. NameOf[o] # None
        BY SelectorAssumption
    <3>7. CASE o \in Kept /\ NameOf[o] = previous
      <4>1. raw[o] = Scale /\ enforceScoreRange(Scale) = Scale
          BY <1>5, <1>7, <3>7 DEF enforceScoreRange
      <4>2. x = s + Scale * h.weight
          BY <1>7, <2>2, <3>1, <3>7, <4>1 DEF Weighted
      <4>3. SessionPart(new, o)' = w
          BY <1>10, <2>5, <3>6, <3>7 DEF SessionPart, Kept
      <4>4. x = s + w
          BY <2>2, <4>2
      <4>5. w <= x /\ x <= w + q + 0
          BY <2>3, <3>3, <3>4, <4>4
      <4> QED
          BY <1>10, <3>1, <3>2, <3>5, <4>3, <4>5
    <3>8. CASE ~ (o \in Kept /\ NameOf[o] = previous)
      <4>1. x = s
        <5>1. CASE o \notin Kept
            BY <1>7, <3>1, <3>3, <5>1 DEF Weighted
        <5>2. CASE o \in Kept
          <6>1. raw[o] = 0 /\ enforceScoreRange(0) = 0
              BY <1>5, <1>7, <3>8, <5>2 DEF enforceScoreRange
          <6>2. x = s + 0 * h.weight
              BY <1>7, <2>2, <3>1, <5>2, <6>1 DEF Weighted
          <6> QED
              BY <2>3, <3>3, <6>2
        <5> QED
            BY <5>1, <5>2
      <4>2. SessionPart(new, o)' = 0
          BY <1>10, <3>8 DEF SessionPart, Kept
      <4>3. 0 <= x /\ x <= 0 + q + 0
          BY <3>3, <3>4, <4>1
      <4> QED
          BY <1>10, <3>1, <3>2, <3>5, <4>2, <4>3
    <3> QED
        BY <3>7, <3>8
  <2>10. ScoresAfter(new)'
      BY <2>7, <2>8, <2>9 DEF ScoresAfter
  <2> QED
      BY <1>10, <2>3, <2>10 DEF ScoreInv
<1> QED
    BY <1>11, <1>12, <1>13, <1>14, <1>15 DEF SelectorInv

-----------------------------------------------------------------------------
(***************************************************************************)
(* The picker.                                                             *)
(***************************************************************************)
LEMMA Picks ==
    ASSUME SelectorInv, NEW o \in Models, Pick(o)
    PROVE  SelectorInv'
<1>0. TypeOK /\ TurnInv /\ AskedInv /\ CacheInv /\ ScoreInv /\ run \in Turn
    BY DEF SelectorInv, TypeOK
<1>1. /\ run.pc = "score" /\ run.rest = <<>> /\ Step([run EXCEPT !.pc = "forwarded", !.picked = o])
    BY DEF Pick
<1>2. o \in Kept /\ (pipeline.picker = "max-score" => o \in Best)
  <2>1. pipeline.picker \in Pickers
      BY <1>0, SelectorAssumption DEF TypeOK, Pipeline
  <2>2. Best \subseteq Kept /\ Positive \subseteq Kept
      BY DEF Best, Positive
  <2> QED
      BY <2>1, <2>2 DEF Pick, Pickers
<1>3. PICK r : r = [run EXCEPT !.pc = "forwarded", !.picked = o]
    OBVIOUS
<1>4. /\ r \in Turn /\ r.pc = "forwarded" /\ r.models = run.models /\ r.wanted = run.wanted
      /\ r.group = run.group /\ r.prior = run.prior /\ r.rest = run.rest /\ r.score = run.score
      /\ r.picked = o
    BY <1>0, <1>3 DEF Turn
<1>5. run' = r /\ TypeOK' /\ CacheInv' /\ UNCHANGED <<pipeline, attr, stable, registered>>
    BY <1>0, <1>1, <1>3, <1>4, StepTypes DEF Step
<1>6. AskedInv'
    BY <1>0, <1>1, <1>4, <1>5, AskedStays DEF Choosing
<1>7. Kept' = Kept /\ Best' = Best
    BY <1>4, <1>5 DEF Kept, Best
<1>8. TurnInv'
    BY <1>0, <1>1, <1>2, <1>4, <1>5, <1>7 DEF TurnInv, Choosing, Injective
<1>9. ScoreInv'
  <2>1. PICK done \in Seq(Weighting) : ScoresAfter(done)
      BY <1>0, <1>1 DEF ScoreInv, Choosing
  <2>2. ASSUME NEW p \in Models
        PROVE  PricePart(p) = 0 /\ PricePart(p)' = 0 /\ SessionPart(done, p)' = SessionPart(done, p)
      BY <1>1, <1>4, <1>5, <1>7 DEF PricePart, SessionPart
  <2>3. OthersPart(done)' = OthersPart(done)
      BY DEF OthersPart
  <2>4. ScoresAfter(done)'
      BY <1>4, <1>5, <2>1, <2>2, <2>3 DEF ScoresAfter
  <2> QED
      BY <1>2, <1>4, <1>5, <1>7, <2>4 DEF ScoreInv
<1> QED
    BY <1>5, <1>6, <1>8, <1>9 DEF SelectorInv

-----------------------------------------------------------------------------
(***************************************************************************)
(* The theorems.                                                           *)
(***************************************************************************)
LEMMA SelectorInit == Init => SelectorInv
<1> SUFFICES ASSUME Init
             PROVE  SelectorInv
    OBVIOUS
<1>1. run = NoTurn /\ cache = <<>>
    BY DEF Init
<1>2. CacheInv
    BY <1>1 DEF CacheInv
<1>3. TurnInv
    BY <1>1 DEF TurnInv, Choosing, Injective, NoTurn
<1>4. AskedInv
    BY <1>1 DEF AskedInv, Choosing, NoTurn
<1>5. ScoreInv
    BY <1>1 DEF ScoreInv, Choosing, NoTurn
<1>6. attr \in [Models -> [price : Prices \cup {None}, count : Counts \cup {None},
                           groups : SUBSET Groups]]
    BY DEF Init, NoAttributes
<1>7. /\ turns \in 0 .. MaxTurns /\ changes \in 0 .. MaxChanges /\ Len(cache) <= CacheSize
      /\ cache \in Seq([session : Sessions, model : Names])
  <2>1. Len(cache) = 0 /\ turns = 0 /\ changes = 0
      BY <1>1 DEF Init
  <2> QED
      BY <1>1, <2>1, SelectorAssumption
<1>8. lastRecorded \in [Sessions -> Names \cup {None}]
    BY DEF Init
<1>9. TypeOK
    BY <1>1, <1>6, <1>7, <1>8, NoTurnType DEF Init, TypeOK
<1> QED
    BY <1>2, <1>3, <1>4, <1>5, <1>9 DEF SelectorInv

LEMMA SelectorStep ==
    ASSUME SelectorInv, [Next]_vars
    PROVE  SelectorInv'
<1>1. CASE UNCHANGED vars
  <2>1. /\ UNCHANGED <<run, pipeline, stable, attr, cache, lastRecorded>>
        /\ UNCHANGED <<registered, created, turns, changes>>
      BY <1>1 DEF vars, storeVars
  <2>2. TypeOK /\ TurnInv /\ AskedInv /\ CacheInv /\ ScoreInv
      BY DEF SelectorInv
  <2>3. TurnInv' /\ ScoreInv' /\ AskedInv'
      BY <2>1, <2>2, TurnKept, AskedKept
  <2>4. TypeOK' /\ CacheInv'
      BY <2>1, <2>2 DEF TypeOK, CacheInv
  <2> QED
      BY <2>3, <2>4 DEF SelectorInv
<1>2. CASE \E o \in Models : CreateModel(o) \/ DeleteModel(o) \/ PutAttribute(o)
    BY <1>2, StoreChanges
<1>3. CASE \E s \in Sessions, m \in Names : OtherResponse(s, m)
    BY <1>3, OtherResponses
<1>4. CASE Expire
    BY <1>4, Expires
<1>5. CASE ProcessRequest
    BY <1>5, ProcessRequests
<1>6. CASE Filter
    BY <1>6, Filters
<1>7. CASE FilterGroup
    BY <1>7, FilterGroups
<1>8. CASE CostGuardScore
    BY <1>8, CostGuardScores
<1>9. CASE CostScore
    BY <1>9, CostScores
<1>10. CASE SumPrices
    BY <1>10, SumsPrices
<1>11. CASE PriceAgainstSum
    BY <1>11, PricesAgainstSum
<1>12. CASE InflightScore
    BY <1>12, InflightScores
<1>13. CASE ReadCounts
    BY <1>13, ReadsCounts
<1>14. CASE SessionScore
    BY <1>14, SessionScores
<1>15. CASE \E o \in Models : Pick(o)
    BY <1>15, Picks
<1>16. CASE ProcessResponse \/ EndTurn
    BY <1>16, Ends
<1> QED
    BY <1>1, <1>2, <1>3, <1>4, <1>5, <1>6, <1>7, <1>8, <1>9, <1>10, <1>11, <1>12, <1>13, <1>14,
       <1>15, <1>16 DEF Next

\* Every reachable state of a selection has its type; in particular no scorer
\* divides by zero and the session cache stays within its capacity.
THEOREM SelectorTypeCorrect == Spec => []TypeOK
<1>1. SelectorInv => TypeOK
    BY DEF SelectorInv
<1> QED
    BY <1>1, SelectorInit, SelectorStep, PTL DEF Spec

\* A request is forwarded only to a model it asked for, whatever models, groups
\* and attributes the data layer changes during the selection (Filter).
THEOREM SelectorForwardsWhatWasAsked == Spec => []ForwardsWhatWasAsked
<1>1. ASSUME SelectorInv
      PROVE  ForwardsWhatWasAsked
  <2> SUFFICES ASSUME run.pc = "forwarded", pipeline.filter
               PROVE  CASE run.wanted.kind = "malformed" -> FALSE
                        [] run.wanted.kind = "name" -> NameOf[run.picked] = run.wanted.name
                        [] run.wanted.kind = "group" ->
                              stable => run.wanted.group \in attr[run.picked].groups
                        [] OTHER -> TRUE
      BY DEF ForwardsWhatWasAsked
  <2>1. run.picked \in Kept
      BY <1>1 DEF SelectorInv, TurnInv
  <2>2. /\ run.wanted.kind # "malformed"
        /\ run.wanted.kind = "name" => NameOf[run.picked] = run.wanted.name
        /\ run.wanted.kind = "group" /\ stable => run.wanted.group \in attr[run.picked].groups
      BY <1>1, <2>1 DEF SelectorInv, AskedInv, Choosing
  <2> QED
      BY <2>2
<1> QED
    BY <1>1, SelectorInit, SelectorStep, PTL DEF Spec

\* A session sticks to the model recorded last for it when its scorer outweighs the
\* others together, for any number of scorers, prices and counts that change meanwhile
\* (SessionAffinityScorer.Score, enforceScoreRange).
THEOREM SelectorSessionSticks == Spec => []SessionSticks
<1>1. ASSUME SelectorInv
      PROVE  SessionSticks
  <2> SUFFICES ASSUME run.pc = "forwarded", pipeline.picker = "max-score",
                      WeightOf("session") > OtherWeights, run.prior # None,
                      NEW o \in Kept, NameOf[o] = run.prior, NameOf[run.picked] # run.prior
               PROVE  FALSE
      BY DEF SessionSticks
  <2>1. run \in Turn /\ run.picked \in Kept /\ run.rest = <<>> /\ run.picked \in Best
      BY <1>1 DEF SelectorInv, TypeOK, TurnInv, ScoreInv
  <2>2. PICK done \in Seq(Weighting) : ScoresAfter(done)
      BY <1>1 DEF SelectorInv, ScoreInv, Choosing
  <2>3. pipeline.scorers = done
    <3>1. done \o <<>> = done
        BY ConcatEmptySeq
    <3> QED
        BY <2>1, <2>2, <3>1 DEF ScoresAfter
  <2>4. PICK a, b : a = TotalWeight(done, {"session"}) /\ b = TotalWeight(done, Scorers \ {"session"})
      OBVIOUS
  <2>5. a \in Nat /\ b \in Nat /\ a > b /\ Scale \in Nat /\ Scale > 0
      BY <2>3, <2>4, TotalType, SelectorAssumption DEF WeightOf, OtherWeights
  <2>6. Kept \subseteq Models
    <3>1. run.models \in Seq(Models)
        BY <2>1 DEF Turn
    <3>2. \A i \in DOMAIN run.models : run.models[i] \in Models
        BY <3>1
    <3> QED
        BY <3>2 DEF Kept, ToSet
  <2>7. PICK p, s, t : p = run.picked /\ s = run.score[o] /\ t = run.score[p]
      OBVIOUS
  <2>8. p \in Models /\ o \in Models /\ s \in Int /\ t \in Int /\ s <= t
      BY <2>1, <2>6, <2>7 DEF Turn, Best
  <2>9. SessionPart(done, o) = Scale * a /\ SessionPart(done, p) = 0
      BY <2>4, <2>7 DEF SessionPart
  <2>10. OthersPart(done) = Scale * b /\ PricePart(p) = 0
      BY <2>4 DEF OthersPart, PricePart
  <2>11. Scale * a <= s /\ t <= 0 + Scale * b + 0
      BY <2>2, <2>7, <2>8, <2>9, <2>10 DEF ScoresAfter
  <2>12. Scale * a \in Nat /\ Scale * b \in Nat /\ Scale * b < Scale * a
      BY <2>5
  <2> QED
      BY <2>8, <2>11, <2>12
<1> QED
    BY <1>1, SelectorInit, SelectorStep, PTL DEF Spec

-----------------------------------------------------------------------------
(***************************************************************************)
(* The order of the scores.  While nothing changes, the scores after some  *)
(* scorers put the candidates in an order that agrees with each of them    *)
(* that has a weight.                                                      *)
(***************************************************************************)
\* The kinds of scorers by which p is at least as good as o.
AsGoodBy(p, o) ==
    {k \in Scorers : /\ k = "cost" => attr[p].price <= attr[o].price
                     /\ k = "inflight" => Load(p) <= Load(o)
                     /\ k = "session" => (Affine(o) => Affine(p))}
Good == [p \in Models |-> [o \in Models |-> AsGoodBy(p, o)]]

\* The kinds with a weight among some scorers.
Weighing(done) == {k \in Scorers : TotalWeight(done, {k}) > 0}

\* The candidates that some other, as good by these kinds, does not follow in the
\* scores: one with a smaller score, or with an equal one although it is better.
OutOfOrder(kinds, score, kept, good) ==
    {o \in kept : \E p \in kept :
        /\ kinds \subseteq good[p][o]
        /\ ~ (score[o] <= score[p] /\ (score[o] = score[p] => kinds \subseteq good[o][p]))}

\* What the cost scorer under way has added to a score.
PriceScore(o) == enforceScoreRange(Scale - (attr[o].price * Scale) \div run.sum)
Past(o) == {i \in DOMAIN run.models : i < run.next /\ run.models[i] = o}
PriceAdded(o) ==
    IF run.pc = "cost" /\ Past(o) # {} THEN PriceScore(o) * Head(run.rest).weight ELSE 0

RankedAfter(done, base) ==
    /\ pipeline.scorers = done \o run.rest
    /\ (\E i \in DOMAIN run.rest : run.rest[i].kind = "session") =>
          TotalWeight(done, {"session"}) = 0
    /\ OutOfOrder(Weighing(done), base, Kept, Good) = {}
    /\ \A o \in Kept : run.score[o] = base[o] + PriceAdded(o)
RankInv ==
    stable /\ run.pc \in Choosing =>
        \E done \in Seq(Weighting), base \in [Models -> Int] : RankedAfter(done, base)

\* What the scorers' loops have read is what is there.
ReadInv ==
    /\ run.pc = "filter" => run.score = [o \in Models |-> 0] /\ run.rest = pipeline.scorers
    /\ run.pc \in {"filter", "score"} => run.sum = 0
    /\ run.pc = "score" => run.next = 1
    /\ stable /\ run.pc = "sum" =>
          /\ run.next <= Len(run.models) + 1
          /\ \E p \in Prices \cup {0} : run.sum <= p * (run.next - 1)
          /\ \A i \in DOMAIN run.models : i < run.next =>
                attr[run.models[i]].price \in Nat /\ attr[run.models[i]].price <= run.sum
    /\ stable /\ run.pc = "cost" =>
          /\ run.sum <= Scale
          /\ \A o \in Kept : attr[o].price \in Nat /\ attr[o].price <= run.sum
    /\ stable /\ run.pc = "count" =>
          \A i \in DOMAIN run.models : i < run.next => run.counts[run.models[i]] = Load(run.models[i])

\* Fractions of a divisor, in Scale-ths, are in the order of their numerators.
LEMMA Quotients ==
    ASSUME NEW d \in Nat \ {0}, d <= Scale, NEW p \in 0 .. d, NEW q \in 0 .. d
    PROVE  /\ (p * Scale) \div d \in 0 .. Scale /\ (q * Scale) \div d \in 0 .. Scale
           /\ (p * Scale) \div d <= (q * Scale) \div d <=> p <= q
<1>1. Scale \in Nat \ {0}
    BY SelectorAssumption
<1>2. PICK a, b, x, y : a = p * Scale /\ b = q * Scale /\ x = a \div d /\ y = b \div d
    OBVIOUS
<1>3. ASSUME NEW n \in 0 .. d, NEW c, c = n * Scale, NEW z, z = c \div d
      PROVE  c \in Nat /\ z \in Int /\ d * z <= c /\ c < d * z + d /\ z \in 0 .. Scale
  <2>1. c \in Nat
      BY <1>1, <1>3
  <2>2. z \in Int /\ d * z <= c /\ c < d * z + d
      BY <1>3, <2>1
  <2>3. c <= d * Scale
    <3>1. d - n \in Nat /\ d * Scale = n * Scale + (d - n) * Scale /\ (d - n) * Scale >= 0
        BY <1>1
    <3> QED
        BY <1>1, <1>3, <2>1, <3>1
  <2>4. z >= 0
    <3>1. ASSUME z < 0
          PROVE  d * z + d <= 0
      <4>1. 0 - (z + 1) \in Nat /\ d * z + d = 0 - d * (0 - (z + 1))
          BY <2>2, <3>1
      <4> QED
          BY <4>1
    <3> QED
        BY <2>1, <2>2, <3>1
  <2>5. z <= Scale
    <3>1. ASSUME z > Scale
          PROVE  d * z >= d * Scale + d
      <4>1. z - (Scale + 1) \in Nat /\ d * z = d * Scale + d + d * (z - (Scale + 1))
          BY <1>1, <2>2, <3>1
      <4>2. d * (z - (Scale + 1)) >= 0 /\ d * Scale \in Int
          BY <1>1, <4>1
      <4> QED
          BY <4>1, <4>2
    <3>2. d * Scale \in Int /\ d * z \in Int
        BY <1>1, <2>2
    <3> QED
        BY <1>1, <2>1, <2>2, <2>3, <3>1, <3>2
  <2> QED
      BY <1>1, <2>1, <2>2, <2>4, <2>5
<1>4. /\ a \in Nat /\ x \in Int /\ d * x <= a /\ a < d * x + d /\ x \in 0 .. Scale
      /\ b \in Nat /\ y \in Int /\ d * y <= b /\ b < d * y + d /\ y \in 0 .. Scale
    BY <1>2, <1>3
<1>5. ASSUME NEW m \in 0 .. d, NEW n \in 0 .. d, m < n
      PROVE  n * Scale >= m * Scale + d
  <2>1. n - m - 1 \in Nat /\ n * Scale = m * Scale + Scale + (n - m - 1) * Scale
      BY <1>1, <1>5
  <2>2. (n - m - 1) * Scale >= 0 /\ m * Scale \in Int /\ n * Scale \in Int
      BY <1>1, <2>1
  <2> QED
      BY <1>1, <2>1, <2>2
<1>6. ASSUME NEW v \in Int, NEW z \in Int, v <= z
      PROVE  d * v <= d * z
  <2>1. z - v \in Nat /\ d * z = d * v + d * (z - v) /\ d * (z - v) >= 0
      BY <1>6
  <2> QED
      BY <2>1
<1>7. ASSUME p <= q
      PROVE  x <= y
  <2>1. a <= b
    <3>1. q - p \in Nat /\ q * Scale = p * Scale + (q - p) * Scale
        BY <1>1, <1>7
    <3>2. PICK e \in Nat : e = (q - p) * Scale
        BY <1>1, <3>1
    <3>3. b = a + e
        BY <1>2, <3>1, <3>2
    <3> QED
        BY <1>4, <3>3
  <2>2. ASSUME y + 1 <= x
        PROVE  FALSE
    <3>1. d * (y + 1) <= d * x /\ d * (y + 1) = d * y + d
        BY <1>4, <1>6, <2>2
    <3>2. d * x \in Int /\ d * y \in Int
        BY <1>4
    <3> QED
        BY <1>4, <2>1, <3>1, <3>2
  <2> QED
      BY <1>4, <2>2
<1>8. ASSUME q < p
      PROVE  ~ (x <= y)
  <2>1. a >= b + d
      BY <1>2, <1>5, <1>8
  <2>2. ASSUME x <= y
        PROVE  FALSE
    <3>1. d * x <= d * y
        BY <1>4, <1>6, <2>2
    <3>2. d * x \in Int /\ d * y \in Int
        BY <1>4
    <3> QED
        BY <1>4, <2>1, <3>1, <3>2
  <2> QED
      BY <2>2
<1>9. x <= y <=> p <= q
    BY <1>7, <1>8
<1> QED
    BY <1>2, <1>4, <1>9

\* The candidates that a scorer's own scores do not put where it has them, and those
\* to whose score it did not add its weighted score.
Misplaced(k, c, kept, good) ==
    {o \in kept : c[o] \notin Int \/ \E p \in kept : o # p /\ ~ (k \in good[p][o] <=> c[o] <= c[p])}
NotAdded(base, c, w, kept, new) == {o \in kept : new[o] # base[o] + c[o] * w}

\* The kinds with a weight, after one more scorer.
LEMMA WeighingAppend ==
    ASSUME NEW done \in Seq(Weighting), NEW h \in Weighting
    PROVE  /\ Weighing(done) \in SUBSET Scorers
           /\ h.weight = 0 => Weighing(Append(done, h)) = Weighing(done)
           /\ h.weight # 0 => Weighing(Append(done, h)) = Weighing(done) \cup {h.kind}
<1>1. h.weight \in Nat /\ h.kind \in Scorers
    BY DEF Weighting
<1>2. ASSUME NEW k \in Scorers
      PROVE  k \in Weighing(Append(done, h)) <=> k \in Weighing(done) \/ (k = h.kind /\ h.weight # 0)
  <2>1. PICK a, b : a = TotalWeight(done, {k}) /\ b = TotalWeight(Append(done, h), {k})
      OBVIOUS
  <2>2. a \in Nat /\ b = a + Part(h, {k})
      BY <2>1, TotalType, TotalAppend
  <2>3. Part(h, {k}) = IF h.kind = k THEN h.weight ELSE 0
      BY DEF Part
  <2>4. b > 0 <=> a > 0 \/ (k = h.kind /\ h.weight # 0)
      BY <1>1, <2>2, <2>3
  <2> QED
      BY <2>1, <2>4 DEF Weighing
<1>3. Weighing(done) \subseteq Scorers /\ Weighing(Append(done, h)) \subseteq Scorers
    BY DEF Weighing
<1> QED
    BY <1>1, <1>2, <1>3

\* One more scorer keeps the order of those done, if its scores have its own.
LEMMA RankStep ==
    ASSUME NEW done \in Seq(Weighting), NEW h \in Weighting, NEW base \in [Models -> Int],
           NEW S \in SUBSET Models, NEW G, NEW c, NEW new \in [Models -> Int],
           OutOfOrder(Weighing(done), base, S, G) = {}, Misplaced(h.kind, c, S, G) = {},
           NotAdded(base, c, h.weight, S, new) = {}
    PROVE  OutOfOrder(Weighing(Append(done, h)), new, S, G) = {}
<1>1. PICK K, k, w, more : K = Weighing(done) /\ k = h.kind /\ w = h.weight /\ more = Weighing(Append(done, h))
    OBVIOUS
<1>2. w \in Nat /\ (w = 0 => more = K) /\ (w # 0 => more = K \cup {k})
    BY <1>1, WeighingAppend DEF Weighting
<1> SUFFICES ASSUME NEW o \in S, NEW p \in S, more \subseteq G[p][o]
             PROVE  new[o] <= new[p] /\ (new[o] = new[p] => more \subseteq G[o][p])
    BY <1>1 DEF OutOfOrder
<1>3. PICK x, y, a, b : x = base[o] /\ y = base[p] /\ a = c[o] /\ b = c[p]
    OBVIOUS
<1>4. /\ a \in Int /\ b \in Int /\ new[o] = x + a * w /\ new[p] = y + b * w
      /\ o # p => (k \in G[p][o] <=> a <= b) /\ (k \in G[o][p] <=> b <= a)
    BY <1>1, <1>3 DEF Misplaced, NotAdded
<1>5. x \in Int /\ y \in Int
    BY <1>3
<1>6. K \subseteq more
    BY <1>2
<1>7. x <= y /\ (x = y => K \subseteq G[o][p])
    BY <1>1, <1>3, <1>6 DEF OutOfOrder
<1>8. CASE w = 0
  <2>1. new[o] = x /\ new[p] = y /\ more = K
      BY <1>2, <1>4, <1>5, <1>8
  <2> QED
      BY <1>7, <2>1
<1>9. CASE o = p
    BY <1>4, <1>5, <1>9
<1>10. CASE w # 0 /\ o # p
  <2>1. k \in G[p][o] /\ more = K \cup {k}
      BY <1>2, <1>10
  <2>2. a <= b /\ (k \in G[o][p] <=> b <= a)
      BY <1>4, <1>10, <2>1
  <2>3. PICK d \in Nat : b = a + d
    <3>1. b - a \in Nat /\ b = a + (b - a)
        BY <1>4, <2>2
    <3> QED
        BY <3>1, Zenon
  <2>4. b * w = a * w + d * w
      BY <1>2, <1>4, <2>3
  <2>5. PICK m \in Int, n \in Nat : m = a * w /\ n = d * w
      BY <1>2, <1>4
  <2>6. d > 0 => n > 0
      BY <1>2, <1>10, <2>5
  <2>7. new[o] = x + m /\ new[p] = y + (m + n)
      BY <1>4, <2>4, <2>5
  <2>8. new[o] <= new[p] /\ (new[o] = new[p] => x = y /\ n = 0)
      BY <1>5, <1>7, <2>7
  <2>9. n = 0 => b <= a
      BY <1>4, <2>3, <2>6
  <2> QED
      BY <1>7, <2>1, <2>2, <2>8, <2>9
<1> QED
    BY <1>8, <1>9, <1>10

LEMMA GoodSame ==
    ASSUME UNCHANGED attr, run'.prior = run.prior
    PROVE  Good' = Good
BY DEF Good, AsGoodBy, Load, Affine

\* The order and what was read stay while the turn and the attributes do, and nothing
\* is claimed of them once something changed.
LEMMA RankKept ==
    ASSUME RankInv, ReadInv, UNCHANGED <<run, pipeline>>, ~stable' \/ UNCHANGED <<stable, attr>>
    PROVE  RankInv' /\ ReadInv'
<1>1. CASE ~stable'
    BY <1>1 DEF RankInv, ReadInv
<1>2. CASE UNCHANGED <<stable, attr>>
  <2>1. Good' = Good /\ Kept' = Kept
      BY <1>2, GoodSame DEF Kept
  <2>2. \A o \in Kept : PriceAdded(o)' = PriceAdded(o)
      BY <1>2 DEF PriceAdded, PriceScore, Past
  <2>3. ASSUME NEW done \in Seq(Weighting), NEW base \in [Models -> Int], RankedAfter(done, base)
        PROVE  RankedAfter(done, base)'
      BY <2>1, <2>2, <2>3 DEF RankedAfter
  <2>4. RankInv'
      BY <1>2, <2>3 DEF RankInv
  <2>5. ReadInv'
      BY <1>2, <2>1 DEF ReadInv, Load
  <2> QED
      BY <2>4, <2>5
<1> QED
    BY <1>1, <1>2

\* A step inside a scorer, or of the picker, that leaves scores and candidates alone.
LEMMA RankStays ==
    ASSUME RankInv, run \in Turn, run.pc \in {"score", "sum", "count"},
           UNCHANGED <<pipeline, attr, stable>>,
           run'.models = run.models, run'.prior = run.prior, run'.rest = run.rest,
           run'.score = run.score, run'.pc # "cost" \/ run'.next = 1
    PROVE  RankInv'
<1> SUFFICES ASSUME stable
             PROVE  \E done \in Seq(Weighting), base \in [Models -> Int] : RankedAfter(done, base)'
    BY DEF RankInv
<1>1. PICK done \in Seq(Weighting), base \in [Models -> Int] : RankedAfter(done, base)
    BY DEF RankInv, Choosing
<1>2. Good' = Good /\ Kept' = Kept
    BY GoodSame DEF Kept
<1>3. \A i \in DOMAIN run.models : ~ (i < 1)
  <2>1. run.models \in Seq(Models)
      BY DEF Turn
  <2>2. DOMAIN run.models = 1 .. Len(run.models) /\ Len(run.models) \in Nat
      BY <2>1
  <2> QED
      BY <2>2
<1>4. ASSUME NEW o \in Kept
      PROVE  PriceAdded(o) = 0 /\ PriceAdded(o)' = 0
  <2>1. run'.pc = "cost" => Past(o)' = {}
      BY <1>3 DEF Past
  <2> QED
      BY <2>1 DEF PriceAdded
<1>5. RankedAfter(done, base)'
    BY <1>1, <1>2, <1>4 DEF RankedAfter
<1> QED
    BY <1>5

\* Before the first scorer the candidates are equal.
LEMMA RankStarts ==
    ASSUME TypeOK, UNCHANGED pipeline, run'.rest = pipeline.scorers,
           run'.score = [o \in Models |-> 0], run'.pc = "score", run'.models \in Seq(Models)
    PROVE  RankInv'
<1>1. PICK base : base = [o \in Models |-> 0]
    OBVIOUS
<1>2. base \in [Models -> Int] /\ <<>> \in Seq(Weighting)
    BY <1>1
<1>3. pipeline.scorers \in Seq(Weighting)
    BY SelectorAssumption DEF TypeOK, Pipeline
<1>4. pipeline.scorers = <<>> \o pipeline.scorers
    BY <1>3
<1>5. Weighing(<<>>) = {}
  <2>1. \A k \in Scorers : TotalWeight(<<>>, {k}) = 0
      BY TotalEmpty
  <2> QED
      BY <2>1 DEF Weighing
<1>6. Kept' \subseteq Models
  <2>1. \A i \in DOMAIN run'.models : run'.models[i] \in Models
      OBVIOUS
  <2> QED
      BY <2>1 DEF Kept, ToSet
<1>7. OutOfOrder({}, base, Kept', Good') = {}
  <2>1. \A o \in Kept' : base[o] = 0
      BY <1>1, <1>6
  <2> QED
      BY <2>1 DEF OutOfOrder
<1>8. ASSUME NEW o \in Kept'
      PROVE  run'.score[o] = base[o] + PriceAdded(o)'
  <2>1. PriceAdded(o)' = 0 /\ base[o] = 0 /\ run'.score[o] = 0
      BY <1>1, <1>6 DEF PriceAdded
  <2> QED
      BY <2>1
<1>9. TotalWeight(<<>>, {"session"}) = 0
    BY TotalEmpty
<1>10. RankedAfter(<<>>, base)'
    BY <1>4, <1>5, <1>7, <1>8, <1>9 DEF RankedAfter
<1> QED
    BY <1>2, <1>10 DEF RankInv

LEMMA KeptModels ==
    ASSUME run \in Turn
    PROVE  Kept \in SUBSET Models
<1>1. run.models \in Seq(Models)
    BY DEF Turn
<1>2. \A i \in DOMAIN run.models : run.models[i] \in Models
    BY <1>1
<1> QED
    BY <1>2 DEF Kept, ToSet

\* A scorer returned: the scores of those done before are in order, its own scores
\* have its order, and it added them.
LEMMA RankOn ==
    ASSUME run \in Turn, run.rest # <<>>, UNCHANGED pipeline, run'.pc = "score",
           run'.rest = Tail(run.rest), run'.models = run.models, run'.score \in [Models -> Int],
           NEW done \in Seq(Weighting), pipeline.scorers = done \o run.rest,
           (\E i \in DOMAIN Tail(run.rest) : Tail(run.rest)[i].kind = "session") =>
              TotalWeight(Append(done, Head(run.rest)), {"session"}) = 0,
           NEW base \in [Models -> Int], NEW c,
           OutOfOrder(Weighing(done), base, Kept, Good') = {},
           Misplaced(Head(run.rest).kind, c, Kept, Good') = {},
           NotAdded(base, c, Head(run.rest).weight, Kept, run'.score) = {}
    PROVE  RankInv'
<1>1. PICK h, more, G, S, new :
         /\ h = Head(run.rest) /\ more = Append(done, h) /\ G = Good' /\ S = Kept /\ new = run'.score
    OBVIOUS
<1>2. h \in Weighting /\ more \in Seq(Weighting) /\ run.rest \in Seq(Weighting)
    BY <1>1, HeadType
<1>3. S = Kept' /\ S \in SUBSET Models /\ new \in [Models -> Int]
    BY <1>1, KeptModels DEF Kept
<1>4. OutOfOrder(Weighing(more), new, S, G) = {}
  <2>1. /\ OutOfOrder(Weighing(done), base, S, G) = {} /\ Misplaced(h.kind, c, S, G) = {}
        /\ NotAdded(base, c, h.weight, S, new) = {}
      BY <1>1
  <2>2. OutOfOrder(Weighing(Append(done, h)), new, S, G) = {}
      BY <1>2, <1>3, <2>1, RankStep, Zenon
  <2> QED
      BY <1>1, <2>2
<1>5. pipeline'.scorers = more \o run'.rest
  <2>1. done \o run.rest = Append(done, Head(run.rest)) \o Tail(run.rest)
      BY <1>2, OneMoreDone
  <2> QED
      BY <1>1, <2>1
<1>6. ASSUME NEW o \in Kept'
      PROVE  run'.score[o] = new[o] + PriceAdded(o)'
  <2>1. PriceAdded(o)' = 0 /\ new[o] \in Int
      BY <1>3 DEF PriceAdded
  <2> QED
      BY <1>1, <2>1
<1>7. RankedAfter(more, new)'
    BY <1>1, <1>3, <1>4, <1>5, <1>6 DEF RankedAfter
<1> QED
    BY <1>2, <1>3, <1>7 DEF RankInv

\* No weight of the session scorer is added while it is to come.
LEMMA NoSessionYet ==
    ASSUME run \in Turn, run.rest # <<>>, Head(run.rest).kind # "session",
           NEW done \in Seq(Weighting),
           (\E i \in DOMAIN run.rest : run.rest[i].kind = "session") => TotalWeight(done, {"session"}) = 0
    PROVE  (\E i \in DOMAIN Tail(run.rest) : Tail(run.rest)[i].kind = "session") =>
              TotalWeight(Append(done, Head(run.rest)), {"session"}) = 0
<1>1. run.rest \in Seq(Weighting) /\ Head(run.rest) \in Weighting
    BY HeadType
<1>2. TotalWeight(Append(done, Head(run.rest)), {"session"}) = TotalWeight(done, {"session"})
    BY <1>1, TotalsAfterOther
<1> QED
    BY <1>1, <1>2, SessionToCome

\* Every scorer but the session scorer, when it returns with a score of every
\* candidate: these scores have the scorer's order.
LEMMA RankReturns ==
    ASSUME SelectorInv, RankInv, run.pc \in {"score", "sum", "count"}, run.rest # <<>>,
           Head(run.rest).kind # "session", NEW raw, DOMAIN raw = Kept,
           \A o \in Kept : raw[o] \in Int, Step(Scored(raw)),
           stable => \A o, p \in Kept : o # p =>
              (Head(run.rest).kind \in Good[p][o] <=>
                 enforceScoreRange(raw[o]) <= enforceScoreRange(raw[p]))
    PROVE  RankInv'
<1>0. TypeOK /\ CacheInv /\ run \in Turn /\ Kept \in SUBSET Models
    BY KeptModels DEF SelectorInv, TypeOK
<1>1. /\ Scored(raw) \in Turn /\ run' = Scored(raw)
      /\ run'.pc = "score" /\ run'.models = run.models /\ run'.prior = run.prior
      /\ run'.rest = Tail(run.rest) /\ run'.score = Weighted(raw)
    BY <1>0, ScoredFields DEF Step
<1>2. UNCHANGED <<pipeline, attr, stable>>
    BY <1>0, <1>1, StepTypes
<1> SUFFICES ASSUME stable
             PROVE  RankInv'
    BY <1>2 DEF RankInv
<1>3. PICK done \in Seq(Weighting), base \in [Models -> Int] : RankedAfter(done, base)
    BY DEF RankInv, Choosing
<1>4. PICK h, G, c : h = Head(run.rest) /\ G = Good /\ c = [o \in Kept |-> enforceScoreRange(raw[o])]
    OBVIOUS
<1>5. G = Good'
    BY <1>1, <1>2, <1>4, GoodSame
<1>6. \A o \in Kept : c[o] = enforceScoreRange(raw[o]) /\ enforceScoreRange(raw[o]) \in Int
    BY <1>4, RangeForced
<1>7. Misplaced(h.kind, c, Kept, G) = {}
    BY <1>4, <1>6 DEF Misplaced
<1>8. run'.score \in [Models -> Int]
    BY <1>0, <1>1, WeightedBounds
<1>9. NotAdded(base, c, h.weight, Kept, run'.score) = {}
  <2>1. ASSUME NEW o \in Kept
        PROVE  run'.score[o] = base[o] + c[o] * h.weight
    <3>1. run.score[o] = base[o] + PriceAdded(o) /\ PriceAdded(o) = 0 /\ base[o] \in Int
        BY <1>0, <1>3 DEF RankedAfter, PriceAdded
    <3>2. run'.score[o] = run.score[o] + enforceScoreRange(raw[o]) * h.weight
        BY <1>0, <1>1, <1>4 DEF Weighted
    <3> QED
        BY <1>6, <3>1, <3>2
  <2> QED
      BY <2>1 DEF NotAdded
<1>10. /\ pipeline.scorers = done \o run.rest /\ OutOfOrder(Weighing(done), base, Kept, G) = {}
       /\ (\E i \in DOMAIN run.rest : run.rest[i].kind = "session") => TotalWeight(done, {"session"}) = 0
    BY <1>3, <1>4 DEF RankedAfter
<1>11. (\E i \in DOMAIN Tail(run.rest) : Tail(run.rest)[i].kind = "session") =>
          TotalWeight(Append(done, Head(run.rest)), {"session"}) = 0
    BY <1>0, <1>10, NoSessionYet
<1> QED
    BY <1>0, <1>1, <1>2, <1>4, <1>5, <1>7, <1>8, <1>9, <1>10, <1>11, RankOn

\* The prices order the candidates by the cost scorer.
LEMMA PriceOrder ==
    ASSUME SelectorInv, ReadInv, stable, run.pc = "cost", NEW o \in Kept, NEW p \in Kept
    PROVE  PriceScore(o) \in Int /\ ("cost" \in Good[p][o] <=> PriceScore(o) <= PriceScore(p))
<1>1. PICK d, a, b : d = run.sum /\ a = attr[o].price /\ b = attr[p].price
    OBVIOUS
<1>2. d \in Nat \ {0} /\ d <= Scale /\ a \in 0 .. d /\ b \in 0 .. d /\ o \in Models /\ p \in Models
  <2>1. run \in Turn /\ run.sum > 0
      BY DEF SelectorInv, TypeOK, TurnInv
  <2>2. run.sum \in Nat
      BY <2>1 DEF Turn
  <2> QED
      BY <1>1, <2>1, <2>2, KeptModels DEF ReadInv
<1>3. PICK x, y : x = (a * Scale) \div d /\ y = (b * Scale) \div d
    OBVIOUS
<1>4. x \in 0 .. Scale /\ y \in 0 .. Scale /\ (y <= x <=> b <= a)
    BY <1>2, <1>3, Quotients
<1>5. PriceScore(o) = Scale - x /\ PriceScore(p) = Scale - y
  <2>1. \A n \in 0 .. Scale : enforceScoreRange(Scale - n) = Scale - n
      BY SelectorAssumption DEF enforceScoreRange
  <2>2. PriceScore(o) = enforceScoreRange(Scale - x) /\ PriceScore(p) = enforceScoreRange(Scale - y)
      BY <1>1, <1>3 DEF PriceScore
  <2> QED
      BY <1>4, <2>1, <2>2
<1>6. "cost" \in Good[p][o] <=> b <= a
    BY <1>1, <1>2 DEF Good, AsGoodBy, Scorers
<1>7. Scale - x \in Int /\ Scale - y \in Int /\ (y <= x <=> Scale - x <= Scale - y)
    BY <1>4, SelectorAssumption
<1> QED
    BY <1>4, <1>5, <1>6, <1>7

\* The cost scorer returns.
LEMMA RankCost ==
    ASSUME SelectorInv, RankInv, ReadInv, run.pc = "cost", run.next > Len(run.models),
           Step(Scored([o \in {} |-> 0]))
    PROVE  RankInv'
<1>0. /\ TypeOK /\ CacheInv /\ run \in Turn /\ Kept \in SUBSET Models
      /\ run.rest # <<>> /\ Head(run.rest).kind = "cost"
    BY KeptModels DEF SelectorInv, TypeOK, TurnInv
<1>1. PICK raw : raw = [o \in {} |-> 0]
    OBVIOUS
<1>2. DOMAIN raw = {} /\ Step(Scored(raw)) /\ \A o \in DOMAIN raw : raw[o] \in Int
    BY <1>1
<1>3. /\ Scored(raw) \in Turn /\ run' = Scored(raw)
      /\ run'.pc = "score" /\ run'.models = run.models /\ run'.prior = run.prior
      /\ run'.rest = Tail(run.rest) /\ run'.score = Weighted(raw)
    BY <1>0, <1>2, ScoredFields DEF Step
<1>4. UNCHANGED <<pipeline, attr, stable>>
    BY <1>0, <1>2, <1>3, StepTypes
<1> SUFFICES ASSUME stable
             PROVE  RankInv'
    BY <1>4 DEF RankInv
<1>5. PICK done \in Seq(Weighting), base \in [Models -> Int] : RankedAfter(done, base)
    BY DEF RankInv, Choosing
<1>6. PICK h, G, c : h = Head(run.rest) /\ G = Good /\ c = [o \in Kept |-> PriceScore(o)]
    OBVIOUS
<1>7. G = Good'
    BY <1>3, <1>4, <1>6, GoodSame
<1>8. Misplaced(h.kind, c, Kept, G) = {}
  <2>1. ASSUME NEW o \in Kept, NEW p \in Kept
        PROVE  c[o] \in Int /\ ("cost" \in G[p][o] <=> c[o] <= c[p])
      BY <1>6, PriceOrder
  <2> QED
      BY <1>0, <1>6, <2>1 DEF Misplaced
<1>9. run'.score \in [Models -> Int]
    BY <1>0, <1>2, <1>3, WeightedBounds
<1>10. NotAdded(base, c, h.weight, Kept, run'.score) = {}
  <2>1. ASSUME NEW o \in Kept
        PROVE  run'.score[o] = base[o] + c[o] * h.weight
    <3>1. run'.score[o] = run.score[o]
        BY <1>0, <1>2, <1>3, WeightedBounds
    <3>2. Past(o) # {}
      <4>1. run.models \in Seq(Models) /\ run.next \in Nat
          BY <1>0 DEF Turn
      <4>2. PICK i \in DOMAIN run.models : run.models[i] = o
          BY <2>1 DEF Kept, ToSet
      <4>3. i < run.next
          BY <4>1, <4>2
      <4> QED
          BY <4>2, <4>3 DEF Past
    <3>3. run.score[o] = base[o] + PriceAdded(o)
        BY <1>5 DEF RankedAfter
    <3>4. PriceAdded(o) = c[o] * h.weight
        BY <1>6, <3>2 DEF PriceAdded
    <3> QED
        BY <3>1, <3>3, <3>4
  <2> QED
      BY <2>1 DEF NotAdded
<1>11. /\ pipeline.scorers = done \o run.rest /\ OutOfOrder(Weighing(done), base, Kept, G) = {}
       /\ (\E i \in DOMAIN run.rest : run.rest[i].kind = "session") => TotalWeight(done, {"session"}) = 0
    BY <1>5, <1>6 DEF RankedAfter
<1>12. (\E i \in DOMAIN Tail(run.rest) : Tail(run.rest)[i].kind = "session") =>
          TotalWeight(Append(done, Head(run.rest)), {"session"}) = 0
    BY <1>0, <1>11, NoSessionYet
<1> QED
    BY <1>0, <1>3, <1>4, <1>6, <1>7, <1>8, <1>9, <1>10, <1>11, <1>12, RankOn

\* The cost scorer adds its part of one candidate.
LEMMA RankOnePrice ==
    ASSUME SelectorInv, RankInv, ReadInv, run.pc = "cost", ~ (run.next > Len(run.models)), NEW x \in Int,
           PriceScore(run.models[run.next]) = enforceScoreRange(x),
           Step([run EXCEPT !.next = @ + 1,
                            !.score = Weighted([p \in {run.models[run.next]} |-> x])])
    PROVE  RankInv' /\ ReadInv'
<1>0. /\ TypeOK /\ CacheInv /\ run \in Turn /\ Kept \in SUBSET Models /\ Injective(run.models)
      /\ run.rest # <<>>
    BY KeptModels DEF SelectorInv, TypeOK, TurnInv
<1>1. PICK o, next, raw, score :
         /\ o = run.models[run.next] /\ next = run.next + 1 /\ raw = [p \in {o} |-> x]
         /\ score = Weighted(raw)
    OBVIOUS
<1>2. /\ o \in Models /\ run.next \in DOMAIN run.models /\ run.next \in Nat
      /\ next \in Nat \ {0}
    BY <1>0, <1>1, AtCandidate
<1>3. DOMAIN raw = {o} /\ raw[o] = x
    BY <1>1
<1>4. score \in [Models -> Int] /\ \A p \in Models : p # o => score[p] = run.score[p]
    BY <1>0, <1>1, <1>3, WeightedBounds
<1>5. PICK r : r = [run EXCEPT !.next = next, !.score = score]
    OBVIOUS
<1>6. Step(r) /\ run' = r
    BY <1>1, <1>5 DEF Step
<1>7. /\ r \in Turn /\ r.pc = "cost" /\ r.models = run.models /\ r.prior = run.prior
      /\ r.rest = run.rest /\ r.score = score /\ r.next = next /\ r.sum = run.sum
    BY <1>0, <1>2, <1>4, <1>5 DEF Turn
<1>8. UNCHANGED <<pipeline, attr, stable>>
    BY <1>0, <1>6, <1>7, StepTypes
<1>9. Kept' = Kept
    BY <1>6, <1>7 DEF Kept
<1>10. ReadInv'
    BY <1>6, <1>7, <1>8, <1>9 DEF ReadInv
<1>11. RankInv'
  <2> SUFFICES ASSUME stable
               PROVE  \E done \in Seq(Weighting), base \in [Models -> Int] : RankedAfter(done, base)'
      BY <1>8 DEF RankInv
  <2>1. PICK done \in Seq(Weighting), base \in [Models -> Int] : RankedAfter(done, base)
      BY DEF RankInv, Choosing
  <2>2. Good' = Good
      BY <1>6, <1>7, <1>8, GoodSame
  <2>3. ASSUME NEW p \in Kept
        PROVE  run'.score[p] = base[p] + PriceAdded(p)'
    <3>1. run.score[p] = base[p] + PriceAdded(p) /\ run.score[p] \in Int /\ base[p] \in Int
        BY <1>0, <2>1 DEF RankedAfter, Turn
    <3>2. PriceScore(p)' = PriceScore(p) /\ Head(run'.rest).weight = Head(run.rest).weight
        BY <1>6, <1>7, <1>8 DEF PriceScore
    <3>3. CASE p = o
      <4>1. Past(p) = {}
        <5>1. ASSUME NEW i \in DOMAIN run.models, i < run.next, run.models[i] = p
              PROVE  FALSE
          <6>1. i = run.next
              BY <1>0, <1>1, <1>2, <3>3, <5>1 DEF Injective
          <6> QED
              BY <1>2, <5>1, <6>1
        <5> QED
            BY <5>1 DEF Past
      <4>2. run.score[p] = base[p]
          BY <3>1, <4>1 DEF PriceAdded
      <4>3. run.next < next
          BY <1>1, <1>2
      <4>4. run.next \in Past(p)'
          BY <1>1, <1>2, <1>6, <1>7, <3>3, <4>3 DEF Past
      <4>5. PriceAdded(p)' = PriceScore(p) * Head(run.rest).weight
          BY <1>6, <1>7, <3>2, <4>4 DEF PriceAdded
      <4>6. score[p] = run.score[p] + enforceScoreRange(x) * Head(run.rest).weight
          BY <1>1, <1>2, <1>3, <3>3 DEF Weighted
      <4>7. PriceScore(p) = enforceScoreRange(x)
          BY <1>1, <3>3
      <4> QED
          BY <1>6, <1>7, <4>2, <4>5, <4>6, <4>7
    <3>4. CASE p # o
      <4>1. run'.score[p] = run.score[p]
          BY <1>0, <1>4, <1>6, <1>7, <3>4
      <4>2. Past(p)' = Past(p)
        <5>1. ASSUME NEW i \in DOMAIN run.models, run.models[i] = p
              PROVE  i < next <=> i < run.next
          <6>1. i \in Nat
            <7>1. run.models \in Seq(Models)
                BY <1>0 DEF Turn
            <7>2. DOMAIN run.models = 1 .. Len(run.models) /\ Len(run.models) \in Nat
                BY <7>1
            <7> QED
                BY <7>2
          <6>2. i # run.next
              BY <1>1, <3>4, <5>1
          <6> QED
              BY <1>1, <1>2, <6>1, <6>2
        <5> QED
            BY <1>6, <1>7, <5>1 DEF Past
      <4>3. PriceAdded(p)' = PriceAdded(p)
          BY <1>6, <1>7, <3>2, <4>2 DEF PriceAdded
      <4> QED
          BY <3>1, <4>1, <4>3
    <3> QED
        BY <3>3, <3>4
  <2>4. RankedAfter(done, base)'
      BY <1>6, <1>7, <1>8, <1>9, <2>1, <2>2, <2>3 DEF RankedAfter
  <2> QED
      BY <2>4
<1> QED
    BY <1>10, <1>11

\* Nothing is under way once a scorer returned.
LEMMA ScoredReads ==
    ASSUME run \in Turn, NEW raw, run' = Scored(raw)
    PROVE  ReadInv'
<1>1. run'.pc = "score" /\ run'.next = 1 /\ run'.sum = 0
    BY DEF Scored, Turn
<1> QED
    BY <1>1 DEF ReadInv

\* The session scorer returns.
LEMMA RankSession ==
    ASSUME SelectorInv, RankInv, SessionScore
    PROVE  RankInv' /\ ReadInv'
<1>0. TypeOK /\ CacheInv /\ run \in Turn /\ Kept \in SUBSET Models
    BY KeptModels DEF SelectorInv, TypeOK
<1>1. run.pc = "score" /\ run.rest # <<>> /\ Head(run.rest).kind = "session"
    BY DEF SessionScore, Scorer
<1>2. run.session \in Sessions \cup {None}
    BY <1>0 DEF Turn
<1>3. PICK previous : previous = IF Cached(run.session) = {} THEN None
                                 ELSE cache[CHOOSE i \in Cached(run.session) : TRUE].model
    OBVIOUS
<1>4. /\ previous \in Names \cup {None}
      /\ previous = IF Cached(run.session) = {} THEN None ELSE lastRecorded[run.session]
    BY <1>0, <1>2, <1>3, FindsRecorded
<1>5. PICK raw : raw = [o \in Kept |-> IF NameOf[o] = previous THEN Scale ELSE 0]
    OBVIOUS
<1>6. /\ run' = [Scored(raw) EXCEPT !.prior = previous]
      /\ UNCHANGED <<attr, pipeline, stable>>
    BY <1>3, <1>4, <1>5 DEF SessionScore, selectorUnchanged, storeVars
<1>7. DOMAIN raw = Kept /\ Scale \in Nat /\ Scale > 0 /\ \A o \in DOMAIN raw : raw[o] \in Int
    BY <1>5, SelectorAssumption
<1>8. PICK sc : sc = Scored(raw)
    OBVIOUS
<1>9. /\ sc \in Turn /\ sc.pc = "score" /\ sc.models = run.models
      /\ sc.rest = Tail(run.rest) /\ sc.score = Weighted(raw)
    BY <1>0, <1>1, <1>7, <1>8, ScoredFields
<1>10. sc.next = 1 /\ sc.sum = 0
    BY <1>0, <1>8 DEF Scored, Turn
<1>11. /\ run'.pc = "score" /\ run'.models = run.models /\ run'.rest = Tail(run.rest)
       /\ run'.score = Weighted(raw) /\ run'.prior = previous /\ run'.next = 1 /\ run'.sum = 0
    BY <1>4, <1>6, <1>8, <1>9, <1>10 DEF Turn
<1>12. ReadInv'
    BY <1>11 DEF ReadInv
<1>13. ASSUME stable
       PROVE  RankInv'
  <2>1. PICK done \in Seq(Weighting), base \in [Models -> Int] : RankedAfter(done, base)
      BY <1>1, <1>13 DEF RankInv, Choosing
  <2>2. PICK h, G, H : h = Head(run.rest) /\ G = Good /\ H = Good'
      OBVIOUS
  <2>3. run.rest \in Seq(Weighting) /\ h \in Weighting /\ 1 \in DOMAIN run.rest /\ run.rest[1] = h
      BY <1>0, <1>1, <2>2, HeadType
  <2>4. /\ pipeline.scorers = done \o run.rest /\ TotalWeight(done, {"session"}) = 0
        /\ OutOfOrder(Weighing(done), base, Kept, G) = {}
        /\ \A o \in Kept : run.score[o] = base[o] + PriceAdded(o)
      BY <1>1, <2>1, <2>2, <2>3 DEF RankedAfter
  <2>5. "session" \notin Weighing(done) /\ Weighing(done) \subseteq Scorers
      BY <2>4 DEF Weighing
  <2>6. ASSUME NEW o \in Models, NEW p \in Models, NEW k \in Scorers, k # "session"
        PROVE  k \in H[p][o] <=> k \in G[p][o]
      BY <1>6, <2>2, <2>6 DEF Good, AsGoodBy, Load
  <2>7. OutOfOrder(Weighing(done), base, Kept, H) = {}
    <3>1. ASSUME NEW o \in Models, NEW p \in Models
          PROVE  Weighing(done) \subseteq H[p][o] <=> Weighing(done) \subseteq G[p][o]
        BY <2>5, <2>6
    <3> QED
        BY <1>0, <2>4, <3>1 DEF OutOfOrder
  <2>8. ASSUME NEW o \in Kept, NEW p \in Kept
        PROVE  "session" \in H[p][o] <=> raw[o] <= raw[p]
    <3>1. NameOf[o] # None /\ NameOf[p] # None /\ o \in Models /\ p \in Models
        BY <1>0, SelectorAssumption
    <3>2. "session" \in H[p][o] <=> (NameOf[o] = previous => NameOf[p] = previous)
        BY <1>11, <2>2, <3>1 DEF Good, AsGoodBy, Affine, Scorers
    <3>3. raw[o] = (IF NameOf[o] = previous THEN Scale ELSE 0)
          /\ raw[p] = (IF NameOf[p] = previous THEN Scale ELSE 0)
        BY <1>5
    <3> QED
        BY <1>7, <3>2, <3>3
  <2>9. Misplaced("session", raw, Kept, H) = {}
      BY <1>7, <2>8 DEF Misplaced
  <2>10. run'.score \in [Models -> Int]
      BY <1>0, <1>1, <1>7, <1>11, WeightedBounds
  <2>11. NotAdded(base, raw, h.weight, Kept, run'.score) = {}
    <3>1. ASSUME NEW o \in Kept
          PROVE  run'.score[o] = base[o] + raw[o] * h.weight
      <4>1. run.score[o] = base[o] + PriceAdded(o) /\ PriceAdded(o) = 0 /\ base[o] \in Int
          BY <1>0, <1>1, <2>4 DEF PriceAdded
      <4>2. raw[o] \in {0, Scale}
          BY <1>5
      <4>3. enforceScoreRange(raw[o]) = raw[o]
          BY <1>7, <4>2 DEF enforceScoreRange
      <4>4. run'.score[o] = run.score[o] + enforceScoreRange(raw[o]) * h.weight
          BY <1>0, <1>7, <1>11, <2>2 DEF Weighted
      <4> QED
          BY <4>1, <4>3, <4>4
    <3> QED
        BY <3>1 DEF NotAdded
  <2>12. ~ \E i \in DOMAIN Tail(run.rest) : Tail(run.rest)[i].kind = "session"
      BY <1>0, <1>1, <2>3, <2>4, OneSessionScorer
  <2> QED
      BY <1>0, <1>1, <1>6, <1>11, <2>2, <2>4, <2>7, <2>9, <2>10, <2>11, <2>12, RankOn
<1>14. ~stable => RankInv'
    BY <1>6 DEF RankInv
<1> QED
    BY <1>12, <1>13, <1>14

LEMMA RankBetween ==
    ASSUME run'.pc \in {"idle", "rejected", "panicked"}
    PROVE  RankInv' /\ ReadInv'
BY DEF RankInv, ReadInv, Choosing

LEMMA RankEnds ==
    ASSUME ProcessResponse \/ EndTurn
    PROVE  RankInv' /\ ReadInv'
<1>1. run' = NoTurn
    BY DEF ProcessResponse, EndTurn, Step
<1>2. run'.pc = "idle"
    BY <1>1 DEF NoTurn
<1> QED
    BY <1>2, RankBetween

LEMMA RankRequests ==
    ASSUME SelectorInv, ProcessRequest
    PROVE  RankInv' /\ ReadInv'
<1>0. TypeOK /\ UNCHANGED pipeline
    BY DEF SelectorInv, ProcessRequest, selectorUnchanged
<1>1. CASE registered = {}
  <2>1. run' = Rejected
      BY <1>1 DEF ProcessRequest
  <2>2. run'.pc = "rejected"
      BY <2>1 DEF Rejected, NoTurn
  <2> QED
      BY <2>2, RankBetween
<1>2. CASE registered # {}
  <2>1. PICK wanted \in IF pipeline.filter THEN Wanted ELSE {NoTurn.wanted},
             session \in {None} \cup (IF HasSessions THEN Sessions ELSE {}),
             models \in SetToSeqs(registered) :
             run' = [NoTurn EXCEPT !.pc = IF pipeline.filter THEN "filter" ELSE "score",
                                   !.wanted = wanted, !.session = session,
                                   !.models = models, !.rest = pipeline.scorers]
      BY <1>2 DEF ProcessRequest
  <2>2. models \in Seq(Models)
      BY <1>0, <1>2, ListedOnce DEF TypeOK
  <2>3. /\ run'.pc = IF pipeline.filter THEN "filter" ELSE "score"
        /\ run'.models = models /\ run'.rest = pipeline.scorers /\ run'.next = 1 /\ run'.sum = 0
        /\ run'.score = [o \in Models |-> 0]
      BY <2>1 DEF NoTurn
  <2>4. run'.pc \in {"filter", "score"}
      BY <2>3
  <2>5. ReadInv'
      BY <1>0, <2>3, <2>4 DEF ReadInv
  <2>6. run'.pc = "filter" => RankInv'
      BY DEF RankInv, Choosing
  <2>7. run'.pc = "score" => RankInv'
      BY <1>0, <2>2, <2>3, RankStarts
  <2> QED
      BY <2>4, <2>5, <2>6, <2>7
<1> QED
    BY <1>1, <1>2

\* The filter is over.
LEMMA RankFiltered ==
    ASSUME SelectorInv, ReadInv, run.pc = "filter", NEW models \in Seq(Models), Step(Filtered(models))
    PROVE  RankInv' /\ ReadInv'
<1>0. TypeOK /\ run \in Turn /\ UNCHANGED pipeline /\ run' = Filtered(models)
    BY DEF SelectorInv, TypeOK, Step, selectorUnchanged
<1>1. CASE models = <<>>
  <2>1. run'.pc = "rejected"
      BY <1>0, <1>1 DEF Filtered, Rejected, NoTurn
  <2> QED
      BY <2>1, RankBetween
<1>2. CASE models # <<>>
  <2>1. run' = [run EXCEPT !.pc = "score", !.models = models, !.next = 1, !.group = <<>>]
      BY <1>0, <1>2 DEF Filtered
  <2>2. /\ run'.pc = "score" /\ run'.models = models /\ run'.next = 1 /\ run'.sum = run.sum
        /\ run'.rest = run.rest /\ run'.score = run.score
      BY <1>0, <2>1 DEF Turn
  <2>3. run.rest = pipeline.scorers /\ run.score = [o \in Models |-> 0] /\ run.sum = 0
      BY DEF ReadInv
  <2>4. ReadInv'
      BY <2>2, <2>3 DEF ReadInv
  <2>5. RankInv'
      BY <1>0, <2>2, <2>3, RankStarts
  <2> QED
      BY <2>4, <2>5
<1> QED
    BY <1>1, <1>2

LEMMA RankFilters ==
    ASSUME SelectorInv, ReadInv, Filter \/ FilterGroup
    PROVE  RankInv' /\ ReadInv'
<1>0. run \in Turn /\ run.pc = "filter"
    BY DEF SelectorInv, TypeOK, Filter, FilterGroup
<1>1. CASE Filter
  <2>1. PICK models : models = Selected(run.models, Matching)
      OBVIOUS
  <2>2. models \in Seq(Models \cap Matching)
    <3>1. run.models \in Seq(Models)
        BY <1>0 DEF Turn
    <3> QED
        BY <2>1, <3>1, SelectedType
  <2>3. models \in Seq(Models) /\ Step(Filtered(models))
      BY <1>1, <2>1, <2>2 DEF Filter
  <2> QED
      BY <1>0, <2>3, RankFiltered
<1>2. CASE FilterGroup /\ run.next > Len(run.models)
  <2>1. run.group \in Seq(Models) /\ Step(Filtered(run.group))
      BY <1>0, <1>2 DEF FilterGroup, Turn
  <2> QED
      BY <1>0, <2>1, RankFiltered
<1>3. CASE FilterGroup /\ ~ (run.next > Len(run.models))
  <2>1. PICK group, next : run' = [run EXCEPT !.next = next, !.group = group] /\ UNCHANGED pipeline
    <3>1. PICK o : o = run.models[run.next]
        OBVIOUS
    <3>2. PICK next, group : /\ next = run.next + 1
                             /\ group = IF run.wanted.group \in attr[o].groups
                                        THEN Append(run.group, o) ELSE run.group
        OBVIOUS
    <3>3. run' = [run EXCEPT !.next = next, !.group = group] /\ UNCHANGED pipeline
        BY <1>3, <3>1, <3>2 DEF FilterGroup, Step, selectorUnchanged
    <3> QED
        BY <3>3
  <2>2. /\ run'.pc = "filter" /\ run'.sum = run.sum /\ run'.rest = run.rest /\ run'.score = run.score
      BY <1>0, <2>1 DEF Turn
  <2>3. ReadInv'
      BY <1>0, <2>1, <2>2 DEF ReadInv
  <2>4. RankInv'
      BY <2>2 DEF RankInv, Choosing
  <2> QED
      BY <2>3, <2>4
<1> QED
    BY <1>1, <1>2, <1>3

\* A scorer that gives every candidate the same score: it has them all as equals, or
\* there is only one.
LEMMA RankSame ==
    ASSUME SelectorInv, RankInv, run.pc \in {"score", "sum", "count"}, run.rest # <<>>,
           Head(run.rest).kind # "session", NEW x \in Int, Step(Scored([o \in Kept |-> x])),
           stable => \A o, p \in Kept : o # p => Head(run.rest).kind \in Good[p][o]
    PROVE  RankInv' /\ ReadInv'
<1>1. PICK raw : raw = [o \in Kept |-> x]
    OBVIOUS
<1>2. DOMAIN raw = Kept /\ (\A o \in Kept : raw[o] \in Int) /\ Step(Scored(raw))
    BY <1>1
<1>3. ASSUME NEW o \in Kept, NEW p \in Kept
      PROVE  enforceScoreRange(raw[o]) <= enforceScoreRange(raw[p])
  <2>1. raw[o] = x /\ raw[p] = x
      BY <1>1
  <2>2. enforceScoreRange(x) \in Nat
      BY RangeForced
  <2> QED
      BY <2>1, <2>2
<1>4. RankInv'
    BY <1>2, <1>3, RankReturns
<1>5. run \in Turn /\ run' = Scored(raw)
    BY <1>2 DEF SelectorInv, TypeOK, Step
<1> QED
    BY <1>4, <1>5, ScoredReads

LEMMA RankCostGuard ==
    ASSUME SelectorInv, RankInv, CostGuardScore
    PROVE  RankInv' /\ ReadInv'
<1>1. /\ run.pc = "score" /\ run.rest # <<>> /\ Head(run.rest).kind = "costguard"
      /\ Step(Scored([o \in Kept |-> Scale \div 2]))
    BY DEF CostGuardScore, Scorer
<1>2. run \in Turn /\ Scale \div 2 \in Int
    BY SelectorAssumption DEF SelectorInv, TypeOK
<1>3. \A o, p \in Kept : "costguard" \in Good[p][o]
    BY <1>2, KeptModels DEF Good, AsGoodBy, Scorers
<1>4. PICK x \in Int : x = Scale \div 2
    BY <1>2
<1> QED
    BY <1>1, <1>3, <1>4, RankSame

LEMMA RankCostScore ==
    ASSUME SelectorInv, RankInv, ReadInv, CostScore
    PROVE  RankInv' /\ ReadInv'
<1>0. run.pc = "score" /\ run.rest # <<>> /\ Head(run.rest).kind = "cost"
    BY DEF CostScore, Scorer
<1>1. TypeOK /\ CacheInv /\ run \in Turn
    BY DEF SelectorInv, TypeOK
<1>2. run.models \in Seq(Models)
    BY <1>1 DEF Turn
<1>3. DOMAIN run.models = 1 .. Len(run.models) /\ Len(run.models) \in Nat
    BY <1>2
<1>4. CASE Len(run.models) = 1
  <2>1. PICK x : x = Scale \div 2
      OBVIOUS
  <2>2. x \in Int /\ Step(Scored([o \in Kept |-> x]))
      BY <1>4, <2>1, SelectorAssumption DEF CostScore
  <2>3. ASSUME NEW o \in Kept, NEW p \in Kept
        PROVE  o = p
    <3>1. PICK i \in DOMAIN run.models, j \in DOMAIN run.models : run.models[i] = o /\ run.models[j] = p
        BY DEF Kept, ToSet
    <3>2. i = 1 /\ j = 1
        BY <1>3, <1>4, <3>1
    <3> QED
        BY <3>1, <3>2
  <2> QED
      BY <1>0, <2>2, <2>3, RankSame
<1>5. CASE Len(run.models) # 1
  <2>1. PICK r : r = [run EXCEPT !.pc = "sum"]
      OBVIOUS
  <2>2. Step(r)
      BY <1>5, <2>1 DEF CostScore
  <2>3. /\ r \in Turn /\ r.pc = "sum" /\ r.models = run.models /\ r.prior = run.prior
        /\ r.rest = run.rest /\ r.score = run.score /\ r.next = run.next /\ r.sum = run.sum
      BY <1>1, <2>1 DEF Turn
  <2>4. run' = r /\ UNCHANGED <<pipeline, attr, stable>>
      BY <1>1, <2>2, <2>3, StepTypes DEF Step
  <2>5. RankInv'
      BY <1>0, <1>1, <2>3, <2>4, RankStays
  <2>6. run'.next = 1 /\ run'.sum = 0 /\ run'.pc = "sum" /\ run'.models = run.models
      BY <1>0, <2>3, <2>4 DEF ReadInv
  <2>7. \A i \in DOMAIN run'.models : ~ (i < run'.next)
      BY <1>3, <2>6
  <2>8. run'.next <= Len(run'.models) + 1 /\ run'.sum <= 0 * (run'.next - 1)
      BY <1>3, <2>6
  <2>9. ReadInv'
      BY <2>6, <2>7, <2>8 DEF ReadInv
  <2> QED
      BY <2>5, <2>9
<1> QED
    BY <1>4, <1>5

\* A list of different models is no longer than there are models.
LEMMA ModelsCount ==
    ASSUME NEW s \in Seq(Models), Injective(s)
    PROVE  Len(s) \in Nat /\ Cardinality(Models) \in Nat /\ Len(s) <= Cardinality(Models)
<1>1. Len(s) \in Nat /\ DOMAIN s = 1 .. Len(s) /\ s \in [1 .. Len(s) -> Models]
    OBVIOUS
<1>2. PICK n, S : n = Len(s) /\ S = 1 .. n
    OBVIOUS
<1>3. s \in Injection(S, Models)
    BY <1>1, <1>2 DEF Injective, Injection, IsInjective
<1>4. IsFiniteSet(Models)
    BY SelectorAssumption
<1>5. Cardinality(S) <= Cardinality(Models)
    BY <1>3, <1>4, FS_Injection
<1>6. Cardinality(1 .. n) = IF 1 > n THEN 0 ELSE n - 1 + 1
  <2>1. 1 \in Int /\ n \in Int
      BY <1>1, <1>2
  <2> QED
      BY <2>1, FS_Interval, Zenon
<1>7. Cardinality(S) = n
    BY <1>1, <1>2, <1>6
<1>8. Cardinality(Models) \in Nat
    BY <1>4, FS_CardinalityType
<1> QED
    BY <1>1, <1>2, <1>5, <1>7, <1>8

\* A sum of prices, one of each candidate at most, is within Scale.
LEMMA SumsFit ==
    ASSUME FineEnough, NEW p \in Prices \cup {0}, NEW n \in Nat, n <= Cardinality(Models)
    PROVE  p \in Nat /\ p * n <= Scale
<1>1. p \in Nat /\ Scale \in Nat /\ Cardinality(Models) \in Nat
    BY SelectorAssumption, FS_CardinalityType
<1>2. PICK c \in Nat : c = Cardinality(Models)
    BY <1>1
<1>3. p * c <= Scale
    BY <1>1, <1>2 DEF FineEnough
<1>4. PICK d \in Nat : c = n + d
  <2>1. c - n \in Nat /\ c = n + (c - n)
      BY <1>2
  <2> QED
      BY <2>1, Zenon
<1>5. PICK a \in Nat, b \in Nat : a = p * n /\ b = p * d
    BY <1>1
<1>6. p * c = a + b
    BY <1>1, <1>4, <1>5
<1> QED
    BY <1>1, <1>3, <1>5, <1>6

\* The candidates whose prices are added up.
LEMMA AllPast ==
    ASSUME run \in Turn, run.next > Len(run.models), NEW o \in Kept
    PROVE  \E i \in DOMAIN run.models : i < run.next /\ run.models[i] = o
<1>1. run.models \in Seq(Models) /\ run.next \in Nat
    BY DEF Turn
<1>2. DOMAIN run.models = 1 .. Len(run.models) /\ Len(run.models) \in Nat
    BY <1>1
<1>3. PICK i \in DOMAIN run.models : run.models[i] = o
    BY DEF Kept, ToSet
<1>4. i < run.next
    BY <1>1, <1>2, <1>3
<1> QED
    BY <1>3, <1>4

\* A sum of m numbers up to p, and one number more.
LEMMA OneMorePrice ==
    ASSUME NEW p \in Nat, NEW q \in Nat, NEW m \in Nat, NEW sum \in Nat, sum <= p * m
    PROVE  sum + q <= p * (m + 1) \/ sum + q <= q * (m + 1)
<1>1. PICK a, b : a = p * m /\ b = q * m
    OBVIOUS
<1>2. a \in Nat /\ b \in Nat /\ p * (m + 1) = a + p /\ q * (m + 1) = b + q /\ sum <= a
    BY <1>1
<1>3. p < q => a <= b
  <2>1. ASSUME p < q
        PROVE  a <= b
    <3>1. q - p \in Nat /\ q * m = p * m + (q - p) * m /\ (q - p) * m >= 0
        BY <2>1
    <3> QED
        BY <1>1, <1>2, <3>1
  <2> QED
      BY <2>1
<1> QED
    BY <1>2, <1>3

\* The cost scorer adds up one more price.
LEMMA RankSumsOne ==
    ASSUME SelectorInv, RankInv, ReadInv, run.pc = "sum", ~ (run.next > Len(run.models)),
           NEW price, price \in Prices, price = attr[run.models[run.next]].price,
           NEW next \in Nat, next = run.next + 1, NEW sum \in Nat, sum = run.sum + price,
           Step([run EXCEPT !.next = next, !.sum = sum])
    PROVE  RankInv' /\ ReadInv'
<1>0. TypeOK /\ CacheInv /\ run \in Turn
    BY DEF SelectorInv, TypeOK
<1>1. PICK r : r = [run EXCEPT !.next = next, !.sum = sum]
    OBVIOUS
<1>2. price \in Nat /\ run.sum \in Nat /\ run.models \in Seq(Models)
    BY <1>0, SelectorAssumption DEF Turn
<1>3. run.next \in Nat \ {0} /\ next \in Nat \ {0}
  <2>1. run.next \in Nat \ {0}
      BY <1>0 DEF Turn
  <2> QED
      BY <2>1
<1>4. DOMAIN run.models = 1 .. Len(run.models) /\ Len(run.models) \in Nat
    BY <1>2
<1>5. /\ r \in Turn /\ r.pc = "sum" /\ r.models = run.models /\ r.prior = run.prior
      /\ r.rest = run.rest /\ r.score = run.score /\ r.next = next /\ r.sum = sum
    BY <1>0, <1>1, <1>3 DEF Turn
<1>6. Step(r) /\ run' = r
    BY <1>1 DEF Step
<1>7. UNCHANGED <<pipeline, attr, stable>>
    BY <1>0, <1>5, <1>6, StepTypes
<1>8. RankInv'
    BY <1>0, <1>5, <1>6, <1>7, RankStays
<1>9. ASSUME stable
      PROVE  /\ next <= Len(run.models) + 1
             /\ \E p \in Prices \cup {0} : sum <= p * (next - 1)
             /\ \A i \in DOMAIN run.models : i < next =>
                   attr[run.models[i]].price \in Nat /\ attr[run.models[i]].price <= sum
  <2>1. /\ \E p \in Prices \cup {0} : run.sum <= p * (run.next - 1)
        /\ \A i \in DOMAIN run.models : i < run.next =>
              attr[run.models[i]].price \in Nat /\ attr[run.models[i]].price <= run.sum
      BY <1>9 DEF ReadInv
  <2>2. next <= Len(run.models) + 1 /\ next - 1 = run.next
      BY <1>1, <1>3, <1>4
  <2>3. \E p \in Prices \cup {0} : sum <= p * (next - 1)
    <3>1. PICK p \in Prices \cup {0} : run.sum <= p * (run.next - 1)
        BY <2>1
    <3>2. p \in Nat /\ run.next - 1 \in Nat
      <4>1. \A n \in Prices \cup {0} : n \in Nat
          BY SelectorAssumption
      <4>2. p \in Nat
          BY <4>1
      <4>3. run.next - 1 \in Nat
          BY <1>3
      <4> QED
          BY <4>2, <4>3
    <3>3. PICK m : m = run.next - 1
        OBVIOUS
    <3>4. m \in Nat /\ next - 1 = m + 1 /\ run.sum <= p * m
        BY <2>2, <3>1, <3>2, <3>3, <1>3
    <3>5. run.sum + price <= p * (m + 1) \/ run.sum + price <= price * (m + 1)
        BY <1>2, <3>2, <3>4, OneMorePrice
    <3>6. \E n \in {p, price} : sum <= n * (next - 1)
        BY <1>1, <3>4, <3>5
    <3> QED
        BY <3>6
  <2>4. ASSUME NEW i \in DOMAIN run.models, i < next
        PROVE  attr[run.models[i]].price \in Nat /\ attr[run.models[i]].price <= sum
    <3>1. CASE i = run.next
        BY <1>1, <1>2, <3>1
    <3>2. CASE i # run.next
      <4>1. i < run.next
          BY <1>1, <1>3, <1>4, <2>4, <3>2
      <4>2. PICK q : q = attr[run.models[i]].price
          OBVIOUS
      <4>3. q \in Nat /\ q <= run.sum
          BY <2>1, <4>1, <4>2
      <4>4. q <= sum
          BY <1>1, <1>2, <4>3
      <4> QED
          BY <4>2, <4>3, <4>4
    <3> QED
        BY <3>1, <3>2
  <2> QED
      BY <2>2, <2>3, <2>4
<1>10. ReadInv'
    BY <1>5, <1>6, <1>7, <1>9 DEF ReadInv
<1> QED
    BY <1>8, <1>10

LEMMA RankSums ==
    ASSUME FineEnough, SelectorInv, RankInv, ReadInv, SumPrices
    PROVE  RankInv' /\ ReadInv'
<1>0. /\ TypeOK /\ CacheInv /\ run \in Turn /\ run.pc = "sum" /\ Injective(run.models)
      /\ run.rest # <<>> /\ Head(run.rest).kind = "cost"
    BY DEF SelectorInv, TypeOK, TurnInv, SumPrices
<1>1. run.models \in Seq(Models) /\ run.next \in Nat \ {0} /\ run.sum \in Nat
    BY <1>0 DEF Turn
<1>2. CASE run.next > Len(run.models)
  <2>1. ASSUME stable
        PROVE  /\ run.sum <= Scale
               /\ \A o \in Kept : attr[o].price \in Nat /\ attr[o].price <= run.sum
    <3>1. PICK p \in Prices \cup {0} : run.sum <= p * (run.next - 1)
        BY <1>0, <2>1 DEF ReadInv
    <3>2. PICK n : n = run.next - 1
        OBVIOUS
    <3>3. run.next <= Len(run.models) + 1
        BY <1>0, <2>1 DEF ReadInv
    <3>4. n \in Nat /\ n <= Cardinality(Models)
        BY <1>0, <1>1, <3>2, <3>3, ModelsCount
    <3>5. p \in Nat /\ p * n <= Scale /\ Scale \in Nat
        BY <3>4, SumsFit, SelectorAssumption
    <3>6. PICK a \in Nat : a = p * n
        BY <3>4, <3>5
    <3>7. run.sum <= Scale
        BY <1>1, <3>1, <3>2, <3>5, <3>6
    <3>8. ASSUME NEW o \in Kept
          PROVE  attr[o].price \in Nat /\ attr[o].price <= run.sum
        BY <1>0, <1>2, <2>1, <3>8, AllPast DEF ReadInv
    <3> QED
        BY <3>7, <3>8
  <2>2. CASE run.sum = 0
    <3>1. Scale \in Int /\ Step(Scored([o \in Kept |-> Scale]))
        BY <1>2, <2>2, SelectorAssumption DEF SumPrices
    <3>2. ASSUME stable, NEW o \in Kept, NEW p \in Kept
          PROVE  "cost" \in Good[p][o]
      <4>1. attr[o].price = 0 /\ attr[p].price = 0
          BY <2>1, <2>2, <3>2
      <4>2. attr[p].price <= attr[o].price
          BY <4>1
      <4> QED
          BY <1>0, <4>2, KeptModels DEF Good, AsGoodBy, Scorers
    <3> QED
        BY <1>0, <3>1, <3>2, RankSame
  <2>3. CASE run.sum # 0
    <3>1. PICK pc, next, r : /\ pc = "cost" /\ next = 1 /\ r = [run EXCEPT !.pc = pc, !.next = next]
        OBVIOUS
    <3>2. Step(r) /\ run' = r
        BY <1>2, <2>3, <3>1 DEF SumPrices, Step
    <3>3. pc \in {"cost"} /\ next \in Nat \ {0}
        BY <3>1
    <3>4. r \in Turn
        BY <1>0, <3>1, <3>3 DEF Turn
    <3>5. /\ r.pc = "cost" /\ r.models = run.models /\ r.prior = run.prior
          /\ r.rest = run.rest /\ r.score = run.score /\ r.next = 1 /\ r.sum = run.sum
        BY <1>0, <3>1 DEF Turn
    <3>6. UNCHANGED <<pipeline, attr, stable>>
        BY <1>0, <3>2, <3>4, StepTypes
    <3>7. RankInv'
        BY <1>0, <3>2, <3>5, <3>6, RankStays
    <3>8. Kept' = Kept
        BY <3>2, <3>5 DEF Kept
    <3>9. ReadInv'
        BY <2>1, <3>2, <3>5, <3>6, <3>8 DEF ReadInv
    <3> QED
        BY <3>7, <3>9
  <2> QED
      BY <2>2, <2>3
<1>3. CASE ~ (run.next > Len(run.models))
  <2>1. PICK price : price = attr[run.models[run.next]].price
      OBVIOUS
  <2>2. price \in Prices \cup {None}
      BY <1>0, <1>3, <2>1, AtCandidate DEF TypeOK
  <2>3. CASE price = None
    <3>1. run' = [run EXCEPT !.pc = "panicked"]
        BY <1>3, <2>1, <2>3 DEF SumPrices, Step
    <3>2. run'.pc = "panicked"
        BY <1>0, <3>1 DEF Turn
    <3> QED
        BY <3>2, RankBetween
  <2>4. CASE price # None
    <3>1. PICK next, sum : next = run.next + 1 /\ sum = run.sum + price
        OBVIOUS
    <3>2. price \in Prices /\ Step([run EXCEPT !.next = next, !.sum = sum])
        BY <1>3, <2>1, <2>2, <2>4, <3>1 DEF SumPrices
    <3>3. next \in Nat /\ sum \in Nat
      <4>1. price \in Nat
          BY <3>2, SelectorAssumption
      <4> QED
          BY <1>1, <3>1, <4>1
    <3> QED
        BY <1>0, <1>3, <2>1, <3>1, <3>2, <3>3, RankSumsOne
  <2> QED
      BY <2>3, <2>4
<1> QED
    BY <1>2, <1>3

LEMMA RankPrices ==
    ASSUME SelectorInv, RankInv, ReadInv, PriceAgainstSum
    PROVE  RankInv' /\ ReadInv'
<1>0. /\ TypeOK /\ run \in Turn /\ run.pc = "cost" /\ run.sum \in Nat /\ run.sum > 0
    BY DEF SelectorInv, TypeOK, TurnInv, PriceAgainstSum, Turn
<1>1. CASE run.next > Len(run.models)
  <2>1. Step(Scored([o \in {} |-> 0]))
      BY <1>1 DEF PriceAgainstSum
  <2>2. run' = Scored([o \in {} |-> 0])
      BY <2>1 DEF Step
  <2>3. RankInv'
      BY <1>0, <1>1, <2>1, RankCost
  <2>4. ReadInv'
      BY <1>0, <2>2, ScoredReads
  <2> QED
      BY <2>3, <2>4
<1>2. CASE ~ (run.next > Len(run.models))
  <2>1. PICK price : price = attr[run.models[run.next]].price
      OBVIOUS
  <2>2. price \in Prices \cup {None}
      BY <1>0, <1>2, <2>1, AtCandidate DEF TypeOK
  <2>3. CASE price = None
    <3>1. run' = [run EXCEPT !.pc = "panicked"]
        BY <1>2, <2>1, <2>3 DEF PriceAgainstSum, Step
    <3>2. run'.pc = "panicked"
        BY <1>0, <3>1 DEF Turn
    <3> QED
        BY <3>2, RankBetween
  <2>4. CASE price # None
    <3>1. price \in Nat
        BY <2>2, <2>4, SelectorAssumption
    <3>2. PICK x : x = Scale - (price * Scale) \div run.sum
        OBVIOUS
    <3>3. x \in Int
      <4>1. Scale \in Nat /\ price * Scale \in Nat
          BY <3>1, SelectorAssumption
      <4>2. (price * Scale) \div run.sum \in Int
          BY <1>0, <4>1
      <4> QED
          BY <3>2, <4>1, <4>2
    <3>4. Step([run EXCEPT !.next = @ + 1, !.score = Weighted([p \in {run.models[run.next]} |-> x])])
        BY <1>2, <2>1, <2>4, <3>2 DEF PriceAgainstSum
    <3>5. PriceScore(run.models[run.next]) = enforceScoreRange(x)
        BY <2>1, <3>2 DEF PriceScore
    <3> QED
        BY <1>0, <1>2, <3>3, <3>4, <3>5, RankOnePrice
  <2> QED
      BY <2>3, <2>4
<1> QED
    BY <1>1, <1>2

LEMMA RankInflight ==
    ASSUME SelectorInv, RankInv, ReadInv, InflightScore
    PROVE  RankInv' /\ ReadInv'
<1>0. run.pc = "score" /\ run.rest # <<>> /\ Head(run.rest).kind = "inflight"
    BY DEF InflightScore, Scorer
<1>1. TypeOK /\ CacheInv /\ run \in Turn
    BY DEF SelectorInv, TypeOK
<1>2. run.models \in Seq(Models)
    BY <1>1 DEF Turn
<1>3. DOMAIN run.models = 1 .. Len(run.models) /\ Len(run.models) \in Nat
    BY <1>2
<1>4. PICK r : r = [run EXCEPT !.pc = "count"]
    OBVIOUS
<1>5. Step(r)
    BY <1>4 DEF InflightScore
<1>6. /\ r \in Turn /\ r.pc = "count" /\ r.models = run.models /\ r.prior = run.prior
      /\ r.rest = run.rest /\ r.score = run.score /\ r.next = run.next
    BY <1>1, <1>4 DEF Turn
<1>7. run' = r /\ UNCHANGED <<pipeline, attr, stable>>
    BY <1>1, <1>5, <1>6, StepTypes DEF Step
<1>8. RankInv'
    BY <1>0, <1>1, <1>6, <1>7, RankStays
<1>9. run'.next = 1 /\ run'.pc = "count" /\ run'.models = run.models
    BY <1>0, <1>6, <1>7 DEF ReadInv
<1>10. \A i \in DOMAIN run'.models : ~ (i < run'.next)
    BY <1>3, <1>9
<1>11. ReadInv'
    BY <1>9, <1>10 DEF ReadInv
<1> QED
    BY <1>8, <1>11

\* The in-flight scorer reads one more count.
LEMMA RankCountsOne ==
    ASSUME SelectorInv, RankInv, ReadInv, run.pc = "count", ~ (run.next > Len(run.models)),
           NEW next \in Nat, next = run.next + 1, NEW counts \in [Models -> Nat],
           counts = [run.counts EXCEPT ![run.models[run.next]] = Load(run.models[run.next])],
           Step([run EXCEPT !.next = next, !.counts = counts])
    PROVE  RankInv' /\ ReadInv'
<1>0. TypeOK /\ CacheInv /\ run \in Turn /\ Injective(run.models)
    BY DEF SelectorInv, TypeOK, TurnInv
<1>1. run.models \in Seq(Models) /\ run.next \in Nat \ {0} /\ run.counts \in [Models -> Nat]
    BY <1>0 DEF Turn
<1>2. DOMAIN run.models = 1 .. Len(run.models) /\ Len(run.models) \in Nat
    BY <1>1
<1>3. PICK r, o : r = [run EXCEPT !.next = next, !.counts = counts] /\ o = run.models[run.next]
    OBVIOUS
<1>4. next \in Nat \ {0}
    BY <1>1
<1>5. /\ r \in Turn /\ r.pc = "count" /\ r.models = run.models /\ r.prior = run.prior
      /\ r.rest = run.rest /\ r.score = run.score /\ r.next = next /\ r.counts = counts
    BY <1>0, <1>3, <1>4 DEF Turn
<1>6. Step(r) /\ run' = r
    BY <1>3 DEF Step
<1>7. UNCHANGED <<pipeline, attr, stable>>
    BY <1>0, <1>5, <1>6, StepTypes
<1>8. RankInv'
    BY <1>0, <1>5, <1>6, <1>7, RankStays
<1>9. o \in Models
    BY <1>0, <1>3, AtCandidate
<1>10. counts[o] = Load(o)
    BY <1>1, <1>3, <1>9
<1>11. ASSUME stable, NEW i \in DOMAIN run.models, i < next
       PROVE  counts[run.models[i]] = Load(run.models[i])
  <2>1. CASE run.models[i] = o
      BY <1>10, <2>1
  <2>2. CASE run.models[i] # o
    <3>1. i < run.next
        BY <1>1, <1>2, <1>3, <1>11, <2>2
    <3>2. run.models[i] \in Models
        BY <1>1, <1>11
    <3>3. counts[run.models[i]] = run.counts[run.models[i]]
        BY <1>1, <1>3, <2>2, <3>2
    <3> QED
        BY <1>11, <3>1, <3>3 DEF ReadInv
  <2> QED
      BY <2>1, <2>2
<1>12. \A p : Load(p)' = Load(p)
    BY <1>7 DEF Load
<1>13. /\ run'.pc = "count" /\ run'.models = run.models /\ run'.next = next
       /\ run'.counts = counts /\ (stable' => stable)
    BY <1>5, <1>6, <1>7
<1>14. ReadInv'
    BY <1>11, <1>12, <1>13, SMTT(20) DEF ReadInv
<1> QED
    BY <1>8, <1>14

\* The loads order the candidates by the in-flight scorer.
LEMMA LoadOrder ==
    ASSUME FineEnough, TypeOK, NEW most \in Nat, NEW least \in Nat, least < most,
           NEW a \in Nat, NEW b \in Nat, least <= a, a <= most, least <= b, b <= most,
           most \in Counts \cup {0}, Models # {}
    PROVE  /\ LeastLoadedFirst(most, least, a) \in 0 .. Scale
           /\ LeastLoadedFirst(most, least, b) \in 0 .. Scale
           /\ LeastLoadedFirst(most, least, a) <= LeastLoadedFirst(most, least, b) <=> b <= a
<1>1. IsFiniteSet(Models) /\ Scale \in Nat \ {0}
    BY SelectorAssumption
<1>2. PICK c : c = Cardinality(Models)
    OBVIOUS
<1>3. c \in Nat /\ c > 0
  <2>1. c \in Nat /\ c # 0
      BY <1>1, <1>2, FS_CardinalityType, FS_EmptySet
  <2> QED
      BY <2>1
<1>4. most * c <= Scale
    BY <1>1, <1>2, <1>3 DEF FineEnough
<1>5. most <= most * c
    BY <1>3
<1>6. PICK d, p, q : d = most - least /\ p = most - a /\ q = most - b
    OBVIOUS
<1>7. d \in Nat \ {0} /\ p \in 0 .. d /\ q \in 0 .. d /\ d <= most /\ (p <= q <=> b <= a)
    BY <1>6
<1>8. d <= Scale
  <2>1. PICK m : m = most * c
      OBVIOUS
  <2>2. m \in Nat /\ m <= Scale /\ most <= m
      BY <1>3, <1>4, <1>5, <2>1
  <2> QED
      BY <1>1, <1>7, <2>2
<1>9. /\ (p * Scale) \div d \in 0 .. Scale /\ (q * Scale) \div d \in 0 .. Scale
      /\ (p * Scale) \div d <= (q * Scale) \div d <=> p <= q
    BY <1>7, <1>8, Quotients
<1>10. LeastLoadedFirst(most, least, a) = (p * Scale) \div d
       /\ LeastLoadedFirst(most, least, b) = (q * Scale) \div d
    BY <1>6 DEF LeastLoadedFirst
<1> QED
    BY <1>7, <1>9, <1>10

\* The in-flight scorer returns.
LEMMA RankCounted ==
    ASSUME FineEnough, SelectorInv, RankInv, ReadInv, ReadCounts, run.next > Len(run.models)
    PROVE  RankInv' /\ ReadInv'
<1>0. /\ TypeOK /\ run \in Turn /\ Kept \in SUBSET Models /\ run.pc = "count" /\ run.models # <<>>
      /\ run.rest # <<>> /\ Head(run.rest).kind = "inflight" /\ run.counts \in [Models -> Nat]
    BY KeptModels DEF SelectorInv, TypeOK, TurnInv, ReadCounts, Choosing, Turn
<1> DEFINE counts == {run.counts[o] : o \in Kept}
           highest == CHOOSE n \in counts : \A k \in counts : k <= n
           lowest == CHOOSE n \in counts : \A k \in counts : n <= k
<1>1. PICK most, least : most = highest /\ least = lowest
    OBVIOUS
<1>2. /\ most \in Nat /\ least \in Nat /\ least <= most
      /\ most \in counts /\ \A k \in counts : least <= k /\ k <= most
    BY <1>0, <1>1, CountExtremes
<1>3. PICK raw : raw = [o \in Kept |-> IF most = least THEN Scale
                                       ELSE LeastLoadedFirst(most, least, run.counts[o])]
    OBVIOUS
<1>4. Step(Scored(raw)) /\ run' = Scored(raw)
    BY <1>1, <1>3 DEF ReadCounts, Step
<1>5. \A o \in Kept : run.counts[o] \in Nat /\ least <= run.counts[o] /\ run.counts[o] <= most
    BY <1>0, <1>2
<1>6. ReadInv'
    BY <1>0, <1>4, ScoredReads
<1>7. ASSUME stable, NEW o \in Kept
      PROVE  run.counts[o] = Load(o) /\ Load(o) \in Counts \cup {0}
  <2>1. run.counts[o] = Load(o)
      BY <1>0, <1>7, AllPast DEF ReadInv
  <2>2. attr[o].count \in Counts \cup {None}
      BY <1>0, <1>7 DEF TypeOK
  <2> QED
      BY <2>1, <2>2 DEF Load
<1>8. ASSUME stable, NEW o \in Kept, NEW p \in Kept
      PROVE  "inflight" \in Good[p][o] <=> run.counts[p] <= run.counts[o]
  <2>1. run.counts[p] = Load(p) /\ run.counts[o] = Load(o)
      BY <1>7, <1>8
  <2> QED
      BY <1>0, <2>1 DEF Good, AsGoodBy, Scorers
<1>9. CASE most = least
  <2>1. PICK x \in Int : x = Scale
      BY SelectorAssumption
  <2>2. raw = [o \in Kept |-> x]
      BY <1>3, <1>9, <2>1
  <2>3. ASSUME stable, NEW o \in Kept, NEW p \in Kept
        PROVE  "inflight" \in Good[p][o]
    <3>1. run.counts[p] <= run.counts[o]
        BY <1>2, <1>5, <1>9
    <3> QED
        BY <1>8, <2>3, <3>1
  <2>4. Step(Scored([o \in Kept |-> x]))
      BY <1>4, <2>2
  <2> QED
      BY <1>0, <2>3, <2>4, RankSame
<1>10. CASE most # least
  <2>1. \A o \in Kept : raw[o] = LeastLoadedFirst(most, least, run.counts[o])
      BY <1>3, <1>10
  <2>2. ASSUME NEW o \in Kept
        PROVE  raw[o] \in Int
    <3>1. PICK c : c = run.counts[o]
        OBVIOUS
    <3>2. c \in Nat /\ Scale \in Nat
        BY <1>5, <3>1, SelectorAssumption
    <3>3. most - least \in Nat /\ most - least > 0 /\ (most - c) * Scale \in Int
        BY <1>2, <1>10, <3>2
    <3>4. ((most - c) * Scale) \div (most - least) \in Int
        BY <3>3
    <3> QED
        BY <2>1, <3>1, <3>4 DEF LeastLoadedFirst
  <2>3. ASSUME stable, NEW o \in Kept, NEW p \in Kept
        PROVE  "inflight" \in Good[p][o] <=> enforceScoreRange(raw[o]) <= enforceScoreRange(raw[p])
    <3>1. PICK a, b, x, y : a = run.counts[o] /\ b = run.counts[p] /\ x = raw[o] /\ y = raw[p]
        OBVIOUS
    <3>2. a \in Nat /\ b \in Nat /\ least <= a /\ a <= most /\ least <= b /\ b <= most
        BY <1>5, <3>1
    <3>3. most \in Counts \cup {0}
      <4>1. PICK m \in Kept : most = run.counts[m]
          BY <1>2
      <4> QED
          BY <1>7, <2>3, <4>1
    <3>4. Models # {} /\ least < most
        BY <1>0, <1>2, <1>10
    <3>5. x = LeastLoadedFirst(most, least, a) /\ y = LeastLoadedFirst(most, least, b)
        BY <2>1, <3>1
    <3>6. x \in 0 .. Scale /\ y \in 0 .. Scale /\ (x <= y <=> b <= a)
        BY <1>0, <1>2, <3>2, <3>3, <3>4, <3>5, LoadOrder
    <3>7. enforceScoreRange(x) = x /\ enforceScoreRange(y) = y
        BY <3>6, SelectorAssumption DEF enforceScoreRange
    <3>8. "inflight" \in Good[p][o] <=> b <= a
        BY <1>8, <2>3, <3>1
    <3> QED
        BY <3>1, <3>6, <3>7, <3>8
  <2>4. DOMAIN raw = Kept
      BY <1>3
  <2>5. RankInv'
      BY <1>0, <1>4, <2>2, <2>3, <2>4, RankReturns, SMTT(30)
  <2> QED
      BY <1>6, <2>5
<1> QED
    BY <1>9, <1>10

LEMMA RankCounts ==
    ASSUME FineEnough, SelectorInv, RankInv, ReadInv, ReadCounts
    PROVE  RankInv' /\ ReadInv'
<1>0. TypeOK /\ run \in Turn /\ run.pc = "count"
    BY DEF SelectorInv, TypeOK, ReadCounts
<1>1. CASE run.next > Len(run.models)
    BY <1>1, RankCounted
<1>2. CASE ~ (run.next > Len(run.models))
  <2>1. PICK o, next, n : o = run.models[run.next] /\ next = run.next + 1 /\ n = Load(o)
      OBVIOUS
  <2>2. o \in Models /\ next \in Nat
      BY <1>0, <1>2, <2>1, AtCandidate
  <2>3. n \in Nat
    <3>1. attr[o].count \in Counts \cup {None}
        BY <1>0, <2>2 DEF TypeOK
    <3> QED
        BY <2>1, <3>1, SelectorAssumption DEF Load
  <2>4. PICK counts : counts = [run.counts EXCEPT ![o] = n]
      OBVIOUS
  <2>5. counts \in [Models -> Nat]
      BY <1>0, <2>2, <2>3, <2>4 DEF Turn
  <2>6. Step([run EXCEPT !.next = next, !.counts = counts])
      BY <1>2, <2>1, <2>4 DEF ReadCounts, Load
  <2>7. counts = [run.counts EXCEPT ![run.models[run.next]] = Load(run.models[run.next])]
      BY <2>1, <2>4
  <2> QED
      BY <1>0, <1>2, <2>1, <2>2, <2>5, <2>6, <2>7, RankCountsOne
<1> QED
    BY <1>1, <1>2

LEMMA RankPick ==
    ASSUME SelectorInv, RankInv, NEW o \in Models, Pick(o)
    PROVE  RankInv' /\ ReadInv'
<1>0. TypeOK /\ CacheInv /\ run \in Turn
    BY DEF SelectorInv, TypeOK
<1>1. PICK r : r = [run EXCEPT !.pc = "forwarded", !.picked = o]
    OBVIOUS
<1>2. run.pc = "score" /\ Step(r) /\ run' = r
    BY <1>1 DEF Pick, Step
<1>3. /\ r \in Turn /\ r.pc = "forwarded" /\ r.models = run.models /\ r.prior = run.prior
      /\ r.rest = run.rest /\ r.score = run.score
    BY <1>0, <1>1 DEF Turn
<1>4. UNCHANGED <<pipeline, attr, stable>>
    BY <1>0, <1>2, <1>3, StepTypes
<1>5. RankInv'
    BY <1>0, <1>2, <1>3, <1>4, RankStays
<1>6. ReadInv'
    BY <1>2, <1>3 DEF ReadInv
<1> QED
    BY <1>5, <1>6

LEMMA RankInit == Init => RankInv /\ ReadInv
<1> SUFFICES ASSUME Init
             PROVE  RankInv /\ ReadInv
    OBVIOUS
<1>1. run.pc = "idle"
    BY DEF Init, NoTurn
<1> QED
    BY <1>1 DEF RankInv, ReadInv, Choosing

LEMMA RankNext ==
    ASSUME FineEnough, SelectorInv, RankInv, ReadInv, [Next]_vars
    PROVE  RankInv' /\ ReadInv'
<1>1. CASE UNCHANGED vars \/ Expire
  <2>1. UNCHANGED <<run, pipeline, stable, attr>>
      BY <1>1 DEF vars, storeVars, Expire
  <2> QED
      BY <2>1, RankKept
<1>2. CASE \/ \E o \in Models : CreateModel(o) \/ DeleteModel(o) \/ PutAttribute(o)
           \/ \E s \in Sessions, m \in Names : OtherResponse(s, m)
  <2>1. ~ stable' /\ UNCHANGED <<run, pipeline>>
      BY <1>2 DEF CreateModel, DeleteModel, PutAttribute, OtherResponse, Change
  <2> QED
      BY <2>1, RankKept
<1>3. CASE ProcessRequest
    BY <1>3, RankRequests
<1>4. CASE Filter \/ FilterGroup
    BY <1>4, RankFilters
<1>5. CASE CostGuardScore
    BY <1>5, RankCostGuard
<1>6. CASE CostScore
    BY <1>6, RankCostScore
<1>7. CASE SumPrices
    BY <1>7, RankSums
<1>8. CASE PriceAgainstSum
    BY <1>8, RankPrices
<1>9. CASE InflightScore
    BY <1>9, RankInflight
<1>10. CASE ReadCounts
    BY <1>10, RankCounts
<1>11. CASE SessionScore
    BY <1>11, RankSession
<1>12. CASE \E o \in Models : Pick(o)
    BY <1>12, RankPick
<1>13. CASE ProcessResponse \/ EndTurn
    BY <1>13, RankEnds
<1> QED
    BY <1>1, <1>2, <1>3, <1>4, <1>5, <1>6, <1>7, <1>8, <1>9, <1>10, <1>11, <1>12, <1>13 DEF Next

\* The max-score picker never takes a model that another candidate dominates, for any
\* number of models and scorers and any weights, as long as Scale-ths are fine enough
\* to tell prices and counts apart: normalising, forcing into the range, weighting and
\* adding up keep the order (runScorerPlugins, MaxScorePicker.Pick).
THEOREM SelectorNotDominated ==
    ASSUME FineEnough
    PROVE  Spec => []NotDominated
<1>1. ASSUME SelectorInv, RankInv
      PROVE  NotDominated
  <2> SUFFICES ASSUME run.pc = "forwarded", pipeline.picker = "max-score", stable,
                      NEW p \in Kept, AtLeastAsGood(p, run.picked)
               PROVE  AtLeastAsGood(run.picked, p)
      BY DEF NotDominated
  <2>1. /\ run \in Turn /\ run.picked \in Kept /\ run.rest = <<>> /\ run.picked \in Best
        /\ Kept \in SUBSET Models
      BY <1>1, KeptModels DEF SelectorInv, TypeOK, TurnInv, ScoreInv
  <2>2. PICK done \in Seq(Weighting), base \in [Models -> Int] : RankedAfter(done, base)
      BY <1>1 DEF RankInv, Choosing
  <2>3. pipeline.scorers = done
    <3>1. done \o <<>> = done
        BY ConcatEmptySeq
    <3> QED
        BY <2>1, <2>2, <3>1 DEF RankedAfter
  <2>4. PICK o, K, G : o = run.picked /\ K = Weighing(done) /\ G = Good
      OBVIOUS
  <2>5. o \in Models /\ p \in Models /\ o \in Kept
      BY <2>1, <2>4
  <2>6. K = {k \in Scorers : WeightOf(k) > 0}
      BY <2>3, <2>4 DEF Weighing, WeightOf
  <2>7. ASSUME NEW m \in Models, NEW n \in Models
        PROVE  AtLeastAsGood(m, n) <=> K \subseteq G[m][n]
    <3>1. G[m][n] = AsGoodBy(m, n)
        BY <2>4 DEF Good
    <3> QED
        BY <2>6, <3>1 DEF AtLeastAsGood, AsGoodBy, Scorers
  <2>8. base[p] <= base[o]
    <3>1. run.score[p] = base[p] + 0 /\ run.score[o] = base[o] + 0
        BY <2>2, <2>5 DEF RankedAfter, PriceAdded
    <3>2. run.score[p] <= run.score[o] /\ base[p] \in Int /\ base[o] \in Int
        BY <2>1, <2>4, <2>5 DEF Best
    <3> QED
        BY <3>1, <3>2
  <2>9. K \subseteq G[p][o]
      BY <2>4, <2>5, <2>7
  <2>10. base[o] <= base[p] /\ (base[o] = base[p] => K \subseteq G[o][p])
      BY <2>2, <2>4, <2>5, <2>9 DEF RankedAfter, OutOfOrder
  <2>11. K \subseteq G[o][p]
    <3>1. base[o] \in Int /\ base[p] \in Int
        BY <2>5
    <3> QED
        BY <2>8, <2>10, <3>1
  <2> QED
      BY <2>4, <2>5, <2>7, <2>11
<1>2. Init => SelectorInv /\ RankInv /\ ReadInv
    BY SelectorInit, RankInit
<1>3. ASSUME SelectorInv, RankInv, ReadInv, [Next]_vars
      PROVE  SelectorInv' /\ RankInv' /\ ReadInv'
    BY <1>3, SelectorStep, RankNext
<1> QED
    BY <1>1, <1>2, <1>3, PTL DEF Spec
=============================================================================
