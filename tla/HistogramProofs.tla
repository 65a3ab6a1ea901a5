---------------------------- MODULE HistogramProofs ----------------------------
(***************************************************************************)
(* Whoever holds the histogram's lock finds it consistent, and a percentile *)
(* is a quantile; what is read without the lock is ordered, off by one at  *)
(* most, fits the values, and never goes back from scrape to scrape.       *)
(***************************************************************************)
EXTENDS Exposition, SequenceLemmas

\* The places of the values up to the i-th bound, and their number.
Fitting(vs, i) == {m \in 1..Len(vs) : vs[m] <= Bounds[i]}
UpTo(vs, i) == Cardinality(Fitting(vs, i))

LEMMA BoundsType ==
  /\ Len(Bounds) \in Nat /\ Len(Bounds) > 0 /\ Values \subseteq Nat
  /\ \A i \in Buckets : i \in Nat /\ Bounds[i] \in Nat
  /\ \A i, j \in Buckets : i < j => Bounds[i] < Bounds[j]
<1>1. \A i \in 1..Len(Bounds) : Bounds[i] \in Nat
  BY HistogramAssumption, ElementOfSeq DEF HistogramAssumption
<1> QED BY <1>1, HistogramAssumption DEF HistogramAssumption, Buckets

LEMMA UpToType ==
  ASSUME NEW vs \in Seq(Values), NEW i \in Buckets
  PROVE  IsFiniteSet(Fitting(vs, i)) /\ UpTo(vs, i) \in Nat /\ UpTo(vs, i) <= Len(vs)
<1>1. Len(vs) \in Nat
  OBVIOUS
<1>2. IsFiniteSet(1..Len(vs)) /\ Cardinality(1..Len(vs)) = Len(vs)
  <2>1. 1 \in Int /\ Len(vs) \in Int
    BY <1>1
  <2>2. IsFiniteSet(1..Len(vs)) /\ Cardinality(1..Len(vs)) = IF 1 > Len(vs) THEN 0 ELSE Len(vs) - 1 + 1
    BY <2>1, FS_Interval
  <2> QED BY <1>1, <2>2
<1>3. Fitting(vs, i) \subseteq 1..Len(vs)
  BY DEF Fitting
<1> QED BY <1>2, <1>3, FS_Subset, FS_CardinalityType DEF UpTo

LEMMA UpToMonotone ==
  ASSUME NEW vs \in Seq(Values), NEW i \in Buckets, NEW j \in Buckets, i < j
  PROVE  UpTo(vs, i) <= UpTo(vs, j)
<1>1. Fitting(vs, i) \subseteq Fitting(vs, j)
  <2> SUFFICES ASSUME NEW m \in 1..Len(vs), vs[m] <= Bounds[i] PROVE vs[m] <= Bounds[j]
    BY DEF Fitting
  <2>1. vs[m] \in Nat
    BY BoundsType, ElementOfSeq
  <2> QED BY <2>1, BoundsType
<1> QED BY <1>1, UpToType, FS_Subset DEF UpTo

LEMMA UpToAppended ==
  ASSUME NEW vs \in Seq(Values), NEW v \in Values, NEW i \in Buckets
  PROVE  UpTo(Append(vs, v), i) = UpTo(vs, i) + IF v <= Bounds[i] THEN 1 ELSE 0
<1>1. PICK ws \in Seq(Values) : /\ ws = Append(vs, v) /\ Len(ws) = Len(vs) + 1
                                /\ ws[Len(vs) + 1] = v
                                /\ \A m \in 1..Len(vs) : ws[m] = vs[m]
  <2>1. PICK ws : ws = Append(vs, v)
    OBVIOUS
  <2>2. /\ ws \in Seq(Values) /\ Len(ws) = Len(vs) + 1 /\ ws[Len(vs) + 1] = v
        /\ \A m \in 1..Len(vs) : ws[m] = vs[m]
    BY <2>1, AppendProperties
  <2> QED BY <2>1, <2>2
<1>2. Len(vs) \in Nat /\ Len(vs) + 1 \notin 1..Len(vs)
  OBVIOUS
<1>3. 1..Len(ws) = (1..Len(vs)) \cup {Len(vs) + 1}
  BY <1>1, <1>2
<1>4. CASE v <= Bounds[i]
  <2>1. Fitting(ws, i) = Fitting(vs, i) \cup {Len(vs) + 1}
    BY <1>1, <1>2, <1>3, <1>4 DEF Fitting
  <2>2. Len(vs) + 1 \notin Fitting(vs, i)
    BY <1>2 DEF Fitting
  <2>3. UpTo(ws, i) = UpTo(vs, i) + 1
    BY <2>1, <2>2, UpToType, FS_AddElement DEF UpTo
  <2> QED BY <1>1, <1>4, <2>3
<1>5. CASE ~(v <= Bounds[i])
  <2>1. Fitting(ws, i) = Fitting(vs, i)
    BY <1>1, <1>2, <1>3, <1>5 DEF Fitting
  <2>2. UpTo(ws, i) = UpTo(vs, i)
    BY <2>1 DEF UpTo
  <2> QED BY <1>1, <1>5, <2>2, UpToType
<1> QED BY <1>4, <1>5

-----------------------------------------------------------------------------
\* A series that nobody is observing, one that a thread is observing v for and has
\* come to p, and what is true of both.
Agrees(d) ==
  /\ d.count = Len(d.values)
  /\ \A i \in Buckets : d.buckets[i] = UpTo(d.values, i)

Partly(d, v, p) ==
  /\ d.count = Len(d.values) + (IF p = 0 THEN 1 ELSE 0)
  /\ \A i \in Buckets :
       d.buckets[i] = UpTo(d.values, i) - (IF 0 < p /\ p <= i /\ v <= Bounds[i] THEN 1 ELSE 0)

Lags(d) ==
  /\ Len(d.values) <= d.count
  /\ \A i \in Buckets : d.buckets[i] <= UpTo(d.values, i) /\ UpTo(d.values, i) <= d.buckets[i] + 1

\* No field goes back.
Grows(d, e) == d.count <= e.count /\ \A i \in Buckets : d.buckets[i] <= e.buckets[i]

LEMMA DataFields ==
  ASSUME NEW d \in DataType
  PROVE  /\ d.count \in Nat /\ d.sum \in Nat /\ d.values \in Seq(Values)
         /\ d.buckets \in [Buckets -> Nat] /\ Len(d.values) \in Nat
BY DEF DataType

LEMMA EmptyAgrees == EmptyData \in DataType /\ Agrees(EmptyData)
<1>1. EmptyData \in DataType
  BY DEF EmptyData, DataType
<1>2. \A i \in Buckets : UpTo(EmptyData.values, i) = 0
  <2> SUFFICES ASSUME NEW i \in Buckets PROVE UpTo(EmptyData.values, i) = 0
    OBVIOUS
  <2>1. Fitting(EmptyData.values, i) = {}
    BY DEF Fitting, EmptyData
  <2> QED BY <2>1, FS_EmptySet DEF UpTo
<1>3. \A i \in Buckets : EmptyData.buckets[i] = 0
  BY DEF EmptyData
<1>4. EmptyData.count = Len(EmptyData.values)
  BY DEF EmptyData
<1> QED BY <1>1, <1>2, <1>3, <1>4 DEF Agrees

LEMMA CountIncremented ==
  ASSUME NEW d \in DataType, Agrees(d), NEW v \in Values
  PROVE  LET e == [d EXCEPT !.count = @ + 1] IN
           e \in DataType /\ Partly(e, v, 0) /\ Grows(d, e)
<1> DEFINE e == [d EXCEPT !.count = @ + 1]
<1>1. /\ e \in DataType /\ e.count = d.count + 1
      /\ e.values = d.values /\ e.buckets = d.buckets
  BY DEF DataType
<1> HIDE DEF e
<1>2. \A i \in Buckets : UpTo(d.values, i) \in Nat
  BY DataFields, UpToType
<1>3. Partly(e, v, 0)
  BY <1>1, <1>2, DataFields DEF Agrees, Partly
<1>4. Grows(d, e)
  BY <1>1, DataFields DEF Grows
<1> QED BY <1>1, <1>3, <1>4 DEF e

LEMMA ValueAdded ==
  ASSUME NEW d \in DataType, NEW v \in Values, Partly(d, v, 0)
  PROVE  LET e == [d EXCEPT !.sum = @ + v, !.values = Append(@, v)] IN
           e \in DataType /\ Partly(e, v, 1) /\ Grows(d, e)
<1> DEFINE e == [d EXCEPT !.sum = @ + v, !.values = Append(@, v)]
<1>0. /\ d.sum + v \in Nat /\ Append(d.values, v) \in Seq(Values)
      /\ Len(Append(d.values, v)) = Len(d.values) + 1
  BY DataFields, BoundsType, AppendProperties
<1>1. /\ e \in DataType /\ e.count = d.count
      /\ e.values = Append(d.values, v) /\ e.buckets = d.buckets
  BY <1>0 DEF DataType
<1> HIDE DEF e
<1>2. e.count = Len(e.values)
  BY <1>0, <1>1, DataFields DEF Partly
<1>3. ASSUME NEW i \in Buckets
      PROVE  e.buckets[i] = UpTo(e.values, i)
                            - (IF 0 < 1 /\ 1 <= i /\ v <= Bounds[i] THEN 1 ELSE 0)
  <2>1. PICK n \in Nat : n = UpTo(d.values, i) /\ d.buckets[i] = n
    BY DataFields, UpToType DEF Partly
  <2>2. UpTo(e.values, i) = n + IF v <= Bounds[i] THEN 1 ELSE 0
    BY <1>1, <2>1, DataFields, UpToAppended
  <2>3. 1 <= i
    BY DEF Buckets
  <2> QED BY <1>1, <2>1, <2>2, <2>3
<1>4. Partly(e, v, 1)
  <2>1. e.count = Len(e.values) + (IF 1 = 0 THEN 1 ELSE 0)
    BY <1>1, <1>2, DataFields
  <2> QED BY <1>3, <2>1 DEF Partly
<1>5. Grows(d, e)
  BY <1>1, DataFields DEF Grows
<1> QED BY <1>1, <1>4, <1>5 DEF e

LEMMA BucketCounted ==
  ASSUME NEW d \in DataType, NEW v \in Values, NEW i \in Buckets, Partly(d, v, i)
  PROVE  LET e == [d EXCEPT !.buckets[i] = @ + IF v <= Bounds[i] THEN 1 ELSE 0] IN
           /\ e \in DataType /\ Grows(d, e)
           /\ IF i < Len(Bounds) THEN Partly(e, v, i + 1) ELSE Agrees(e)
<1> DEFINE e == [d EXCEPT !.buckets[i] = @ + IF v <= Bounds[i] THEN 1 ELSE 0]
<1>0. PICK x \in {0, 1} : x = IF v <= Bounds[i] THEN 1 ELSE 0
  OBVIOUS
<1>1. /\ e \in DataType /\ e.count = d.count /\ e.values = d.values
      /\ e.buckets[i] = d.buckets[i] + x
      /\ \A j \in Buckets \ {i} : e.buckets[j] = d.buckets[j]
  <2>1. e = [d EXCEPT !.buckets = [d.buckets EXCEPT ![i] = @ + x]]
    BY <1>0
  <2>2. PICK b : b = [d.buckets EXCEPT ![i] = @ + x]
    OBVIOUS
  <2>3. /\ b \in [Buckets -> Nat] /\ b[i] = d.buckets[i] + x
        /\ \A j \in Buckets \ {i} : b[j] = d.buckets[j]
    BY <2>2, DataFields
  <2>4. e = [d EXCEPT !.buckets = b]
    BY <2>1, <2>2
  <2> HIDE DEF e
  <2>5. e \in DataType /\ e.count = d.count /\ e.values = d.values /\ e.buckets = b
    BY <2>3, <2>4 DEF DataType
  <2> QED BY <2>3, <2>5
<1> HIDE DEF e
<1>2. i \in Nat /\ 0 < i /\ i <= Len(Bounds) /\ Len(Bounds) \in Nat
  BY BoundsType DEF Buckets
<1>3. e.count = Len(e.values)
  <2>1. PICK n \in Nat : n = Len(d.values)
    BY DataFields
  <2>2. i # 0
    BY <1>2
  <2>3. d.count = n + (IF i = 0 THEN 1 ELSE 0)
    BY <2>1 DEF Partly
  <2>4. d.count = n
    BY <2>2, <2>3
  <2> QED BY <1>1, <2>1, <2>4
<1>4. ASSUME NEW j \in Buckets
      PROVE  e.buckets[j] = UpTo(e.values, j) - (IF i + 1 <= j /\ v <= Bounds[j] THEN 1 ELSE 0)
  <2>1. PICK n \in Nat : n = UpTo(d.values, j)
    BY DataFields, UpToType
  <2>2. d.buckets[j] = n - (IF i <= j /\ v <= Bounds[j] THEN 1 ELSE 0)
    BY <1>2, <2>1 DEF Partly
  <2>3. CASE j = i
    BY <1>0, <1>1, <1>2, <2>1, <2>2, <2>3
  <2>4. CASE j # i
    <3>1. i <= j <=> i + 1 <= j
      BY <1>2, <2>4 DEF Buckets
    <3> QED BY <1>1, <2>1, <2>2, <2>4, <3>1
  <2> QED BY <2>3, <2>4
<1>5. Grows(d, e)
  <2>1. ASSUME NEW j \in Buckets PROVE d.buckets[j] <= e.buckets[j]
    <3>1. CASE j = i
      BY <1>0, <1>1, <3>1, DataFields
    <3>2. CASE j # i
      BY <1>1, <3>2, DataFields
    <3> QED BY <3>1, <3>2
  <2> QED BY <1>1, <2>1, DataFields DEF Grows
<1>6. CASE i < Len(Bounds)
  <2>1. e.count = Len(e.values) + (IF i + 1 = 0 THEN 1 ELSE 0)
    <3>1. PICK n \in Nat : n = Len(e.values)
      BY <1>1, DataFields
    <3>2. i + 1 # 0
      BY <1>2
    <3> QED BY <1>3, <3>1, <3>2
  <2>2. \A j \in Buckets :
          e.buckets[j] = UpTo(e.values, j)
                         - (IF 0 < i + 1 /\ i + 1 <= j /\ v <= Bounds[j] THEN 1 ELSE 0)
    BY <1>2, <1>4
  <2>3. Partly(e, v, i + 1)
    BY <2>1, <2>2 DEF Partly
  <2> QED BY <1>1, <1>5, <1>6, <2>3 DEF e
<1>7. CASE ~(i < Len(Bounds))
  <2>1. ASSUME NEW j \in Buckets PROVE e.buckets[j] = UpTo(e.values, j)
    <3>1. ~(i + 1 <= j)
      BY <1>2, <1>7 DEF Buckets
    <3>2. UpTo(e.values, j) \in Nat
      BY <1>1, DataFields, UpToType
    <3> QED BY <1>4, <3>1, <3>2
  <2>2. Agrees(e)
    BY <1>3, <2>1 DEF Agrees
  <2> QED BY <1>1, <1>5, <1>7, <2>2 DEF e
<1> QED BY <1>6, <1>7

LEMMA AgreesLags ==
  ASSUME NEW d \in DataType, Agrees(d)
  PROVE  Lags(d)
<1>1. \A i \in Buckets : UpTo(d.values, i) \in Nat
  BY DataFields, UpToType
<1> QED BY <1>1, DataFields DEF Agrees, Lags

LEMMA PartlyLags ==
  ASSUME NEW d \in DataType, NEW v, NEW p, Partly(d, v, p)
  PROVE  Lags(d)
<1>1. Len(d.values) <= d.count
  <2>1. PICK x \in {0, 1} : x = IF p = 0 THEN 1 ELSE 0
    OBVIOUS
  <2>2. PICK n \in Nat : n = Len(d.values)
    BY DataFields
  <2>3. d.count = n + x
    BY <2>1, <2>2 DEF Partly
  <2> QED BY <2>2, <2>3
<1>2. ASSUME NEW i \in Buckets
      PROVE  d.buckets[i] <= UpTo(d.values, i) /\ UpTo(d.values, i) <= d.buckets[i] + 1
  <2>1. PICK x \in {0, 1} : x = IF 0 < p /\ p <= i /\ v <= Bounds[i] THEN 1 ELSE 0
    OBVIOUS
  <2>2. PICK n \in Nat : n = UpTo(d.values, i)
    BY DataFields, UpToType
  <2>3. d.buckets[i] = n - x
    BY <2>1, <2>2 DEF Partly
  <2> QED BY <2>2, <2>3
<1> QED BY <1>1, <1>2 DEF Lags

-----------------------------------------------------------------------------
\* The lock admits one thread, and what it is about says how far its series lags.
DataInv ==
  /\ \A t, u \in DOMAIN observing : t = u
  /\ \A k \in DOMAIN data :
       (\A t \in DOMAIN observing : observing[t].key # k) => Agrees(data[k])
  /\ \A t \in DOMAIN observing :
       Partly(data[observing[t].key], observing[t].value, observing[t].at)

\* What was read is not more than what is there now; what was read earlier, no more
\* than a count read later.
ReadOrdered ==
  \A k \in DOMAIN page : LET s == page[k] IN
    \A i, j \in 1..Len(s) : (i < j /\ i # Sum /\ j \in {Inf, Count}) => s[i] <= s[j]
PageInv ==
  /\ \A k \in DOMAIN page : \A n \in 1..Len(page[k]) :
       n # Sum => page[k][n] <= Field(data[k], n)
  /\ ReadOrdered /\ SkewAtMostOne

HistInv == TypeOK /\ DataInv /\ PageInv

LEMMA NoneObserving ==
  ASSUME LockFree
  PROVE  DOMAIN observing = {}
BY DEF LockFree

LEMMA FieldType ==
  ASSUME NEW d \in DataType, NEW n \in Nat
  PROVE  Field(d, n) \in Nat
<1>1. CASE n \in Buckets
  BY <1>1, DataFields DEF Field
<1>2. CASE n \notin Buckets
  BY <1>2, DataFields DEF Field
<1> QED BY <1>1, <1>2

LEMMA FieldGrows ==
  ASSUME NEW d \in DataType, NEW e \in DataType, Grows(d, e), NEW n \in Nat, n # Sum
  PROVE  Field(d, n) <= Field(e, n)
<1>1. CASE n \in Buckets
  BY <1>1 DEF Field, Grows
<1>2. CASE n \notin Buckets
  BY <1>2 DEF Field, Grows
<1> QED BY <1>1, <1>2

\* A thread that writes to a series disturbs no page.
LEMMA DataStep ==
  ASSUME TypeOK, PageInv, NEW k \in Keys, NEW e \in DataType, data' = Put(data, k, e),
         k \in DOMAIN data => Grows(data[k], e), UNCHANGED renderer
  PROVE  /\ PageInv'
         /\ DOMAIN data' = DOMAIN data \cup {k} /\ data'[k] = e
         /\ \A x \in DOMAIN data : x # k => data'[x] = data[x]
         /\ DOMAIN data' \subseteq Keys /\ data' \in [DOMAIN data' -> DataType]
<1>1. /\ DOMAIN data' = DOMAIN data \cup {k} /\ data'[k] = e
      /\ \A x \in DOMAIN data : x # k => data'[x] = data[x]
      /\ data' \in [DOMAIN data' -> DataType]
  <2>1. data' = [x \in DOMAIN data \cup {k} |-> IF x = k THEN e ELSE data[x]]
    BY DEF Put
  <2>2. \A x \in DOMAIN data : data[x] \in DataType
    BY DEF TypeOK
  <2> QED BY <2>1, <2>2
<1>2. page' = page
  BY DEF renderer
<1>3. \A x \in DOMAIN page : \A n \in 1..Len(page[x]) :
        n # Sum => page[x][n] <= Field(data'[x], n)
  <2> SUFFICES ASSUME NEW x \in DOMAIN page, NEW n \in 1..Len(page[x]), n # Sum
               PROVE  page[x][n] <= Field(data'[x], n)
    OBVIOUS
  <2>1. x \in DOMAIN data /\ data[x] \in DataType /\ page[x] \in Seq(Nat)
    BY DEF TypeOK
  <2>2. n \in Nat /\ page[x][n] \in Nat
    BY <2>1, ElementOfSeq
  <2>3. page[x][n] <= Field(data[x], n)
    BY DEF PageInv
  <2>4. Field(data[x], n) <= Field(data'[x], n)
    <3>1. CASE x = k
      BY <1>1, <2>1, <2>2, <3>1, FieldGrows
    <3>2. CASE x # k
      BY <1>1, <2>1, <2>2, <3>2, FieldType
    <3> QED BY <3>1, <3>2
  <2>5. data'[x] \in DataType
    BY <1>1, <2>1
  <2>6. PICK a \in Nat, b \in Nat : a = Field(data[x], n) /\ b = Field(data'[x], n)
    BY <2>1, <2>2, <2>5, FieldType
  <2> QED BY <2>2, <2>3, <2>4, <2>6
<1>4. ReadOrdered' /\ SkewAtMostOne'
  BY <1>2 DEF PageInv, ReadOrdered, SkewAtMostOne
<1>5. PageInv'
  BY <1>2, <1>3, <1>4 DEF PageInv
<1> QED BY <1>1, <1>5 DEF TypeOK

\* The types of what the renderer has in hand, while it does nothing.
LEMMA RendererTypes ==
  ASSUME TypeOK, UNCHANGED renderer, DOMAIN data \subseteq DOMAIN data'
  PROVE  /\ scraping' \in BOOLEAN /\ todo' \subseteq DOMAIN data'
         /\ DOMAIN page' \subseteq DOMAIN data' /\ page' \in [DOMAIN page' -> Seq(Nat)]
         /\ DOMAIN lastPage' \subseteq DOMAIN data'
         /\ lastPage' \in [DOMAIN lastPage' -> Seq(Nat)]
<1>1. scraping' = scraping /\ todo' = todo /\ page' = page /\ lastPage' = lastPage
  BY DEF renderer
<1> QED BY <1>1 DEF TypeOK

Places == [key : DOMAIN data, value : Values, at : 0..Len(Bounds)]

LEMMA ObserveInv ==
  ASSUME HistInv, NEW t \in Threads, NEW k \in Keys, NEW v \in Values, Observe(t, k, v)
  PROVE  HistInv'
<1>1. PICK d \in DataType : d = GetData(k) /\ Agrees(d) /\ (k \in DOMAIN data => d = data[k])
  <2>1. CASE k \in DOMAIN data
    <3>1. DOMAIN observing = {}
      BY NoneObserving DEF Observe
    <3> QED BY <2>1, <3>1 DEF GetData, HistInv, TypeOK, DataInv
  <2>2. CASE k \notin DOMAIN data
    BY <2>2, EmptyAgrees DEF GetData
  <2> QED BY <2>1, <2>2
<1>2. PICK e \in DataType : /\ e = [d EXCEPT !.count = @ + 1]
                            /\ Partly(e, v, 0) /\ Grows(d, e)
  BY <1>1, CountIncremented
<1>3. data' = Put(data, k, e) /\ UNCHANGED renderer
  BY <1>1, <1>2 DEF Observe
<1>4. /\ PageInv' /\ DOMAIN data' = DOMAIN data \cup {k} /\ data'[k] = e
      /\ \A x \in DOMAIN data : x # k => data'[x] = data[x]
      /\ DOMAIN data' \subseteq Keys /\ data' \in [DOMAIN data' -> DataType]
  BY <1>1, <1>2, <1>3, DataStep DEF HistInv
<1>5. PICK r : r = [key |-> k, value |-> v, at |-> 0]
  OBVIOUS
<1>6. r.key = k /\ r.value = v /\ r.at = 0
  BY <1>5
<1>7. r \in Places'
  <2>1. 0 \in 0..Len(Bounds) /\ k \in DOMAIN data'
    BY <1>4, BoundsType
  <2> QED BY <1>5, <2>1 DEF Places
<1>8. DOMAIN observing' = {t} /\ observing'[t] = r
  <2>1. DOMAIN observing = {}
    BY NoneObserving DEF Observe
  <2>2. observing' = Put(observing, t, r)
    BY <1>5 DEF Observe
  <2> QED BY <2>1, <2>2 DEF Put
<1>9. observing' = [u \in {t} |-> r]
  <2>1. observing' = Put(observing, t, r)
    BY <1>5 DEF Observe
  <2>2. DOMAIN observing = {}
    BY NoneObserving DEF Observe
  <2> QED BY <2>1, <2>2 DEF Put
<1>10. observing' \in [DOMAIN observing' -> Places']
  BY <1>7, <1>8, <1>9
<1>11. TypeOK'
  <2>1. DOMAIN data \subseteq DOMAIN data'
    BY <1>4
  <2> QED BY <1>3, <1>4, <1>8, <1>10, <2>1, RendererTypes DEF TypeOK, HistInv, Places
<1>12. DataInv'
  <2>1. DOMAIN observing = {}
    BY NoneObserving DEF Observe
  <2>2. \A x \in DOMAIN data' : x # k => Agrees(data'[x])
    BY <1>4, <2>1 DEF HistInv, DataInv
  <2> QED BY <1>2, <1>4, <1>6, <1>8, <2>2 DEF DataInv
<1> QED BY <1>4, <1>11, <1>12 DEF HistInv

\* A thread inside observe() goes from one place to the next.
LEMMA PlaceInv ==
  ASSUME HistInv, NEW t \in DOMAIN observing, NEW e \in DataType, NEW p \in 0..Len(Bounds),
         data' = Put(data, observing[t].key, e), Grows(data[observing[t].key], e),
         Partly(e, observing[t].value, p),
         observing' = [observing EXCEPT ![t].at = p], UNCHANGED renderer
  PROVE  HistInv'
<1>1. PICK r \in Places : r = observing[t]
  BY DEF HistInv, TypeOK, Places
<1>2. PICK k \in DOMAIN data : k = r.key
  BY <1>1 DEF Places
<1>3. k \in Keys /\ data[k] \in DataType
  BY <1>2 DEF HistInv, TypeOK
<1>4. /\ PageInv' /\ DOMAIN data' = DOMAIN data \cup {k} /\ data'[k] = e
      /\ \A x \in DOMAIN data : x # k => data'[x] = data[x]
      /\ DOMAIN data' \subseteq Keys /\ data' \in [DOMAIN data' -> DataType]
  BY <1>1, <1>2, <1>3, DataStep DEF HistInv
<1>5. DOMAIN data' = DOMAIN data
  BY <1>2, <1>4
<1>6. PICK q \in Places : q = [r EXCEPT !.at = p] /\ q.key = k /\ q.value = r.value /\ q.at = p
  <2>1. PICK q : q = [r EXCEPT !.at = p]
    OBVIOUS
  <2>2. q \in Places /\ q.key = r.key /\ q.value = r.value /\ q.at = p
    BY <2>1 DEF Places
  <2> QED BY <1>2, <2>1, <2>2
<1>7. DOMAIN observing = {t}
  BY DEF HistInv, DataInv
<1>8. observing' = [observing EXCEPT ![t] = q]
  BY <1>1, <1>6
<1>9. DOMAIN observing' = {t} /\ observing'[t] = q /\ observing' \in [{t} -> Places]
  BY <1>7, <1>8 DEF HistInv, TypeOK, Places
<1>10. TypeOK'
  <2>1. observing' \in [DOMAIN observing' -> Places']
    BY <1>5, <1>9 DEF Places
  <2>2. DOMAIN observing' \subseteq Threads
    BY <1>7, <1>9 DEF HistInv, TypeOK
  <2> QED BY <1>4, <1>5, <2>1, <2>2, RendererTypes DEF TypeOK, HistInv, Places
<1>11. DataInv'
  <2>1. \A x \in DOMAIN data' : x # k => Agrees(data'[x])
    <3> SUFFICES ASSUME NEW x \in DOMAIN data', x # k PROVE Agrees(data'[x])
      OBVIOUS
    <3>1. x \in DOMAIN data /\ data'[x] = data[x]
      BY <1>4, <1>5
    <3>2. \A u \in DOMAIN observing : observing[u].key # x
      BY <1>1, <1>2, <1>7
    <3> QED BY <3>1, <3>2 DEF HistInv, DataInv
  <2> QED BY <1>1, <1>4, <1>6, <1>9, <2>1 DEF DataInv
<1> QED BY <1>4, <1>10, <1>11 DEF HistInv

LEMMA AddValueInv ==
  ASSUME HistInv, NEW t \in Threads, AddValue(t)
  PROVE  HistInv'
<1>1. PICK r \in Places : r = observing[t] /\ t \in DOMAIN observing /\ r.at = 0
  BY DEF HistInv, TypeOK, Places, AddValue
<1>2. PICK k \in DOMAIN data, v \in Values : k = r.key /\ v = r.value
  BY <1>1 DEF Places
<1>3. PICK d \in DataType : d = data[k] /\ Partly(d, v, 0)
  BY <1>1, <1>2 DEF HistInv, TypeOK, DataInv
<1>4. PICK e \in DataType : /\ e = [d EXCEPT !.sum = @ + v, !.values = Append(@, v)]
                            /\ Partly(e, v, 1) /\ Grows(d, e)
  BY <1>3, ValueAdded
<1>5. data' = [data EXCEPT ![k].sum = @ + v, ![k].values = Append(@, v)]
  BY <1>1, <1>2 DEF AddValue
<1>6. data' = Put(data, k, e)
  <2>1. data \in [DOMAIN data -> DataType]
    BY DEF HistInv, TypeOK
  <2>2. data' = [data EXCEPT ![k] = e]
    BY <1>2, <1>3, <1>4, <1>5, <2>1
  <2> QED BY <1>2, <2>1, <2>2 DEF Put
<1>7. observing' = [observing EXCEPT ![t].at = 1] /\ UNCHANGED renderer
  BY DEF AddValue
<1>8. 1 \in 0..Len(Bounds)
  BY BoundsType
<1> QED BY <1>1, <1>2, <1>3, <1>4, <1>6, <1>7, <1>8, PlaceInv

LEMMA CountBucketInv ==
  ASSUME HistInv, NEW t \in Threads, NEW i \in Buckets, CountBucket(t, i)
  PROVE  HistInv'
<1>1. PICK r \in Places : r = observing[t] /\ t \in DOMAIN observing /\ r.at = i
  BY DEF HistInv, TypeOK, Places, CountBucket
<1>2. PICK k \in DOMAIN data, v \in Values : k = r.key /\ v = r.value
  BY <1>1 DEF Places
<1>3. PICK d \in DataType : d = data[k] /\ Partly(d, v, i)
  BY <1>1, <1>2 DEF HistInv, TypeOK, DataInv
<1>4. PICK e \in DataType :
        /\ e = [d EXCEPT !.buckets[i] = @ + IF v <= Bounds[i] THEN 1 ELSE 0]
        /\ Grows(d, e) /\ IF i < Len(Bounds) THEN Partly(e, v, i + 1) ELSE Agrees(e)
  BY <1>3, BucketCounted
<1>5. data' = [data EXCEPT ![k].buckets[i] = @ + IF v <= Bounds[i] THEN 1 ELSE 0]
  BY <1>1, <1>2 DEF CountBucket
<1>6. data' = Put(data, k, e)
  <2>1. data \in [DOMAIN data -> DataType]
    BY DEF HistInv, TypeOK
  <2>2. data' = [data EXCEPT ![k] = e]
    BY <1>2, <1>3, <1>4, <1>5, <2>1
  <2> QED BY <1>2, <2>1, <2>2 DEF Put
<1>7. UNCHANGED renderer
  BY DEF CountBucket
<1>8. i \in Nat /\ 1 <= i /\ i <= Len(Bounds) /\ Len(Bounds) \in Nat
  BY BoundsType DEF Buckets
<1>9. CASE i < Len(Bounds)
  <2>1. observing' = [observing EXCEPT ![t].at = i + 1]
    BY <1>9 DEF CountBucket, Leave
  <2>2. i + 1 \in 0..Len(Bounds)
    BY <1>8, <1>9
  <2>3. Partly(e, v, i + 1)
    BY <1>4, <1>9
  <2> QED BY <1>1, <1>2, <1>3, <1>4, <1>6, <1>7, <2>1, <2>2, <2>3, PlaceInv
<1>10. CASE ~(i < Len(Bounds))
  <2>1. k \in Keys
    BY <1>2 DEF HistInv, TypeOK
  <2>2. /\ PageInv' /\ DOMAIN data' = DOMAIN data \cup {k} /\ data'[k] = e
        /\ \A x \in DOMAIN data : x # k => data'[x] = data[x]
        /\ DOMAIN data' \subseteq Keys /\ data' \in [DOMAIN data' -> DataType]
    <3>1. Grows(data[k], e) /\ TypeOK /\ PageInv
      BY <1>3, <1>4 DEF HistInv
    <3> QED BY <1>6, <1>7, <2>1, <3>1, DataStep
  <2>3. DOMAIN observing = {t}
    BY <1>1 DEF HistInv, DataInv
  <2>4. observing' = [u \in {} |-> observing[u]]
    BY <1>10, <2>3 DEF CountBucket, Leave
  <2>5. DOMAIN observing' = {}
    BY <2>4
  <2>6. observing' \in [DOMAIN observing' -> Places']
    BY <2>4
  <2>7. TypeOK'
    BY <1>7, <2>2, <2>5, <2>6, RendererTypes DEF TypeOK, HistInv, Places
  <2>8. \A x \in DOMAIN data' : Agrees(data'[x])
    <3> SUFFICES ASSUME NEW x \in DOMAIN data', x # k PROVE Agrees(data'[x])
      BY <1>4, <1>10, <2>2
    <3>1. x \in DOMAIN data /\ data'[x] = data[x]
      BY <1>2, <2>2
    <3>2. \A u \in DOMAIN observing : observing[u].key # x
      BY <1>1, <1>2, <2>3
    <3> QED BY <3>1, <3>2 DEF HistInv, DataInv
  <2>9. DataInv'
    BY <2>5, <2>8 DEF DataInv
  <2> QED BY <2>2, <2>7, <2>9 DEF HistInv
<1> QED BY <1>9, <1>10

-----------------------------------------------------------------------------
\* Every series lags by one observation at most.
LEMMA AllLag ==
  ASSUME HistInv, NEW k \in DOMAIN data
  PROVE  data[k] \in DataType /\ Lags(data[k])
<1>1. data[k] \in DataType
  BY DEF HistInv, TypeOK
<1>2. CASE \A t \in DOMAIN observing : observing[t].key # k
  BY <1>1, <1>2, AgreesLags DEF HistInv, DataInv
<1>3. ASSUME NEW t \in DOMAIN observing, observing[t].key = k PROVE Lags(data[k])
  BY <1>1, <1>3, PartlyLags DEF HistInv, DataInv
<1> QED BY <1>1, <1>2, <1>3

\* What is true of the fields at any moment: larger buckets lag behind by one at
\* most, and no bucket exceeds the count.
LEMMA FieldsOrdered ==
  ASSUME NEW d \in DataType, Lags(d)
  PROVE  /\ \A i \in Buckets : Field(d, i) <= d.count
         /\ \A i, j \in Buckets : i < j => Field(d, i) <= Field(d, j) + 1
<1>1. ASSUME NEW i \in Buckets
      PROVE  /\ Field(d, i) \in Nat /\ UpTo(d.values, i) \in Nat
             /\ Field(d, i) <= UpTo(d.values, i) /\ UpTo(d.values, i) <= Field(d, i) + 1
             /\ UpTo(d.values, i) <= Len(d.values)
  BY DataFields, UpToType DEF Field, Lags
<1>2. \A i \in Buckets : Field(d, i) <= d.count
  BY <1>1, DataFields DEF Lags
<1>3. ASSUME NEW i \in Buckets, NEW j \in Buckets, i < j
      PROVE  Field(d, i) <= Field(d, j) + 1
  <2>1. UpTo(d.values, i) <= UpTo(d.values, j)
    BY <1>3, DataFields, UpToMonotone
  <2> QED BY <1>1, <2>1
<1> QED BY <1>2, <1>3

\* Samples s that were read of a series that is now d.
Ordered(s, d) ==
  /\ \A n \in 1..Len(s) : n # Sum => s[n] <= Field(d, n)
  /\ \A i, j \in 1..Len(s) : (i < j /\ i # Sum /\ j \in {Inf, Count}) => s[i] <= s[j]
  /\ \A i, j \in 1..Len(s) \cap Buckets : i < j => s[i] <= s[j] + 1

LEMMA NextSample ==
  ASSUME NEW d \in DataType, Lags(d), NEW s \in Seq(Nat), Ordered(s, d),
         NEW z \in Seq(Nat), NEW l \in Nat, l = Len(s), Len(z) = l + 1,
         z[l + 1] = Field(d, l + 1), \A n \in 1..l : z[n] = s[n]
  PROVE  Ordered(z, d)
<1>1. \A n \in 1..l + 1 : z[n] \in Nat /\ Field(d, n) \in Nat
  <2> SUFFICES ASSUME NEW n \in 1..l + 1 PROVE z[n] \in Nat /\ Field(d, n) \in Nat
    OBVIOUS
  <2>1. n \in Nat /\ n \in 1..Len(z)
    OBVIOUS
  <2>2. z[n] \in Nat
    BY <2>1, ElementOfSeq
  <2> QED BY <2>1, <2>2, FieldType
<1>2. ASSUME NEW n \in 1..l + 1, n # Sum PROVE z[n] <= Field(d, n)
  <2>1. CASE n \in 1..l
    BY <1>2, <2>1 DEF Ordered
  <2>2. CASE n = l + 1
    BY <1>1, <2>2
  <2> QED BY <1>2, <2>1, <2>2
<1>3. /\ Inf \notin Buckets /\ Count \notin Buckets /\ Inf # Sum /\ Count # Sum
      /\ Sum \notin Buckets
  BY BoundsType DEF Inf, Count, Sum, Buckets
<1>4. ASSUME NEW i \in 1..l + 1, NEW j \in 1..l + 1, i < j, i # Sum, j \in {Inf, Count}
      PROVE  z[i] <= z[j]
  <2>1. CASE j \in 1..l
    <3>1. i \in 1..l
      BY <1>4, <2>1
    <3>2. s[i] <= s[j]
      BY <1>4, <2>1, <3>1 DEF Ordered
    <3> QED BY <2>1, <3>1, <3>2
  <2>2. CASE j = l + 1
    <3>1. z[j] = d.count
      BY <1>3, <1>4, <2>2 DEF Field
    <3>2. Field(d, i) <= d.count
      <4>1. CASE i \in Buckets
        BY <4>1, FieldsOrdered
      <4>2. CASE i \notin Buckets
        BY <1>4, <4>2, DataFields DEF Field
      <4> QED BY <4>1, <4>2
    <3>3. z[i] <= Field(d, i)
      BY <1>2, <1>4
    <3>4. z[i] \in Nat /\ Field(d, i) \in Nat /\ d.count \in Nat
      BY <1>1, <1>4, DataFields
    <3> QED BY <3>1, <3>2, <3>3, <3>4
  <2>3. \A x \in 1..l + 1 : x \in 1..l \/ x = l + 1
    OBVIOUS
  <2>4. j \in 1..l \/ j = l + 1
    BY <2>3
  <2> QED BY <2>1, <2>2, <2>4, Zenon
<1>5. ASSUME NEW i \in 1..l + 1, NEW j \in 1..l + 1, i \in Buckets, j \in Buckets, i < j
      PROVE  z[i] <= z[j] + 1
  <2>1. CASE j \in 1..l
    <3>1. i \in 1..l
      BY <1>5, <2>1
    <3>2. s[i] <= s[j] + 1
      BY <1>5, <2>1, <3>1 DEF Ordered
    <3> QED BY <2>1, <3>1, <3>2
  <2>2. CASE j = l + 1
    <3>1. z[j] = Field(d, j)
      BY <2>2
    <3>2. Field(d, i) <= Field(d, j) + 1
      BY <1>5, FieldsOrdered
    <3>3. z[i] <= Field(d, i)
      BY <1>2, <1>3, <1>5
    <3>4. z[i] \in Nat /\ Field(d, i) \in Nat /\ Field(d, j) \in Nat
      BY <1>1, <1>5
    <3> QED BY <3>1, <3>2, <3>3, <3>4
  <2>3. j \in 1..l \/ j = l + 1
    BY <1>5
  <2> QED BY <2>1, <2>2, <2>3, Zenon
<1> QED BY <1>2, <1>4, <1>5 DEF Ordered

LEMMA ReadFieldInv ==
  ASSUME HistInv, NEW k \in Keys, ReadField(k)
  PROVE  HistInv'
<1>1. k \in todo /\ k \in DOMAIN data
  BY DEF ReadField, HistInv, TypeOK
<1>2. PICK s \in Seq(Nat) : s = Samples(k) /\ Ordered(s, data[k])
  <2>1. CASE k \in DOMAIN page
    BY <2>1 DEF Samples, HistInv, TypeOK, PageInv, ReadOrdered, SkewAtMostOne, Ordered
  <2>2. CASE k \notin DOMAIN page
    <3>1. Ordered(<< >>, data[k])
      BY DEF Ordered
    <3>2. Samples(k) = << >> /\ << >> \in Seq(Nat)
      BY <2>2 DEF Samples
    <3> QED BY <3>1, <3>2, Zenon
  <2> QED BY <2>1, <2>2
<1>3. PICK f \in Nat : f = Field(data[k], Len(s) + 1)
  <2>1. Len(s) + 1 \in Nat
    OBVIOUS
  <2> QED BY <1>1, <2>1, AllLag, FieldType
<1>4. PICK z \in Seq(Nat) :
        /\ z = Append(s, f) /\ Len(z) = Len(s) + 1 /\ z[Len(s) + 1] = f
        /\ \A n \in 1..Len(s) : z[n] = s[n]
  <2>1. PICK z : z = Append(s, f)
    OBVIOUS
  <2>2. /\ z \in Seq(Nat) /\ Len(z) = Len(s) + 1 /\ z[Len(s) + 1] = f
        /\ \A n \in 1..Len(s) : z[n] = s[n]
    BY <2>1, AppendProperties
  <2> QED BY <2>1, <2>2
<1>5. Ordered(z, data[k])
  <2>1. PICK d \in DataType : d = data[k] /\ Lags(d)
    BY <1>1, AllLag
  <2>2. PICK l \in Nat : l = Len(s)
    OBVIOUS
  <2>3. Len(z) = l + 1 /\ z[l + 1] = Field(d, l + 1) /\ \A n \in 1..l : z[n] = s[n]
    BY <1>3, <1>4, <2>1, <2>2
  <2>4. Ordered(s, d)
    BY <1>2, <2>1
  <2>5. Ordered(z, d)
    BY <2>1, <2>2, <2>3, <2>4, NextSample
  <2> QED BY <2>1, <2>5
<1>6. /\ page' = [x \in DOMAIN page \cup {k} |-> IF x = k THEN z ELSE page[x]]
      /\ todo' \subseteq todo /\ UNCHANGED <<observers, scraping, lastPage>>
  BY <1>2, <1>3, <1>4 DEF ReadField, Put
<1>7. /\ DOMAIN page' = DOMAIN page \cup {k} /\ page'[k] = z
      /\ \A x \in DOMAIN page : x # k => page'[x] = page[x]
  BY <1>6
<1>8. data' = data /\ observing' = observing
  BY <1>6 DEF observers
<1>9. TypeOK'
  <2>1. page' \in [DOMAIN page' -> Seq(Nat)]
    BY <1>6 DEF HistInv, TypeOK
  <2> QED BY <1>1, <1>6, <1>7, <1>8, <2>1 DEF HistInv, TypeOK
<1>10. DataInv'
  BY <1>8 DEF HistInv, DataInv
<1>11. \A x \in DOMAIN page' : \A n \in 1..Len(page'[x]) :
         n # Sum => page'[x][n] <= Field(data'[x], n)
  BY <1>5, <1>7, <1>8 DEF HistInv, PageInv, Ordered
<1>12. ReadOrdered'
  <2>1. ASSUME NEW x \in DOMAIN page'
        PROVE  \A i, j \in 1..Len(page'[x]) :
                 (i < j /\ i # Sum /\ j \in {Inf, Count}) => page'[x][i] <= page'[x][j]
    <3>1. CASE x = k
      BY <1>5, <1>7, <3>1 DEF Ordered
    <3>2. CASE x # k
      BY <1>7, <3>2 DEF HistInv, PageInv, ReadOrdered
    <3> QED BY <3>1, <3>2
  <2> QED BY <2>1 DEF ReadOrdered
<1>13. SkewAtMostOne'
  <2>1. ASSUME NEW x \in DOMAIN page'
        PROVE  \A i, j \in 1..Len(page'[x]) \cap Buckets :
                 i < j => page'[x][i] <= page'[x][j] + 1
    <3>1. CASE x = k
      BY <1>5, <1>7, <3>1 DEF Ordered
    <3>2. CASE x # k
      BY <1>7, <3>2 DEF HistInv, PageInv, SkewAtMostOne
    <3> QED BY <3>1, <3>2
  <2> QED BY <2>1 DEF SkewAtMostOne
<1> QED BY <1>9, <1>10, <1>11, <1>12, <1>13 DEF HistInv, PageInv

LEMMA CopyOrDoneInv ==
  ASSUME HistInv, CopySeries \/ PageDone
  PROVE  HistInv'
<1>1. data' = data /\ observing' = observing /\ page' = << >>
  BY DEF CopySeries, PageDone, observers
<1>2. DOMAIN page' = {}
  BY <1>1
<1>3. DataInv'
  BY <1>1 DEF HistInv, DataInv
<1>4. PageInv'
  BY <1>2 DEF PageInv, ReadOrdered, SkewAtMostOne
<1>5. page' \in [DOMAIN page' -> Seq(Nat)]
  BY <1>1
<1>6. /\ scraping' \in BOOLEAN /\ todo' \subseteq DOMAIN data
      /\ DOMAIN lastPage' \subseteq DOMAIN data /\ lastPage' \in [DOMAIN lastPage' -> Seq(Nat)]
  <2>1. CASE CopySeries
    BY <2>1 DEF CopySeries, HistInv, TypeOK
  <2>2. CASE PageDone
    BY <2>2 DEF PageDone, HistInv, TypeOK
  <2> QED BY <2>1, <2>2
<1>7. TypeOK'
  BY <1>1, <1>2, <1>5, <1>6 DEF HistInv, TypeOK
<1> QED BY <1>3, <1>4, <1>7 DEF HistInv

LEMMA NextHistInv ==
  ASSUME HistInv, [HistNext]_histVars
  PROVE  HistInv'
<1>1. CASE UNCHANGED histVars
  BY <1>1 DEF histVars, observers, renderer, HistInv, TypeOK, DataInv, PageInv,
              ReadOrdered, SkewAtMostOne
<1>2. ASSUME NEW t \in Threads, NEW k \in Keys, NEW v \in Values, Observe(t, k, v)
      PROVE  HistInv'
  BY <1>2, ObserveInv
<1>3. ASSUME NEW t \in Threads, AddValue(t) PROVE HistInv'
  BY <1>3, AddValueInv
<1>4. ASSUME NEW t \in Threads, NEW i \in Buckets, CountBucket(t, i) PROVE HistInv'
  BY <1>4, CountBucketInv
<1>5. ASSUME NEW k \in Keys, ReadField(k) PROVE HistInv'
  BY <1>5, ReadFieldInv
<1>6. ASSUME CopySeries \/ PageDone PROVE HistInv'
  BY <1>6, CopyOrDoneInv
<1> QED BY <1>1, <1>2, <1>3, <1>4, <1>5, <1>6 DEF HistNext, ObserveStep, RenderStep

LEMMA InitHistInv == HistInit => HistInv
<1> SUFFICES ASSUME HistInit PROVE HistInv
  OBVIOUS
<1>1. /\ DOMAIN data = {} /\ DOMAIN observing = {} /\ DOMAIN page = {} /\ DOMAIN lastPage = {}
      /\ data = << >> /\ observing = << >> /\ page = << >> /\ lastPage = << >>
  BY DEF HistInit
<1>2. \A S : << >> \in [{} -> S]
  OBVIOUS
<1>3. TypeOK
  BY <1>1, <1>2 DEF HistInit, TypeOK
<1> QED BY <1>1, <1>3 DEF HistInv, DataInv, PageInv, ReadOrdered, SkewAtMostOne

\* The exporter's steps are steps of the histogram, or none.
LEMMA ExporterStep == [Next]_vars => [HistNext]_histVars
<1> SUFFICES ASSUME [Next]_vars PROVE [HistNext]_histVars
  OBVIOUS
<1>1. CASE UNCHANGED vars
  BY <1>1 DEF vars
<1>2. ASSUME NEW t \in Threads, Record(t) \/ Recording(t) PROVE HistNext
  BY <1>2 DEF Record, Recording, HistNext
<1>3. ASSUME StartServer \/ StopServer \/ ClientStep PROVE UNCHANGED histVars
  BY <1>3 DEF StartServer, StopServer, ClientStep, ClientArrives, RequestRead, ResponseTaken
<1>4. ASSUME ServerStep PROVE [HistNext]_histVars
  BY <1>4 DEF ServerStep, LoopEnds, ServeMetrics, ServeNotFound, Render, Respond, HistNext,
              RenderStep
<1> QED BY <1>1, <1>2, <1>3, <1>4 DEF Next

LEMMA HistInvariance == Spec => []HistInv
<1>1. Init => HistInv
  BY InitHistInv DEF Init
<1>2. HistInv /\ [Next]_vars => HistInv'
  BY ExporterStep, NextHistInv
<1> QED BY <1>1, <1>2, PTL DEF Spec

\* The types, with the server's.
THEOREM ExporterTypes == Spec => []ServerTypeOK
<1>1. HistInv => TypeOK
  BY DEF HistInv
<1> DEFINE Server == /\ server \in {"none", "waiting", "reading", "metrics", "other",
                                    "rendering", "writing", "ended"}
                     /\ stopAsked \in BOOLEAN
<1>2. Init => Server
  BY DEF Init
<1>3. Server /\ [Next]_vars => Server'
  BY DEF Next, vars, StartServer, StopServer, ServerStep, LoopEnds, ServeMetrics,
         ServeNotFound, Render, Respond, ClientStep, ClientArrives, RequestRead,
         ResponseTaken, Record, Recording
<1>4. TypeOK /\ Server => ServerTypeOK
  BY DEF ServerTypeOK
<1> HIDE DEF Server
<1> QED BY <1>1, <1>2, <1>3, <1>4, HistInvariance, PTL DEF Spec

\* Nothing is lost of what threads observe at once (metrics.py:94): under the lock
\* every bucket is the number of values up to its bound.
THEOREM LockedReaders == Spec => []LockedReadsAgree
<1>1. HistInv => LockedReadsAgree
  <2> SUFFICES ASSUME HistInv, LockFree, NEW k \in DOMAIN data
               PROVE  /\ data[k].count = Len(data[k].values)
                      /\ \A i \in Buckets :
                           data[k].buckets[i] =
                             Cardinality({m \in 1..Len(data[k].values) :
                                            data[k].values[m] <= Bounds[i]})
    BY DEF LockedReadsAgree
  <2>1. Agrees(data[k])
    BY NoneObserving DEF HistInv, DataInv
  <2> QED BY <2>1 DEF Agrees, UpTo, Fitting
<1> QED BY <1>1, HistInvariance, PTL

\* The fields are read without the lock, and no bucket exceeds the count read for
\* +Inf or _count; the buckets printed are sums of those fields (prometheus.py:72-84)
\* and exceed +Inf at most as often as there are summands.
THEOREM PagesAreOrdered == Spec => []ScrapeOrdered
<1>1. HistInv => ScrapeOrdered
  <2> SUFFICES ASSUME HistInv, NEW k \in DOMAIN page,
                      NEW i \in 1..Len(page[k]), NEW j \in 1..Len(page[k]),
                      i < j, i # Sum, j \in {Inf, Count}
               PROVE  /\ page[k][i] <= page[k][j]
                      /\ Rendered(page[k], i)
                           <= page[k][j] * IF i \in Buckets THEN i ELSE 1
    BY Zenon DEF ScrapeOrdered
  <2>1. PICK s \in Seq(Nat) : s = page[k]
    BY DEF HistInv, TypeOK
  <2>2. \A m \in 1..Len(s) : s[m] \in Nat
    BY ElementOfSeq
  <2>3. /\ i \in 1..Len(s) /\ j \in 1..Len(s) /\ Len(s) \in Nat
        /\ s[i] \in Nat /\ s[j] \in Nat
    BY <2>1, <2>2
  <2>4. ASSUME NEW m \in 1..Len(s), m < j, m # Sum PROVE s[m] <= s[j]
    BY <2>1, <2>3, <2>4 DEF HistInv, PageInv, ReadOrdered
  <2>5. s[i] <= s[j]
    BY <2>3, <2>4
  <2>6. CASE i \in Buckets
    <3>1. PICK n \in Nat : n = Len(Bounds) /\ i \in 1..n
      BY <2>6, BoundsType DEF Buckets
    <3> DEFINE c == CHOOSE x : Accumulates(x, s, n)
    <3>2. Rendered(s, i) = c[i]
      BY <2>6, <3>1 DEF Rendered, Accumulates, Buckets
    <3>3. Accumulates(c, s, n)
      BY RunningSums
    <3>4. \A m \in 1..i : s[m] \in Int /\ s[m] <= s[j]
      <4> SUFFICES ASSUME NEW m \in 1..i PROVE s[m] \in Nat /\ s[m] <= s[j]
        OBVIOUS
      <4>1. m \in 1..Len(s) /\ m < j /\ m # Sum
        BY <2>3, <3>1 DEF Sum
      <4> QED BY <2>2, <2>4, <4>1
    <3> HIDE DEF c
    <3>5. c[i] <= s[j] * i
      <4>1. i \in Nat /\ i <= n /\ i \in 1..i
        BY <3>1
      <4>2. \A m \in 1..i : c[m] \in Int /\ c[m] <= s[j] * m
        BY <2>3, <3>3, <3>4, <4>1, RunningSumsBounded
      <4> QED BY <4>1, <4>2
    <3> QED BY <2>1, <2>5, <2>6, <3>2, <3>5
  <2>7. CASE i \notin Buckets
    <3>1. Rendered(s, i) = s[i] /\ s[j] * 1 = s[j]
      BY <2>3, <2>7 DEF Rendered
    <3> QED BY <2>1, <2>5, <2>7, <3>1
  <2> QED BY <2>6, <2>7
<1> QED BY <1>1, HistInvariance, PTL

\* And a larger bucket of a page lags behind a smaller one by one observation at most.
THEOREM PagesAreSkewedByOne == Spec => []SkewAtMostOne
<1>1. HistInv => SkewAtMostOne
  BY DEF HistInv, PageInv
<1> QED BY <1>1, HistInvariance, PTL
-----------------------------------------------------------------------------
LEMMA ValuesAreNumbers ==
  ASSUME NEW vs \in Seq(Values), NEW i \in 1..Len(vs)
  PROVE  vs[i] \in Nat /\ vs[i] \in Int
<1>1. vs[i] \in Values
  BY ElementOfSeq
<1>2. vs[i] \in Nat
  BY <1>1, BoundsType
<1> QED BY <1>2

\* Sorting n values takes them in an order of their places.
LEMMA SortedInOrder ==
  ASSUME NEW vs \in Seq(Values), NEW n \in Nat, n = Len(vs)
  PROVE  \E o : InOrder(o, vs, n) /\ Sorted(vs) = [i \in 1..n |-> vs[o[i]]]
<1> DEFINE Is(p) == /\ p \in Bijection(1..n, 1..n)
                    /\ \A i, j \in 1..n : i < j => vs[p[i]] <= vs[p[j]]
           o == CHOOSE p \in Bijection(1..n, 1..n) :
                  \A i, j \in 1..n : i < j => vs[p[i]] <= vs[p[j]]
<1>1. \A i \in 1..n : vs[i] \in Int
  BY ValuesAreNumbers
<1>2. PICK p : InOrder(p, vs, n)
  BY <1>1, SortedOrderExists
<1>3. p \in Bijection(1..n, 1..n)
  BY <1>2 DEF InOrder, Bijection, Injection, Surjection, IsInjective
<1>4. \A i, j \in 1..n : i < j => vs[p[i]] <= vs[p[j]]
  BY <1>2 DEF InOrder
<1>5. o \in Bijection(1..n, 1..n) /\ \A i, j \in 1..n : i < j => vs[o[i]] <= vs[o[j]]
  BY <1>3, <1>4, Zenon
<1>6. Sorted(vs) = [i \in 1..n |-> vs[o[i]]]
  BY DEF Sorted
<1> HIDE DEF o
<1>7. /\ o \in [1..n -> 1..n] /\ \A i, j \in 1..n : o[i] = o[j] => i = j
      /\ \A k \in 1..n : \E i \in 1..n : o[i] = k
  BY <1>5 DEF Bijection, Injection, Surjection, IsInjective
<1>8. InOrder(o, vs, n)
  BY <1>5, <1>7 DEF InOrder
<1> QED BY <1>6, <1>8

\* The rank that percentile() takes has its share of the values on either side.
Rank(n, p) == IF (n * p) \div 100 < n THEN (n * p) \div 100 + 1 ELSE n

LEMMA RankOfPercentile ==
  ASSUME NEW n \in Nat, n > 0, NEW p \in 0..100
  PROVE  /\ Rank(n, p) \in 1..n
         /\ 100 * (Rank(n, p) - 1) <= p * n /\ p * n <= 100 * Rank(n, p)
<1>1. PICK x \in Nat : x = n * p /\ x = p * n
  OBVIOUS
<1>2. x <= 100 * n
  <2>1. PICK e \in Nat : e = 100 - p
    OBVIOUS
  <2>2. 100 * n = n * p + n * e /\ n * e \in Nat
    BY <2>1
  <2> QED BY <1>1, <2>2
<1>3. PICK idx \in Nat : idx = (n * p) \div 100 /\ 100 * idx <= x /\ x < 100 * idx + 100
  BY <1>1
<1>4. Rank(n, p) = IF idx < n THEN idx + 1 ELSE n
  BY <1>3 DEF Rank
<1> QED BY <1>1, <1>2, <1>3, <1>4

LEMMA PercentileOfData ==
  ASSUME NEW d \in DataType, NEW n \in Nat, n = Len(d.values), n > 0, NEW p \in 0..100
  PROVE  /\ 100 * Below(d.values, n, Percentile(d, p)) <= p * n
         /\ 100 * NotAbove(d.values, n, Percentile(d, p)) >= p * n
<1>1. PICK vs \in Seq(Values) : vs = d.values
  BY DataFields
<1>2. PICK r \in 1..n : r = Rank(n, p) /\ 100 * (r - 1) <= p * n /\ p * n <= 100 * r
  BY RankOfPercentile
<1>3. PICK o : InOrder(o, vs, n) /\ Sorted(vs) = [i \in 1..n |-> vs[o[i]]]
  BY <1>1, SortedInOrder
<1>4. Percentile(d, p) = vs[o[r]]
  <2>1. Percentile(d, p) = Sorted(vs)[r]
    BY <1>1, <1>2 DEF Percentile, Rank
  <2> QED BY <1>3, <2>1
<1>5. \A i \in 1..n : vs[i] \in Int
  BY <1>1, ValuesAreNumbers
<1>6. PICK a \in Nat, b \in Nat : /\ a = Below(vs, n, vs[o[r]]) /\ b = NotAbove(vs, n, vs[o[r]])
                                  /\ a < r /\ r <= b
  BY <1>3, <1>5, RankedElement
<1>7. PICK x \in Nat : x = p * n
  OBVIOUS
<1>8. 100 * a <= x /\ 100 * b >= x
  <2>1. 100 * (r - 1) <= x /\ x <= 100 * r
    BY <1>2, <1>7
  <2>2. a <= r - 1 /\ r <= b /\ r \in Nat
    BY <1>6
  <2> QED BY <2>1, <2>2
<1> QED BY <1>1, <1>4, <1>6, <1>7, <1>8

\* For every percentage up to 100 a percentile is a quantile of the values, however
\* many they are, though the code takes a place in the sorted list and interpolates
\* nothing (metrics.py:166).
THEOREM PercentilesAreQuantiles ==
  Spec => [](PercentileIsQuantile /\ \A p \in 0..100 : QuantileAt(p))
<1>1. HistInv => \A p \in 0..100 : QuantileAt(p)
  <2> SUFFICES ASSUME HistInv, NEW p \in 0..100 PROVE QuantileAt(p)
    OBVIOUS
  <2>1. ASSUME NEW k \in DOMAIN data, Len(data[k].values) > 0
        PROVE  LET vs == data[k].values  n == Len(vs)  q == Percentile(data[k], p) IN
               /\ 100 * Cardinality({m \in 1..n : vs[m] < q}) <= p * n
               /\ 100 * Cardinality({m \in 1..n : vs[m] <= q}) >= p * n
    <3>1. PICK d \in DataType : d = data[k]
      BY AllLag
    <3>2. PICK n \in Nat : n = Len(d.values) /\ n > 0
      BY <2>1, <3>1, DataFields
    <3>3. /\ 100 * Below(d.values, n, Percentile(d, p)) <= p * n
          /\ 100 * NotAbove(d.values, n, Percentile(d, p)) >= p * n
      BY <3>2, PercentileOfData
    <3> QED BY <3>1, <3>2, <3>3 DEF Below, NotAbove
  <2> QED BY <2>1, Zenon DEF QuantileAt
<1>2. (\A p \in 0..100 : QuantileAt(p)) => PercentileIsQuantile
  <2>1. \A p \in {0, 25, 50, 75, 90, 99, 100} : p \in 0..100
    OBVIOUS
  <2> QED BY <2>1, Zenon DEF PercentileIsQuantile
<1> QED BY <1>1, <1>2, HistInvariance, PTL
-----------------------------------------------------------------------------
\* Pages, the values they were read of, and the page before.
SumsAgree == \A k \in DOMAIN data : data[k].sum = TotalOf(data[k].values)

\* The sum among the samples s is that of a first part of the values.
SumHolds(s, d) ==
  \E m \in 0..Len(d.values) : /\ s[Inf] - 1 <= m /\ (Len(s) = Count => m <= s[Count])
                              /\ s[Sum] = TotalOf(SubSeq(d.values, 1, m))

\* Samples s that were read of a series that is now d, the sum among them.
Backed(s, d) ==
  /\ Len(s) <= Count /\ \A n \in 1..Len(s) : s[n] <= Field(d, n)
  /\ Len(s) >= Sum => SumHolds(s, d)

\* The samples z were read after those of s.
Since(s, z) == \A n \in 1..Len(z) : s[n] <= z[n]

ScrapeInv ==
  /\ SumsAgree
  /\ \A k \in DOMAIN page : Backed(page[k], data[k]) /\ (Len(page[k]) < Count <=> k \in todo)
  /\ \A k \in DOMAIN lastPage :
       Len(lastPage[k]) = Count /\ \A n \in 1..Count : lastPage[k][n] <= Field(data[k], n)
  /\ \A k \in DOMAIN page \cap DOMAIN lastPage : Since(lastPage[k], page[k])

LEMMA Places3 ==
  /\ Inf \in Nat /\ Sum \in Nat /\ Count \in Nat /\ Sum = Inf + 1 /\ Count = Sum + 1 /\ Inf > 1
  /\ Inf \notin Buckets /\ Sum \notin Buckets /\ Count \notin Buckets
  /\ \A n \in Buckets : n < Inf
BY BoundsType DEF Inf, Sum, Count, Buckets

LEMMA FirstPart ==
  ASSUME NEW vs \in Seq(Values), NEW v \in Values
  PROVE  /\ SubSeq(vs, 1, Len(vs)) = vs
         /\ \A m \in 0..Len(vs) : SubSeq(Append(vs, v), 1, m) = SubSeq(vs, 1, m)
<1>1. PICK n \in Nat : n = Len(vs)
  OBVIOUS
<1>2. PICK ws \in Seq(Values) : /\ ws = Append(vs, v) /\ Len(ws) = n + 1
                                /\ \A i \in 1..n : ws[i] = vs[i]
  <2>1. PICK ws : ws = Append(vs, v)
    OBVIOUS
  <2>2. ws \in Seq(Values) /\ Len(ws) = n + 1 /\ \A i \in 1..n : ws[i] = vs[i]
    BY <1>1, <2>1, AppendProperties
  <2> QED BY <2>1, <2>2
<1>3. SubSeq(vs, 1, n) = vs
  BY <1>1
<1>4. ASSUME NEW m \in 0..n PROVE SubSeq(ws, 1, m) = SubSeq(vs, 1, m)
  <2>1. SubSeq(ws, 1, m) = [i \in 1..m |-> ws[i]] /\ SubSeq(vs, 1, m) = [i \in 1..m |-> vs[i]]
    BY <1>1, <1>2
  <2> QED BY <1>2, <2>1
<1> QED BY <1>1, <1>2, <1>3, <1>4

\* What a thread's step makes of a series.
Extends(d, e) ==
  /\ Grows(d, e) /\ d.sum <= e.sum
  /\ e.values = d.values \/ \E v \in Values : e.values = Append(d.values, v)

LEMMA FieldLater ==
  ASSUME NEW d \in DataType, NEW e \in DataType, Extends(d, e), NEW n \in Nat
  PROVE  Field(d, n) <= Field(e, n) /\ Field(d, n) \in Nat /\ Field(e, n) \in Nat
<1>1. CASE n = Sum
  BY <1>1, Places3, DataFields DEF Field, Extends
<1>2. CASE n # Sum
  BY <1>2, FieldGrows, FieldType DEF Extends
<1> QED BY <1>1, <1>2

\* Pages stay true of a series that goes on.
LEMMA BackedLater ==
  ASSUME NEW d \in DataType, NEW e \in DataType, Extends(d, e), NEW s \in Seq(Nat), Backed(s, d)
  PROVE  Backed(s, e)
<1>1. ASSUME NEW n \in 1..Len(s) PROVE s[n] <= Field(e, n)
  <2>1. s[n] \in Nat /\ n \in Nat
    BY ElementOfSeq
  <2>2. s[n] <= Field(d, n)
    BY DEF Backed
  <2>3. PICK a \in Nat, b \in Nat : a = Field(d, n) /\ b = Field(e, n) /\ a <= b
    BY <2>1, FieldLater
  <2> QED BY <2>1, <2>2, <2>3
<1>2. ASSUME Len(s) >= Sum PROVE SumHolds(s, e)
  <2>1. PICK m \in 0..Len(d.values) :
          /\ s[Inf] - 1 <= m /\ (Len(s) = Count => m <= s[Count])
          /\ s[Sum] = TotalOf(SubSeq(d.values, 1, m))
    BY <1>2 DEF Backed, SumHolds
  <2>2. m \in 0..Len(e.values) /\ SubSeq(e.values, 1, m) = SubSeq(d.values, 1, m)
    <3>1. CASE e.values = d.values
      BY <3>1
    <3>2. ASSUME NEW v \in Values, e.values = Append(d.values, v)
          PROVE  m \in 0..Len(e.values) /\ SubSeq(e.values, 1, m) = SubSeq(d.values, 1, m)
      <4>1. Len(e.values) = Len(d.values) + 1
        BY <3>2, DataFields, AppendProperties
      <4> QED BY <3>2, <4>1, DataFields, FirstPart
    <3> QED BY <3>1, <3>2 DEF Extends
  <2> QED BY <2>1, <2>2 DEF SumHolds
<1> QED BY <1>1, <1>2 DEF Backed

\* One more sample.
LEMMA BackedNext ==
  ASSUME NEW d \in DataType, d.sum = TotalOf(d.values),
         Len(d.values) <= d.count, d.count <= Len(d.values) + 1,
         NEW s \in Seq(Nat), Backed(s, d), NEW l \in Nat, l = Len(s), l < Count,
         NEW z \in Seq(Nat), Len(z) = l + 1,
         z[l + 1] = Field(d, l + 1), \A n \in 1..l : z[n] = s[n]
  PROVE  Backed(z, d)
<1>1. ASSUME NEW n \in 1..l + 1 PROVE z[n] <= Field(d, n)
  <2>1. CASE n \in 1..l
    BY <2>1 DEF Backed
  <2>2. CASE n = l + 1
    BY <2>2, FieldType
  <2> QED BY <2>1, <2>2
<1>2. CASE l + 1 < Sum
  BY <1>1, <1>2, Places3 DEF Backed
<1>3. CASE l + 1 = Sum
  <2>1. z[Sum] = d.sum /\ z[Inf] <= d.count /\ z[Inf] \in Nat
    <3>1. Field(d, Sum) = d.sum /\ Field(d, Inf) = d.count
      BY Places3 DEF Field
    <3>2. Inf \in 1..l + 1
      BY <1>3, Places3
    <3> QED BY <1>1, <1>3, <3>1, <3>2, ElementOfSeq
  <2>2. PICK m \in Nat, c \in Nat : m = Len(d.values) /\ c = d.count /\ c <= m + 1
    BY DataFields
  <2>3. SubSeq(d.values, 1, m) = d.values
    BY <2>2, DataFields
  <2>4. z[Inf] - 1 <= m
    BY <2>1, <2>2
  <2>5. Len(z) # Count /\ Len(z) <= Count
    BY <1>3, Places3
  <2>6. m \in 0..Len(d.values) /\ z[Sum] = TotalOf(SubSeq(d.values, 1, m))
    <3>1. m \in 0..m
      OBVIOUS
    <3>2. m \in 0..Len(d.values)
      BY <2>2, <3>1, Zenon
    <3>3. z[Sum] = TotalOf(SubSeq(d.values, 1, m))
      BY <2>1, <2>3, Zenon
    <3> QED BY <3>2, <3>3
  <2>7. SumHolds(z, d)
    BY <2>4, <2>5, <2>6 DEF SumHolds
  <2> QED BY <1>1, <2>5, <2>7 DEF Backed
<1>4. CASE l + 1 = Count
  <2>1. PICK m \in 0..Len(d.values) :
          s[Inf] - 1 <= m /\ s[Sum] = TotalOf(SubSeq(d.values, 1, m))
    BY <1>4, Places3 DEF Backed, SumHolds
  <2>2. z[Inf] = s[Inf] /\ z[Sum] = s[Sum]
    <3>1. Inf \in 1..l /\ Sum \in 1..l
      BY <1>4, Places3
    <3> QED BY <3>1
  <2>3. z[Count] = d.count /\ m <= d.count
    <3>1. Field(d, Count) = d.count
      BY Places3 DEF Field
    <3>2. m <= Len(d.values)
      BY DataFields
    <3>3. m \in Nat /\ d.count \in Nat /\ Len(d.values) \in Nat
      BY DataFields
    <3> QED BY <1>4, <3>1, <3>2, <3>3
  <2>4. SumHolds(z, d)
    BY <2>1, <2>2, <2>3 DEF SumHolds
  <2> QED BY <1>1, <1>4, <2>4 DEF Backed
<1>5. l + 1 < Sum \/ l + 1 = Sum \/ l + 1 = Count
  <2> Sum \in Nat /\ Count = Sum + 1
    BY Places3
  <2> QED OBVIOUS
<1> QED BY <1>2, <1>3, <1>4, <1>5

\* Neither count of a series is ahead of its values by more than one.
LEMMA CountIsClose ==
  ASSUME HistInv, NEW k \in DOMAIN data
  PROVE  Len(data[k].values) <= data[k].count /\ data[k].count <= Len(data[k].values) + 1
<1>1. PICK d \in DataType : d = data[k] /\ Lags(d)
  BY AllLag
<1>2. PICK m \in Nat : m = Len(d.values)
  BY DataFields
<1>3. d.count = m \/ d.count = m + 1
  <2>1. CASE \A t \in DOMAIN observing : observing[t].key # k
    BY <1>1, <1>2, <2>1 DEF HistInv, DataInv, Agrees
  <2>2. ASSUME NEW t \in DOMAIN observing, observing[t].key = k
        PROVE  d.count = m \/ d.count = m + 1
    <3>1. Partly(d, observing[t].value, observing[t].at)
      BY <1>1, <2>2 DEF HistInv, DataInv
    <3>2. d.count = m + (IF observing[t].at = 0 THEN 1 ELSE 0)
      BY <1>2, <3>1, Zenon DEF Partly
    <3> QED BY <3>2
  <2> QED BY <2>1, <2>2
<1> QED BY <1>1, <1>2, <1>3

\* What the steps of threads have in common.
DataExtends ==
  /\ DOMAIN data \subseteq DOMAIN data' /\ UNCHANGED renderer
  /\ \A k \in DOMAIN data : Extends(data[k], data'[k])
  /\ SumsAgree'

LEMMA PutExtends ==
  ASSUME HistInv, SumsAgree, NEW k \in Keys, NEW e \in DataType, data' = Put(data, k, e),
         e.sum = TotalOf(e.values), k \in DOMAIN data => Extends(data[k], e), UNCHANGED renderer
  PROVE  DataExtends
<1>1. DOMAIN data' = DOMAIN data \cup {k} /\ data'[k] = e
      /\ \A x \in DOMAIN data : x # k => data'[x] = data[x]
  BY DEF Put
<1>2. \A x \in DOMAIN data : Extends(data[x], data'[x])
  <2> SUFFICES ASSUME NEW x \in DOMAIN data PROVE Extends(data[x], data'[x])
    OBVIOUS
  <2>1. CASE x = k
    BY <1>1, <2>1
  <2>2. CASE x # k
    <3>1. data'[x] = data[x] /\ data[x] \in DataType
      BY <1>1, <2>2, AllLag
    <3>2. \A d \in DataType : Extends(d, d)
      BY DataFields DEF Extends, Grows
    <3> QED BY <3>1, <3>2
  <2> QED BY <2>1, <2>2
<1>3. SumsAgree'
  <2> SUFFICES ASSUME NEW x \in DOMAIN data' PROVE data'[x].sum = TotalOf(data'[x].values)
    BY DEF SumsAgree
  <2>1. CASE x = k
    BY <1>1, <2>1
  <2>2. CASE x # k
    BY <1>1, <2>2 DEF SumsAgree
  <2> QED BY <2>1, <2>2
<1> QED BY <1>1, <1>2, <1>3 DEF DataExtends

LEMMA ThreadExtends ==
  ASSUME HistInv, SumsAgree,
         \/ \E t \in Threads, k \in Keys, v \in Values : Observe(t, k, v)
         \/ \E t \in Threads : ObserveStep(t)
  PROVE  DataExtends
<1>1. ASSUME NEW t \in Threads, NEW k \in Keys, NEW v \in Values, Observe(t, k, v)
      PROVE  DataExtends
  <2>1. PICK d \in DataType : d = GetData(k) /\ d.sum = TotalOf(d.values)
                             /\ (k \in DOMAIN data => d = data[k])
    <3>1. CASE k \in DOMAIN data
      BY <3>1, AllLag DEF GetData, SumsAgree
    <3>2. CASE k \notin DOMAIN data
      <4>1. EmptyData.values = << >> /\ EmptyData.sum = 0
        BY DEF EmptyData
      <4> QED BY <3>2, <4>1, EmptyAgrees, TotalOfNone DEF GetData
    <3> QED BY <3>1, <3>2
  <2>2. PICK e : e = [d EXCEPT !.count = @ + 1]
    OBVIOUS
  <2>3. e \in DataType /\ e.sum = d.sum /\ e.values = d.values /\ Extends(d, e)
    <3>1. /\ e \in DataType /\ e.count = d.count + 1
          /\ e.values = d.values /\ e.buckets = d.buckets /\ e.sum = d.sum
      BY <2>2 DEF DataType
    <3> QED BY <3>1, DataFields DEF Extends, Grows
  <2>4. data' = Put(data, k, e) /\ UNCHANGED renderer
    BY <1>1, <2>1, <2>2 DEF Observe
  <2> QED BY <2>1, <2>3, <2>4, PutExtends
<1>2. ASSUME NEW t \in Threads, AddValue(t) PROVE DataExtends
  <2>1. PICK r \in Places : r = observing[t] /\ t \in DOMAIN observing
    BY <1>2 DEF HistInv, TypeOK, Places, AddValue
  <2>2. PICK k \in DOMAIN data, v \in Values : k = r.key /\ v = r.value
    BY <2>1 DEF Places
  <2>3. PICK d \in DataType : d = data[k] /\ d.sum = TotalOf(d.values)
    BY AllLag DEF SumsAgree
  <2>4. PICK e : e = [d EXCEPT !.sum = @ + v, !.values = Append(@, v)]
    OBVIOUS
  <2>5. Append(d.values, v) \in Seq(Values) /\ d.sum + v \in Nat /\ d.sum <= d.sum + v
    BY DataFields, BoundsType, AppendProperties
  <2>6. /\ e \in DataType /\ e.count = d.count /\ e.sum = d.sum + v
        /\ e.values = Append(d.values, v) /\ e.buckets = d.buckets
    BY <2>4, <2>5 DEF DataType
  <2>7. Extends(d, e)
    BY <2>5, <2>6, DataFields DEF Extends, Grows
  <2>8. e.sum = TotalOf(e.values)
    BY <2>3, <2>6, DataFields, TotalOfAppended
  <2>9. data' = Put(data, k, e) /\ UNCHANGED renderer
    <3>1. data \in [DOMAIN data -> DataType]
      BY DEF HistInv, TypeOK
    <3>2. data' = [data EXCEPT ![k].sum = @ + v, ![k].values = Append(@, v)]
      BY <1>2, <2>1, <2>2 DEF AddValue
    <3>3. data' = [data EXCEPT ![k] = e]
      BY <2>2, <2>3, <2>4, <3>1, <3>2
    <3>4. data' = Put(data, k, e)
      BY <2>2, <3>1, <3>3 DEF Put
    <3> QED BY <1>2, <3>4, Zenon DEF AddValue
  <2>10. k \in Keys
    BY <2>2 DEF HistInv, TypeOK
  <2> QED BY <2>3, <2>6, <2>7, <2>8, <2>9, <2>10, PutExtends
<1>3. ASSUME NEW t \in Threads, NEW i \in Buckets, CountBucket(t, i) PROVE DataExtends
  <2>1. PICK r \in Places : r = observing[t] /\ t \in DOMAIN observing /\ r.at = i
    BY <1>3 DEF HistInv, TypeOK, Places, CountBucket
  <2>2. PICK k \in DOMAIN data, v \in Values : k = r.key /\ v = r.value
    BY <2>1 DEF Places
  <2>3. PICK d \in DataType : d = data[k] /\ d.sum = TotalOf(d.values) /\ Partly(d, v, i)
    BY <2>1, <2>2, AllLag DEF SumsAgree, HistInv, DataInv
  <2>4. PICK e \in DataType :
          e = [d EXCEPT !.buckets[i] = @ + IF v <= Bounds[i] THEN 1 ELSE 0] /\ Grows(d, e)
    BY <2>3, BucketCounted
  <2>5. e.sum = d.sum /\ e.values = d.values
    BY <2>4 DEF DataType
  <2>6. Extends(d, e)
    BY <2>4, <2>5, DataFields DEF Extends
  <2>7. data' = Put(data, k, e) /\ UNCHANGED renderer
    <3>1. data \in [DOMAIN data -> DataType]
      BY DEF HistInv, TypeOK
    <3>2. data' = [data EXCEPT ![k].buckets[i] = @ + IF v <= Bounds[i] THEN 1 ELSE 0]
      BY <1>3, <2>1, <2>2 DEF CountBucket
    <3>3. data' = [data EXCEPT ![k] = e]
      BY <2>2, <2>3, <2>4, <3>1, <3>2
    <3>4. data' = Put(data, k, e)
      BY <2>2, <3>1, <3>3 DEF Put
    <3> QED BY <1>3, <3>4, Zenon DEF CountBucket
  <2>8. k \in Keys
    BY <2>2 DEF HistInv, TypeOK
  <2> QED BY <2>3, <2>4, <2>5, <2>6, <2>7, <2>8, PutExtends
<1> QED BY <1>1, <1>2, <1>3 DEF ObserveStep

LEMMA ThreadScrapeInv ==
  ASSUME HistInv, HistInv', ScrapeInv, DataExtends
  PROVE  ScrapeInv'
<1>1. /\ scraping' = scraping /\ todo' = todo /\ page' = page /\ lastPage' = lastPage
      /\ SumsAgree'
  BY DEF DataExtends, renderer
<1>2. ASSUME NEW k \in DOMAIN data
      PROVE  data[k] \in DataType /\ data'[k] \in DataType /\ Extends(data[k], data'[k])
  BY <1>2 DEF DataExtends, HistInv, TypeOK
<1>3. ASSUME NEW k \in DOMAIN page PROVE Backed(page[k], data'[k])
  <2>1. k \in DOMAIN data /\ page[k] \in Seq(Nat)
    BY DEF HistInv, TypeOK
  <2>2. Backed(page[k], data[k])
    BY DEF ScrapeInv
  <2> QED BY <1>2, <2>1, <2>2, BackedLater
<1>4. ASSUME NEW k \in DOMAIN lastPage, NEW n \in 1..Count
      PROVE  lastPage[k][n] <= Field(data'[k], n)
  <2>1. k \in DOMAIN data /\ lastPage[k] \in Seq(Nat) /\ Len(lastPage[k]) = Count
    BY DEF HistInv, TypeOK, ScrapeInv
  <2>2. lastPage[k][n] \in Nat /\ n \in Nat
    BY <2>1, ElementOfSeq, Places3
  <2>3. PICK a \in Nat, b \in Nat : a = Field(data[k], n) /\ b = Field(data'[k], n) /\ a <= b
    BY <1>2, <2>1, <2>2, FieldLater
  <2>4. lastPage[k][n] <= a
    BY <2>3 DEF ScrapeInv
  <2> QED BY <2>2, <2>3, <2>4
<1> QED BY <1>1, <1>3, <1>4 DEF ScrapeInv

\* The page before lags behind the fields, so what is read next is not less.
LEMMA ReadScrapeInv ==
  ASSUME HistInv, HistInv', ScrapeInv, NEW k \in Keys, ReadField(k)
  PROVE  ScrapeInv'
<1>1. k \in todo /\ k \in DOMAIN data
  BY DEF ReadField, HistInv, TypeOK
<1>2. PICK d \in DataType : /\ d = data[k] /\ d.sum = TotalOf(d.values)
                            /\ Len(d.values) <= d.count /\ d.count <= Len(d.values) + 1
  BY <1>1, AllLag, CountIsClose DEF ScrapeInv, SumsAgree
<1>3. PICK s \in Seq(Nat) : /\ s = Samples(k) /\ Backed(s, d) /\ Len(s) < Count
                            /\ k \in DOMAIN lastPage => Since(lastPage[k], s)
  <2>1. CASE k \in DOMAIN page
    <3>1. page[k] \in Seq(Nat)
      BY <2>1 DEF HistInv, TypeOK
    <3>2. Backed(page[k], d) /\ Len(page[k]) < Count
      BY <1>1, <1>2, <2>1 DEF ScrapeInv
    <3>3. k \in DOMAIN lastPage => Since(lastPage[k], page[k])
      BY <2>1 DEF ScrapeInv
    <3> QED BY <2>1, <3>1, <3>2, <3>3 DEF Samples
  <2>2. CASE k \notin DOMAIN page
    <3>1. << >> \in Seq(Nat) /\ Len(<< >>) = 0
      OBVIOUS
    <3>2. Backed(<< >>, d) /\ \A z : Since(z, << >>)
      BY <3>1, Places3 DEF Backed, Since
    <3>3. Len(<< >>) < Count /\ Samples(k) = << >>
      BY <2>2, <3>1, Places3 DEF Samples
    <3> QED BY <3>1, <3>2, <3>3, Zenon
  <2> QED BY <2>1, <2>2
<1>4. PICK l \in Nat : l = Len(s) /\ l < Count
  <2>1. Len(s) \in Nat
    OBVIOUS
  <2> QED BY <1>3, <2>1
<1>5. PICK f \in Nat : f = Field(d, l + 1)
  BY FieldType
<1>6. PICK z \in Seq(Nat) : /\ z = Append(s, f) /\ Len(z) = l + 1 /\ z[l + 1] = f
                            /\ \A n \in 1..l : z[n] = s[n]
  <2>1. PICK z : z = Append(s, f)
    OBVIOUS
  <2>2. z \in Seq(Nat) /\ Len(z) = l + 1 /\ z[l + 1] = f /\ \A n \in 1..l : z[n] = s[n]
    BY <1>4, <2>1, AppendProperties
  <2> QED BY <2>1, <2>2
<1>7. Backed(z, d)
  <2>1. Backed(s, d) /\ z[l + 1] = Field(d, l + 1)
    BY <1>3, <1>5, <1>6
  <2> QED BY <1>2, <1>4, <1>6, <2>1, BackedNext
<1>8. ASSUME k \in DOMAIN lastPage PROVE Since(lastPage[k], z)
  <2>1. lastPage[k][l + 1] <= f
    <3>1. l + 1 \in 1..Count
      BY <1>4, Places3
    <3> QED BY <1>2, <1>5, <1>8, <3>1 DEF ScrapeInv
  <2>2. \A n \in 1..l : lastPage[k][n] <= z[n]
    BY <1>3, <1>4, <1>6, <1>8 DEF Since
  <2>3. \A n \in 1..l + 1 : n \in 1..l \/ n = l + 1
    OBVIOUS
  <2> QED BY <1>6, <2>1, <2>2, <2>3 DEF Since
<1>9. /\ page' = [x \in DOMAIN page \cup {k} |-> IF x = k THEN z ELSE page[x]]
      /\ todo' = (IF l + 1 = Count THEN todo \ {k} ELSE todo)
      /\ data' = data /\ lastPage' = lastPage
  <2>1. data' = data /\ lastPage' = lastPage
    BY DEF ReadField, observers
  <2>2. z = Append(Samples(k), Field(data[k], Len(Samples(k)) + 1)) /\ Len(Samples(k)) = l
    BY <1>2, <1>3, <1>4, <1>5, <1>6
  <2>3. page' = Put(page, k, z) /\ todo' = IF l + 1 = Count THEN todo \ {k} ELSE todo
    BY <2>2, Zenon DEF ReadField
  <2> QED BY <2>1, <2>3 DEF Put
<1>10. /\ DOMAIN page' = DOMAIN page \cup {k} /\ page'[k] = z
       /\ \A x \in DOMAIN page : x # k => page'[x] = page[x]
  BY <1>9
<1>11. ASSUME NEW x \in DOMAIN page'
       PROVE  Backed(page'[x], data'[x]) /\ (Len(page'[x]) < Count <=> x \in todo')
  <2>1. CASE x = k
    <3>1. l + 1 < Count <=> x \in todo'
      BY <1>1, <1>4, <1>9, <2>1, Places3
    <3> QED BY <1>2, <1>6, <1>7, <1>9, <1>10, <2>1, <3>1
  <2>2. CASE x # k
    <3>1. x \in DOMAIN page /\ page'[x] = page[x] /\ (x \in todo' <=> x \in todo)
      BY <1>9, <1>10, <2>2
    <3> QED BY <1>9, <3>1 DEF ScrapeInv
  <2> QED BY <2>1, <2>2
<1>12. ASSUME NEW x \in DOMAIN page' \cap DOMAIN lastPage' PROVE Since(lastPage'[x], page'[x])
  <2>1. CASE x = k
    BY <1>8, <1>9, <1>10, <2>1
  <2>2. CASE x # k
    BY <1>9, <1>10, <2>2 DEF ScrapeInv
  <2> QED BY <2>1, <2>2
<1>13. SumsAgree'
  BY <1>9 DEF ScrapeInv, SumsAgree
<1>14. \A x \in DOMAIN lastPage' :
         /\ Len(lastPage'[x]) = Count
         /\ \A n \in 1..Count : lastPage'[x][n] <= Field(data'[x], n)
  BY <1>9 DEF ScrapeInv
<1> QED BY <1>11, <1>12, <1>13, <1>14 DEF ScrapeInv

LEMMA NextScrapeInv ==
  ASSUME HistInv, HistInv', ScrapeInv, [HistNext]_histVars
  PROVE  ScrapeInv'
<1>1. CASE UNCHANGED histVars
  BY <1>1 DEF histVars, observers, renderer, ScrapeInv, SumsAgree
<1>2. CASE \/ \E t \in Threads, k \in Keys, v \in Values : Observe(t, k, v)
           \/ \E t \in Threads : ObserveStep(t)
  <2>1. SumsAgree
    BY DEF ScrapeInv
  <2>2. DataExtends
    BY <1>2, <2>1, ThreadExtends
  <2> QED BY <2>2, ThreadScrapeInv
<1>3. ASSUME NEW k \in Keys, ReadField(k) PROVE ScrapeInv'
  BY <1>3, ReadScrapeInv
<1>4. CASE CopySeries
  <2>1. data' = data /\ lastPage' = lastPage /\ DOMAIN page' = {}
    BY <1>4 DEF CopySeries, observers
  <2> QED BY <2>1 DEF ScrapeInv, SumsAgree
<1>5. CASE PageDone
  <2>1. data' = data /\ lastPage' = page /\ DOMAIN page' = {} /\ todo = {}
    BY <1>5 DEF PageDone, observers
  <2>2. ASSUME NEW k \in DOMAIN page
        PROVE  Len(page[k]) = Count /\ \A n \in 1..Count : page[k][n] <= Field(data[k], n)
    <3>1. page[k] \in Seq(Nat) /\ Len(page[k]) \in Nat
      BY DEF HistInv, TypeOK
    <3>2. Len(page[k]) <= Count /\ ~(Len(page[k]) < Count)
      BY <2>1 DEF ScrapeInv, Backed
    <3>3. Len(page[k]) = Count
      BY <3>1, <3>2, Places3
    <3> QED BY <3>3 DEF ScrapeInv, Backed
  <2>3. SumsAgree'
    BY <2>1 DEF ScrapeInv, SumsAgree
  <2> QED BY <2>1, <2>2, <2>3 DEF ScrapeInv
<1> QED BY <1>1, <1>2, <1>3, <1>4, <1>5 DEF HistNext, RenderStep

LEMMA ScrapeInvariance == Spec => []ScrapeInv
<1>1. Init => ScrapeInv
  <2> SUFFICES ASSUME HistInit PROVE ScrapeInv
    BY DEF Init
  <2>1. DOMAIN data = {} /\ DOMAIN page = {} /\ DOMAIN lastPage = {}
    BY DEF HistInit
  <2> QED BY <2>1 DEF ScrapeInv, SumsAgree
<1>2. HistInv /\ HistInv' /\ ScrapeInv /\ [Next]_vars => ScrapeInv'
  BY ExporterStep, NextScrapeInv
<1> QED BY <1>1, <1>2, HistInvariance, PTL DEF Spec

\* The sum on a page is that of a first part of the values, and of how many differs
\* from the counts on that page by what they differ, or one, though the renderer
\* reads sum and counts while a thread writes them (prometheus.py:79).
THEOREM SumsAreOfPrefixes == Spec => []SumIsOfPrefix
<1>1. HistInv /\ ScrapeInv => SumIsOfPrefix
  <2> SUFFICES ASSUME HistInv, ScrapeInv, NEW k \in DOMAIN page, Len(page[k]) = Count
               PROVE  \E m \in page[k][Inf] - 1 .. page[k][Count] :
                        /\ m <= Len(data[k].values)
                        /\ page[k][Sum] = TotalOf(SubSeq(data[k].values, 1, m))
    BY DEF SumIsOfPrefix, TotalOf
  <2>1. SumHolds(page[k], data[k])
    BY Places3 DEF ScrapeInv, Backed
  <2>2. page[k] \in Seq(Nat) /\ data[k] \in DataType
    BY DEF HistInv, TypeOK
  <2>3. page[k][Inf] \in Nat /\ page[k][Count] \in Nat /\ Len(data[k].values) \in Nat
    BY <2>2, ElementOfSeq, DataFields, Places3
  <2> QED BY <2>1, <2>3 DEF SumHolds
<1> QED BY <1>1, HistInvariance, ScrapeInvariance, PTL

\* No number goes back from one scrape to the next, not even those of the buckets,
\* which are cumulative and are added up once more (prometheus.py:72).
THEOREM ScrapesNeverGoBack == Spec => []ScrapesMonotone
<1>1. HistInv /\ ScrapeInv => ScrapesMonotone
  <2> SUFFICES ASSUME HistInv, ScrapeInv, NEW k \in DOMAIN page \cap DOMAIN lastPage,
                      NEW n \in 1..Len(page[k])
               PROVE  Rendered(lastPage[k], n) <= Rendered(page[k], n)
    BY DEF ScrapesMonotone
  <2>1. PICK s \in Seq(Nat), z \in Seq(Nat) : s = lastPage[k] /\ z = page[k]
    BY DEF HistInv, TypeOK
  <2>2. PICK l \in Nat : l = Len(z) /\ n \in 1..l /\ l <= Count /\ Len(s) = Count
    BY <2>1 DEF ScrapeInv, Backed
  <2>3. \A i \in 1..l : s[i] \in Int /\ z[i] \in Int /\ s[i] <= z[i]
    <3> SUFFICES ASSUME NEW i \in 1..l PROVE s[i] \in Nat /\ z[i] \in Nat /\ s[i] <= z[i]
      OBVIOUS
    <3>1. i \in 1..Len(s) /\ i \in 1..Len(z)
      BY <2>2, Places3
    <3>2. s[i] \in Nat /\ z[i] \in Nat
      BY <3>1, ElementOfSeq
    <3> QED BY <2>1, <3>1, <3>2 DEF ScrapeInv, Since
  <2>4. CASE n \in Buckets
    <3> DEFINE c == CHOOSE x : Accumulates(x, s, Len(Bounds))
               d == CHOOSE x : Accumulates(x, z, Len(Bounds))
    <3>1. Rendered(s, n) = c[n] /\ Rendered(z, n) = d[n]
      BY <2>4 DEF Rendered, Accumulates, Buckets
    <3>2. Accumulates(c, s, Len(Bounds)) /\ Accumulates(d, z, Len(Bounds))
      BY RunningSums, BoundsType
    <3>3. n \in Nat /\ n <= Len(Bounds) /\ n \in 1..n /\ \A i \in 1..n : i \in 1..l
      BY <2>2, <2>4, BoundsType DEF Buckets
    <3> HIDE DEF c, d
    <3>4. \A i \in 1..n : c[i] \in Int /\ d[i] \in Int /\ c[i] <= d[i]
      <4>1. NoLarger(s, z, n)
        BY <2>3, <3>3 DEF NoLarger
      <4>2. PICK m \in Nat : m = Len(Bounds) /\ n <= m
        BY <3>3, BoundsType
      <4>3. Accumulates(c, s, m) /\ Accumulates(d, z, m)
        BY <3>2, <4>2
      <4>4. NoLarger(c, d, n)
        BY <3>3, <4>1, <4>2, <4>3, RunningSumsGrow
      <4> QED BY <4>4 DEF NoLarger
    <3> QED BY <2>1, <3>1, <3>3, <3>4
  <2>5. CASE n \notin Buckets
    BY <2>1, <2>2, <2>3, <2>5 DEF Rendered
  <2> QED BY <2>4, <2>5
<1> QED BY <1>1, HistInvariance, ScrapeInvariance, PTL
=============================================================================
