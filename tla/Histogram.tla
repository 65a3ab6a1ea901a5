------------------------------ MODULE Histogram ------------------------------
(***************************************************************************)
(* agent/fluxwatch/metrics.py, classes Histogram and _HistData, and the    *)
(* part of prometheus.py, render_metrics(), that reads them.               *)
(*                                                                         *)
(* Threads observe under the histogram's lock; the methods that read for   *)
(* the program (count, mean, percentile, bucket_counts) take it too.  The  *)
(* renderer takes it only to copy the dictionary: the _HistData objects it *)
(* then reads field by field go on changing under its eyes.  Observations  *)
(* are integers; one read or write of a field is one step.                 *)
(***************************************************************************)
EXTENDS Integers, Sequences, FiniteSets, FiniteSetsExt, SequencesExt

CONSTANTS Threads,         \* threads of the instrumented program
          Keys,            \* label tuples
          Values,          \* what is observed
          Bounds,          \* self.buckets, the upper bounds
          MaxObservations  \* bound: observe() calls in one behaviour

ASSUME HistogramAssumption ==
  /\ Values \subseteq Nat
  /\ Bounds \in Seq(Nat) /\ Len(Bounds) > 0
  /\ \A i, j \in 1..Len(Bounds) : i < j => Bounds[i] < Bounds[j]
  /\ MaxObservations \in Nat

Buckets == 1..Len(Bounds)

VARIABLES
  data,       \* self._data: for each key that was observed, its _HistData
  observing,  \* for each thread inside observe(), what it observes and how far it is
  scraping,   \* whether render_metrics() is in its loop over the histogram
  todo,       \* keys of the copy that are still to be rendered
  page,       \* for each key rendered or being rendered, the samples read so far
  lastPage    \* history: the page of the scrape before

observers == <<data, observing>>
renderer == <<scraping, todo, page, lastPage>>
histVars == <<observers, renderer>>

HistInit == /\ data = << >> /\ observing = << >>
            /\ scraping = FALSE /\ todo = {}
            /\ page = << >> /\ lastPage = << >>

Put(f, k, v) == [x \in DOMAIN f \cup {k} |-> IF x = k THEN v ELSE f[x]]

-----------------------------------------------------------------------------
EmptyData == [count |-> 0, sum |-> 0, values |-> << >>, buckets |-> [i \in Buckets |-> 0]]

\* Slip: _get_data() does not look for the key first.
GetDataAnew(k) == EmptyData
GetData(k) == IF k \in DOMAIN data THEN data[k] ELSE EmptyData

\* The calls of observe() so far.
Observations == MapThenSumSet(LAMBDA k : data[k].count, DOMAIN data)

\* Slip: a thread does not wait for the lock.
Unlocked == TRUE
LockFree == observing = << >>

\* observe(): take the lock, find the data, `self.count += 1`.
Observe(t, k, v) ==
  /\ t \notin DOMAIN observing /\ LockFree /\ Observations < MaxObservations
  /\ data' = Put(data, k, [GetData(k) EXCEPT !.count = @ + 1])
  /\ observing' = Put(observing, t, [key |-> k, value |-> v, at |-> 0])
  /\ UNCHANGED renderer

\* The sum, the extremes (which nobody reads) and the list of values.
AddValue(t) ==
  /\ t \in DOMAIN observing /\ observing[t].at = 0
  /\ LET k == observing[t].key  v == observing[t].value IN
       data' = [data EXCEPT ![k].sum = @ + v, ![k].values = Append(@, v)]
  /\ observing' = [observing EXCEPT ![t].at = 1]
  /\ UNCHANGED renderer

\* Leaving the i-th bucket behind; after the last one the lock is released.
Leave(t, i) ==
  observing' = IF i < Len(Bounds) THEN [observing EXCEPT ![t].at = i + 1]
               ELSE [u \in DOMAIN observing \ {t} |-> observing[u]]

\* Slips: only the first bucket that fits is counted; the lock is not released.
CountFirstFit(t, i) ==
  /\ t \in DOMAIN observing /\ observing[t].at = i
  /\ LET k == observing[t].key  v == observing[t].value
         fits == v <= Bounds[i] /\ \A j \in 1..i - 1 : v > Bounds[j]
     IN  data' = [data EXCEPT ![k].buckets[i] = @ + IF fits THEN 1 ELSE 0]
  /\ Leave(t, i)
  /\ UNCHANGED renderer

CountAndKeepLock(t, i) ==
  /\ t \in DOMAIN observing /\ observing[t].at = i
  /\ LET k == observing[t].key  v == observing[t].value IN
       data' = [data EXCEPT ![k].buckets[i] = @ + IF v <= Bounds[i] THEN 1 ELSE 0]
  /\ observing' = [observing EXCEPT ![t].at = i + 1]
  /\ UNCHANGED renderer

\* `if value <= bound: self.buckets[i] += 1`
CountBucket(t, i) ==
  /\ t \in DOMAIN observing /\ observing[t].at = i
  /\ LET k == observing[t].key  v == observing[t].value IN
       data' = [data EXCEPT ![k].buckets[i] = @ + IF v <= Bounds[i] THEN 1 ELSE 0]
  /\ Leave(t, i)
  /\ UNCHANGED renderer

-----------------------------------------------------------------------------
\* What a caller that holds the lock gets from percentile(p) and mean().

\* Slip: the values are taken in the order they came.
PercentileUnsorted(d, p) ==
  LET n == Len(d.values)
      idx == (n * p) \div 100
  IN  d.values[IF idx < n THEN idx + 1 ELSE n]

\* sorted(data.values)
Sorted(vs) ==
  LET n == Len(vs)
      order == CHOOSE p \in Bijection(1..n, 1..n) :
                 \A i, j \in 1..n : i < j => vs[p[i]] <= vs[p[j]]
  IN  [i \in 1..n |-> vs[order[i]]]

\* sorted_vals[min(int(n * p / 100), n - 1)], counted from 1
Percentile(d, p) ==
  LET n == Len(d.values)
      idx == (n * p) \div 100
  IN  Sorted(d.values)[IF idx < n THEN idx + 1 ELSE n]

-----------------------------------------------------------------------------
\* render_metrics(), the loop over the histogram's series.

\* hist.all_data(): a copy of the dictionary, not of the data.
CopySeries ==
  /\ ~scraping /\ LockFree
  /\ scraping' = TRUE
  /\ todo' = DOMAIN data
  /\ page' = << >>
  /\ UNCHANGED <<observers, lastPage>>

\* The fields of a series in the order they are read: the buckets, the count for
\* le="+Inf", the sum, and the count again for _count.
Inf == Len(Bounds) + 1
Sum == Len(Bounds) + 2
Count == Len(Bounds) + 3

\* Slip: +Inf is taken from the last bucket, which lags behind the first.
FieldInfFromBuckets(d, n) == IF n \in Buckets THEN d.buckets[n]
                             ELSE IF n = Inf THEN d.buckets[Len(Bounds)]
                             ELSE IF n = Sum THEN d.sum ELSE d.count
Field(d, n) == IF n \in Buckets THEN d.buckets[n]
               ELSE IF n = Sum THEN d.sum ELSE d.count

Samples(k) == IF k \in DOMAIN page THEN page[k] ELSE << >>

ReadField(k) ==
  /\ scraping /\ k \in todo
  /\ DOMAIN page \cap todo \subseteq {k}  \* no other series is half read
  /\ page' = Put(page, k, Append(Samples(k), Field(data[k], Len(Samples(k)) + 1)))
  /\ todo' = IF Len(Samples(k)) + 1 = Count THEN todo \ {k} ELSE todo
  /\ UNCHANGED <<observers, scraping, lastPage>>

PageDone ==
  /\ scraping /\ todo = {}
  /\ scraping' = FALSE
  /\ lastPage' = page /\ page' = << >>
  /\ UNCHANGED <<observers, todo>>

\* The number printed for a bucket is the sum of the buckets up to it; the other
\* samples are printed as they were read.
Rendered(s, n) ==
  LET cumulative[i \in Buckets] == s[i] + IF i = 1 THEN 0 ELSE cumulative[i - 1]
  IN  IF n \in Buckets THEN cumulative[n] ELSE s[n]

ObserveStep(t) == AddValue(t) \/ \E i \in Buckets : CountBucket(t, i)
RenderStep == (\E k \in Keys : ReadField(k)) \/ PageDone

HistNext == \/ \E t \in Threads, k \in Keys, v \in Values : Observe(t, k, v)
            \/ \E t \in Threads : ObserveStep(t)
            \/ CopySeries \/ RenderStep

HistSpec == HistInit /\ [][HistNext]_histVars

-----------------------------------------------------------------------------
DataType == [count : Nat, sum : Nat, values : Seq(Values), buckets : [Buckets -> Nat]]

TypeOK ==
  /\ DOMAIN data \subseteq Keys /\ data \in [DOMAIN data -> DataType]
  /\ DOMAIN observing \subseteq Threads
  /\ observing \in [DOMAIN observing ->
                      [key : DOMAIN data, value : Values, at : 0..Len(Bounds)]]
  /\ scraping \in BOOLEAN /\ todo \subseteq DOMAIN data
  /\ DOMAIN page \subseteq DOMAIN data /\ page \in [DOMAIN page -> Seq(Nat)]
  /\ DOMAIN lastPage \subseteq DOMAIN data /\ lastPage \in [DOMAIN lastPage -> Seq(Nat)]

\* Threads that observe the same series at once lose nothing: whoever holds the
\* lock finds in each bucket the number of values up to its bound, and in the
\* count the number of all (test_metrics.py: "Buckets are cumulative").
LockedReadsAgree ==
  LockFree => \A k \in DOMAIN data :
    /\ data[k].count = Len(data[k].values)
    /\ \A i \in Buckets :
         data[k].buckets[i] =
           Cardinality({m \in 1..Len(data[k].values) : data[k].values[m] <= Bounds[i]})

\* The p-th percentile is one: at most p percent of the values are below it, and
\* at least p percent are not above it.
QuantileAt(p) ==
  \A k \in DOMAIN data :
    LET vs == data[k].values  n == Len(vs)  q == Percentile(data[k], p) IN
    n > 0 => /\ 100 * Cardinality({m \in 1..n : vs[m] < q}) <= p * n
             /\ 100 * Cardinality({m \in 1..n : vs[m] <= q}) >= p * n
PercentileIsQuantile == \A p \in {0, 25, 50, 75, 90, 99, 100} : QuantileAt(p)

\* The fields of a series change while they are read, but they are written in the
\* opposite order: no bucket that is read exceeds the count read after it, for +Inf
\* or for _count, nor does the first of these exceed the second.  The page is
\* another matter: render_metrics() adds the buckets, which are cumulative already,
\* up once more, so that the i-th bucket printed may be i times the +Inf sample.
ScrapeOrdered ==
  \A k \in DOMAIN page : LET s == page[k] IN
    \A i, j \in 1..Len(s) : (i < j /\ i # Sum /\ j \in {Inf, Count}) =>
      s[i] <= s[j] /\ Rendered(s, i) <= s[j] * IF i \in Buckets THEN i ELSE 1

\* Of the buckets read, a larger one lags behind a smaller one by the one
\* observation that the lock admits, never by more.
SkewAtMostOne ==
  \A k \in DOMAIN page : LET s == page[k] IN
    \A i, j \in 1..Len(s) \cap Buckets : i < j => s[i] <= s[j] + 1

\* The sum on a page is that of the first so many values, and their number
\* differs from neither count on the page by more than the counts differ, or one.
SumIsOfPrefix ==
  \A k \in DOMAIN page : LET s == page[k] IN
    Len(s) = Count => \E m \in s[Inf] - 1 .. s[Count] :
      m <= Len(data[k].values) /\ s[Sum] = FoldLeft(+, 0, SubSeq(data[k].values, 1, m))

\* No number printed goes back from one scrape to the next, neither the counts nor
\* the buckets that the renderer adds up, nor the sum as long as no value observed
\* is negative.
ScrapesMonotone ==
  \A k \in DOMAIN page \cap DOMAIN lastPage :
    \A n \in 1..Len(page[k]) : Rendered(lastPage[k], n) <= Rendered(page[k], n)
=============================================================================
