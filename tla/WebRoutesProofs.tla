---------------------------- MODULE WebRoutesProofs ----------------------------
(***************************************************************************)
(* Theorems about two parts of the API routes: the rate limiter, for any   *)
(* number of requests, any limit and any length of the window; and the     *)
(* routes of figures over the daily rollup, for any ranges, any            *)
(* granularities of which the day is a multiple, and any life of a cached  *)
(* answer.                                                                 *)
(***************************************************************************)
EXTENDS RateLimiter, Timeseries, FiniteSetTheorems, WellFoundedInduction, TLAPS

-----------------------------------------------------------------------------
(* The rate limiter *)

Entries == [count : Nat, resetAt : Nat]
Stores  == {"redis", "memory"} \X Nat

LimiterTypeOK ==
  /\ now \in 0..MaxTime
  /\ counters \in [Starts -> Nat] /\ ttls \in [Starts -> Nat \cup {NoEntry}]
  /\ entry \in Entries \cup {NoEntry}
  /\ phase \in [Requests -> {"new", "ping", "incr", "expire", "done"}]
  /\ window \in [Requests -> Stores \cup {<<>>}]
  /\ count \in [Requests -> Nat]

Counts(r) == window[r] # <<>>

(* A request is counted in one window, from the moment it was told a count.*)
RequestsCountedOnce ==
  \A r \in Requests :
    /\ Counts(r) <=> phase[r] \in {"expire", "done"}
    /\ phase[r] = "expire" => \E b \in Nat : window[r] = <<"redis", b>>

(* No two requests of a window were told the same count.                   *)
CountsDiffer ==
  \A q, r \in Requests :
    (q # r /\ Counts(q) /\ window[q] = window[r]) => count[q] # count[r]

CountsPositive == \A r \in Requests : Counts(r) => count[r] >= 1

(* What a counter in use has told is not above its value: one that expires *)
(* is the counter of a window that is over.                                *)
RedisLeads ==
  /\ \A r \in Requests, b \in Nat : window[r] = <<"redis", b>> =>
       b \in Starts /\ b <= Bucket /\ (b = Bucket => count[r] <= counters[b])
  /\ \A b \in Starts : ttls[b] # NoEntry => b + Window <= ttls[b]

(* The entry in memory is newer than all windows counted before it, and it *)
(* counts requests that are in its window.                                 *)
MemoryLeads ==
  /\ \A r \in Requests, t \in Nat : window[r] = <<"memory", t>> =>
       /\ IF entry = NoEntry THEN t < now
          ELSE t <= entry.resetAt /\ (t = entry.resetAt => count[r] <= entry.count)
       /\ count[r] <= Cardinality(InWindow(<<"memory", t>>))
  /\ entry # NoEntry =>
       entry.count <= Cardinality(InWindow(<<"memory", entry.resetAt>>))

LInv ==
  /\ LimiterTypeOK /\ RequestsCountedOnce /\ CountsDiffer /\ CountsPositive
  /\ RedisLeads /\ MemoryLeads

-----------------------------------------------------------------------------
(* Windows of the clock *)

LEMMA BucketBounds ==
  ASSUME NEW t \in 0..MaxTime
  PROVE  /\ (t \div Window) * Window \in Starts \cap Nat
         /\ (t \div Window) * Window <= t
         /\ t < (t \div Window) * Window + Window
<1>1. t \div Window \in 0..(MaxTime \div Window)
  BY LimiterAssumption
<1>2. (t \div Window) * Window = Window * (t \div Window)
  BY <1>1, LimiterAssumption
<1> QED
  BY <1>1, <1>2, LimiterAssumption DEF Starts

LEMMA BucketsGrow ==
  ASSUME NEW t \in Nat, NEW u \in Nat, t <= u
  PROVE  (t \div Window) * Window <= (u \div Window) * Window
<1>1. t \div Window <= u \div Window /\ t \div Window \in Nat /\ u \div Window \in Nat
  BY LimiterAssumption
<1> QED
  BY <1>1, LimiterAssumption

LEMMA StartsTyped == Starts \subseteq Nat
BY LimiterAssumption DEF Starts

LEMMA WindowsFinite ==
  ASSUME NEW w
  PROVE  IsFiniteSet(InWindow(w)) /\ Cardinality(InWindow(w)) \in Nat
<1>1. IsFiniteSet(InWindow(w))
  BY LimiterAssumption, FS_Subset DEF InWindow
<1> QED
  BY <1>1, FS_CardinalityType

-----------------------------------------------------------------------------
(* The invariant *)

LEMMA LimiterStarts == LimiterInit => LInv
<1> SUFFICES ASSUME LimiterInit
             PROVE  LInv
  OBVIOUS
<1> USE LimiterAssumption, StartsTyped DEF LimiterInit
<1>1. LimiterTypeOK
  BY DEF LimiterTypeOK
<1>2. \A r \in Requests : ~Counts(r)
  BY DEF Counts
<1>3. RequestsCountedOnce /\ CountsDiffer /\ CountsPositive
  BY <1>2 DEF RequestsCountedOnce, CountsDiffer, CountsPositive
<1>4. \A r \in Requests : \A s, b : window[r] # <<s, b>>
  OBVIOUS
<1>5. RedisLeads /\ MemoryLeads
  BY <1>4 DEF RedisLeads, MemoryLeads
<1> QED
  BY <1>1, <1>3, <1>5 DEF LInv

(* Steps that count no request and leave the entry and the clock alone.    *)
LEMMA QuietLimiter ==
  ASSUME LInv, LimiterTypeOK', UNCHANGED <<now, entry, window, count>>,
         \A r \in Requests :
           /\ phase'[r] \in {"expire", "done"} <=> phase[r] \in {"expire", "done"}
           /\ phase'[r] = "expire" => phase[r] = "expire",
         \A b \in Starts : counters[b] <= counters'[b],
         \A b \in Starts : ttls'[b] # NoEntry => b + Window <= ttls'[b]
  PROVE  LInv'
<1>1. RequestsCountedOnce' /\ CountsDiffer' /\ CountsPositive'
  BY DEF LInv, RequestsCountedOnce, CountsDiffer, CountsPositive, Counts
<1>2. MemoryLeads'
  BY DEF LInv, MemoryLeads, InWindow
<1>3. RedisLeads'
  <2>1. counters \in [Starts -> Nat] /\ counters' \in [Starts -> Nat] /\ count \in [Requests -> Nat]
    BY DEF LInv, LimiterTypeOK
  <2> QED
    BY <2>1 DEF LInv, RedisLeads, Bucket
<1> QED
  BY <1>1, <1>2, <1>3 DEF LInv

(* A request that is counted in memory: the entry's window takes it, with a*)
(* count that was not told there before.                                   *)
LEMMA MemoryCounts ==
  ASSUME LInv, NEW r \in Requests, phase[r] # "done", CheckMemoryLimit(r), now' = now,
         counters' \in [Starts -> Nat], \A b \in Starts : counters[b] <= counters'[b],
         ttls' = ttls
  PROVE  LInv'
<1>1. /\ now \in Nat /\ entry \in Entries \cup {NoEntry} /\ NoEntry \notin Entries
      /\ phase \in [Requests -> {"new", "ping", "incr", "expire", "done"}]
      /\ window \in [Requests -> Stores \cup {<<>>}] /\ count \in [Requests -> Nat]
  BY LimiterAssumption DEF LInv, LimiterTypeOK, Entries
<1> DEFINE Expired == IF entry = NoEntry THEN TRUE ELSE now > entry.resetAt
<1>2. PICK t \in Nat, n \in Nat :
        /\ entry' \in Entries /\ entry'.count = n /\ entry'.resetAt = t
        /\ phase' = [phase EXCEPT ![r] = "done"]
        /\ window' = [window EXCEPT ![r] = <<"memory", t>>] /\ count' = [count EXCEPT ![r] = n]
        /\ n >= 1
        /\ IF Expired THEN n = 1 /\ t = now + Window
           ELSE entry # NoEntry /\ n = entry.count + 1 /\ t = entry.resetAt
  <2>1. CASE Expired
    <3>1. now + Window \in Nat /\ entry' = [count |-> 1, resetAt |-> now + Window]
      BY <1>1, <2>1, LimiterAssumption DEF CheckMemoryLimit
    <3>2. entry' \in Entries /\ entry'.count = 1 /\ entry'.resetAt = now + Window
      BY <3>1 DEF Entries
    <3>3. /\ phase' = [phase EXCEPT ![r] = "done"]
          /\ window' = [window EXCEPT ![r] = <<"memory", now + Window>>]
          /\ count' = [count EXCEPT ![r] = 1]
      BY <2>1, <3>1, <3>2 DEF CheckMemoryLimit, Goto, Counted
    <3>4. 1 \in Nat /\ 1 >= 1
      OBVIOUS
    <3> HIDE DEF Expired
    <3>5. now + Window \in Nat
      BY <3>1
    <3> WITNESS now + Window \in Nat, 1 \in Nat
    <3> QED
      BY <2>1, <3>2, <3>3, <3>4
  <2>2. CASE ~Expired
    <3>1. entry # NoEntry /\ entry' = [entry EXCEPT !.count = @ + 1] /\ entry \in Entries
      BY <1>1, <2>2 DEF CheckMemoryLimit
    <3>2. entry' \in Entries /\ entry'.count = entry.count + 1 /\ entry'.resetAt = entry.resetAt
          /\ entry.count \in Nat /\ entry.resetAt \in Nat
      BY <3>1 DEF Entries
    <3>3. /\ phase' = [phase EXCEPT ![r] = "done"]
          /\ window' = [window EXCEPT ![r] = <<"memory", entry.resetAt>>]
          /\ count' = [count EXCEPT ![r] = entry.count + 1]
      BY <2>2, <3>1, <3>2 DEF CheckMemoryLimit, Goto, Counted
    <3>4. entry.count + 1 \in Nat /\ entry.count + 1 >= 1
      BY <3>2
    <3> HIDE DEF Expired
    <3> QED
      BY <2>2, <3>1, <3>2, <3>3, <3>4
  <2> QED
    BY <2>1, <2>2
<1> DEFINE m == <<"memory", t>>
<1>5. \A q \in Requests : window[q] = m => ~Expired /\ count[q] <= n - 1
  <2> SUFFICES ASSUME NEW q \in Requests, window[q] = m
               PROVE  ~Expired /\ count[q] <= n - 1
    OBVIOUS
  <2>1. IF entry = NoEntry THEN t < now
        ELSE t <= entry.resetAt /\ (t = entry.resetAt => count[q] <= entry.count)
    BY DEF LInv, MemoryLeads
  <2> QED
    BY <1>1, <1>2, <2>1, LimiterAssumption DEF Entries
<1>6. \A u \in Nat : window[r] # <<"memory", u>>
  <2>1. CASE phase[r] = "expire"
    BY <2>1 DEF LInv, RequestsCountedOnce
  <2>2. CASE phase[r] # "expire"
    <3>1. window[r] = <<>>
      BY <1>1, <2>2 DEF LInv, RequestsCountedOnce, Counts
    <3> QED
      BY <3>1
  <2> QED
    BY <2>1, <2>2
<1>7. InWindow(m)' = InWindow(m) \cup {r} /\ r \notin InWindow(m)
  BY <1>1, <1>2, <1>6 DEF InWindow
<1>8. \A u \in Nat : InWindow(<<"memory", u>>) \subseteq InWindow(<<"memory", u>>)'
  BY <1>1, <1>2, <1>6 DEF InWindow
<1>9. \A u \in Nat :
        /\ Cardinality(InWindow(<<"memory", u>>)) <= Cardinality(InWindow(<<"memory", u>>)')
        /\ Cardinality(InWindow(<<"memory", u>>)) \in Nat
        /\ Cardinality(InWindow(<<"memory", u>>)') \in Nat
  <2> SUFFICES ASSUME NEW u \in Nat
               PROVE  /\ Cardinality(InWindow(<<"memory", u>>)) <= Cardinality(InWindow(<<"memory", u>>)')
                      /\ Cardinality(InWindow(<<"memory", u>>)) \in Nat
                      /\ Cardinality(InWindow(<<"memory", u>>)') \in Nat
    OBVIOUS
  <2>1. IsFiniteSet(InWindow(<<"memory", u>>)')
    BY LimiterAssumption, FS_Subset DEF InWindow
  <2> QED
    BY <1>8, <2>1, WindowsFinite, FS_Subset, FS_CardinalityType
<1>10. Cardinality(InWindow(m)') = Cardinality(InWindow(m)) + 1 /\ Cardinality(InWindow(m)) \in Nat
  BY <1>7, WindowsFinite, FS_AddElement
<1>11. n <= Cardinality(InWindow(m)')
  <2>1. CASE Expired
    BY <1>2, <1>10, <2>1
  <2>2. CASE ~Expired
    <3>1. entry # NoEntry /\ n = entry.count + 1 /\ t = entry.resetAt
      BY <1>2, <2>2
    <3>2. entry.count <= Cardinality(InWindow(m))
      BY <3>1 DEF LInv, MemoryLeads
    <3>3. entry.count \in Nat
      BY <1>1, <3>1 DEF Entries
    <3> QED
      BY <1>10, <3>1, <3>2, <3>3
  <2> QED
    BY <2>1, <2>2
<1>12. \A q \in Requests : /\ q # r => window'[q] = window[q] /\ count'[q] = count[q] /\ phase'[q] = phase[q]
                           /\ window'[r] = m /\ count'[r] = n /\ phase'[r] = "done"
  BY <1>1, <1>2
<1>13. LimiterTypeOK'
  <2>1. m \in Stores
    BY <1>2 DEF Stores
  <2> QED
    BY <1>1, <1>2, <2>1 DEF LInv, LimiterTypeOK
<1>14. RequestsCountedOnce'
  BY <1>12 DEF LInv, RequestsCountedOnce, Counts
<1>15. CountsDiffer'
  BY <1>1, <1>2, <1>5, <1>12 DEF LInv, CountsDiffer, Counts
<1>16. CountsPositive'
  BY <1>2, <1>12 DEF LInv, CountsPositive, Counts
<1>17. RedisLeads'
  <2>1. \A q \in Requests, b \in Nat : window'[q] = <<"redis", b>> => q # r
    BY <1>12
  <2>2. counters \in [Starts -> Nat]
    BY DEF LInv, LimiterTypeOK
  <2>3. \A q \in Requests, b \in Nat : window[q] = <<"redis", b>> =>
          b \in Starts /\ b <= Bucket /\ (b = Bucket => count[q] <= counters'[b])
    BY <1>1, <2>2 DEF LInv, RedisLeads
  <2>4. Bucket' = Bucket
    BY DEF Bucket
  <2>5. \A b \in Starts : ttls[b] # NoEntry => b + Window <= ttls[b]
    BY DEF LInv, RedisLeads
  <2> QED
    BY <1>12, <2>1, <2>3, <2>4, <2>5 DEF RedisLeads
<1>18. MemoryLeads'
  <2>1. ASSUME NEW q \in Requests, NEW u \in Nat, window'[q] = <<"memory", u>>
        PROVE  /\ u <= t /\ (u = t => count'[q] <= n)
               /\ count'[q] <= Cardinality(InWindow(<<"memory", u>>)')
    <3>1. CASE q = r
      <4>1. u = t /\ count'[q] = n
        BY <1>12, <2>1, <3>1
      <4> QED
        BY <1>2, <1>11, <4>1
    <3>2. CASE q # r
      <4>1. window[q] = <<"memory", u>> /\ count'[q] = count[q] /\ count[q] \in Nat
        BY <1>1, <1>12, <2>1, <3>2
      <4>2. /\ IF entry = NoEntry THEN u < now
               ELSE u <= entry.resetAt /\ (u = entry.resetAt => count[q] <= entry.count)
            /\ count[q] <= Cardinality(InWindow(<<"memory", u>>))
        BY <4>1 DEF LInv, MemoryLeads
      <4>3. u <= t
        BY <1>1, <1>2, <4>2, LimiterAssumption DEF Entries
      <4>4. u = t => count[q] <= n
        BY <1>2, <1>5, <4>1
      <4> QED
        BY <1>9, <4>1, <4>2, <4>3, <4>4
    <3> QED
      BY <3>1, <3>2
  <2>2. entry' # NoEntry
    BY <1>1, <1>2
  <2>3. ASSUME NEW q \in Requests, NEW u \in Nat, window'[q] = <<"memory", u>>
        PROVE  /\ u <= entry'.resetAt /\ (u = entry'.resetAt => count'[q] <= entry'.count)
               /\ count'[q] <= Cardinality(InWindow(<<"memory", u>>)')
    BY <1>2, <2>1, <2>3
  <2>4. entry'.count <= Cardinality(InWindow(<<"memory", t>>)') /\ entry'.resetAt = t
    BY <1>2, <1>11
  <2> QED
    BY <2>2, <2>3, <2>4 DEF MemoryLeads, InWindow
<1> QED
  BY <1>13, <1>14, <1>15, <1>16, <1>17, <1>18 DEF LInv

(* A request that is counted in Redis.                                     *)
LEMMA IncrCounts ==
  ASSUME LInv, NEW r \in Requests, Incr(r)
  PROVE  LInv'
<1> DEFINE n == counters[Bucket] + 1
           w == <<"redis", Bucket>>
<1>1. /\ now \in 0..MaxTime /\ counters \in [Starts -> Nat]
      /\ phase \in [Requests -> {"new", "ping", "incr", "expire", "done"}]
      /\ window \in [Requests -> Stores \cup {<<>>}] /\ count \in [Requests -> Nat]
  BY DEF LInv, LimiterTypeOK
<1>2. Bucket \in Starts /\ Bucket \in Nat /\ Bucket <= now
  BY <1>1, BucketBounds DEF Bucket
<1>3. /\ counters' = [counters EXCEPT ![Bucket] = n]
      /\ window' = [window EXCEPT ![r] = w] /\ count' = [count EXCEPT ![r] = n]
      /\ phase[r] = "incr" /\ UNCHANGED <<now, ttls, entry>>
      /\ phase' = [phase EXCEPT ![r] = IF counters[Bucket] = 0 THEN "expire" ELSE "done"]
  BY DEF Incr, Counted, Goto, processVars
<1>4. n \in Nat /\ n >= 1
  BY <1>1, <1>2
<1>5. Bucket' = Bucket
  BY <1>3 DEF Bucket
<1>6. window[r] = <<>>
  BY <1>3 DEF LInv, RequestsCountedOnce, Counts
<1>7. \A q \in Requests : window[q] = w => count[q] < n
  <2>1. \A q \in Requests : window[q] = w => count[q] <= counters[Bucket]
    BY <1>2 DEF LInv, RedisLeads
  <2> QED
    BY <1>1, <1>2, <2>1
<1> HIDE DEF n
<1>8. \A q \in Requests : /\ q # r => window'[q] = window[q] /\ count'[q] = count[q] /\ phase'[q] = phase[q]
                          /\ window'[r] = w /\ count'[r] = n /\ phase'[r] \in {"expire", "done"}
  BY <1>1, <1>3
<1>9. LimiterTypeOK'
  <2>1. w \in Stores
    BY <1>2 DEF Stores
  <2> QED
    BY <1>1, <1>2, <1>3, <1>4, <2>1 DEF LInv, LimiterTypeOK
<1>10. RequestsCountedOnce'
  <2>1. \A q \in Requests : q # r =>
          /\ window'[q] # <<>> <=> phase'[q] \in {"expire", "done"}
          /\ phase'[q] = "expire" => \E b \in Nat : window'[q] = <<"redis", b>>
    BY <1>8 DEF LInv, RequestsCountedOnce, Counts
  <2>2. window'[r] # <<>> /\ phase'[r] \in {"expire", "done"}
        /\ \E b \in Nat : window'[r] = <<"redis", b>>
    BY <1>2, <1>8
  <2> QED
    BY <2>1, <2>2 DEF RequestsCountedOnce, Counts
<1>11. CountsDiffer'
  BY <1>1, <1>4, <1>7, <1>8 DEF LInv, CountsDiffer, Counts
<1>12. CountsPositive'
  BY <1>4, <1>8 DEF LInv, CountsPositive, Counts
<1>13. RedisLeads'
  <2>1. ASSUME NEW q \in Requests, NEW b \in Nat, window'[q] = <<"redis", b>>
        PROVE  b \in Starts /\ b <= Bucket /\ (b = Bucket => count'[q] <= n)
    <3>1. CASE q = r
      <4>1. b = Bucket
        BY <1>8, <2>1, <3>1
      <4> QED
        BY <1>2, <1>4, <1>8, <3>1, <4>1
    <3>2. CASE q # r
      <4>1. window[q] = <<"redis", b>> /\ count'[q] = count[q] /\ count[q] \in Nat
        BY <1>1, <1>8, <2>1, <3>2
      <4> QED
        BY <1>4, <1>7, <4>1 DEF LInv, RedisLeads
    <3> QED
      BY <3>1, <3>2
  <2>2. counters'[Bucket] = n
    BY <1>1, <1>2, <1>3
  <2>3. \A b \in Starts : ttls[b] # NoEntry => b + Window <= ttls[b]
    BY DEF LInv, RedisLeads
  <2> QED
    BY <1>3, <1>5, <2>1, <2>2, <2>3 DEF RedisLeads
<1>14. MemoryLeads'
  <2>1. \A u : InWindow(<<"memory", u>>)' = InWindow(<<"memory", u>>)
    BY <1>1, <1>3, <1>6 DEF InWindow
  <2>2. \A q \in Requests, u \in Nat : window'[q] = <<"memory", u>> =>
          window[q] = <<"memory", u>> /\ count'[q] = count[q]
    BY <1>8
  <2> QED
    BY <1>3, <2>1, <2>2 DEF LInv, MemoryLeads
<1> QED
  BY <1>9, <1>10, <1>11, <1>12, <1>13, <1>14 DEF LInv

(* A counter that expires is that of a window that is over.                *)
LEMMA ElapseKeeps ==
  ASSUME LInv, Elapse
  PROVE  LInv'
<1>1. /\ now \in 0..MaxTime /\ now' = now + 1 /\ now' \in 0..MaxTime
      /\ counters \in [Starts -> Nat] /\ ttls \in [Starts -> Nat \cup {NoEntry}]
      /\ count \in [Requests -> Nat] /\ entry \in Entries \cup {NoEntry}
  BY LimiterAssumption DEF LInv, LimiterTypeOK, Elapse
<1>2. /\ \A b \in Starts : counters'[b] =
             IF ttls[b] # NoEntry /\ now' >= ttls[b] THEN 0 ELSE counters[b]
      /\ \A b \in Starts : ttls'[b] =
             IF ttls[b] # NoEntry /\ now' >= ttls[b] THEN NoEntry ELSE ttls[b]
      /\ counters' \in [Starts -> Nat] /\ ttls' \in [Starts -> Nat \cup {NoEntry}]
      /\ UNCHANGED <<entry, phase, window, count>>
  BY <1>1 DEF Elapse, processVars, requestVars
<1>3. LimiterTypeOK' /\ RequestsCountedOnce' /\ CountsDiffer' /\ CountsPositive'
  BY <1>1, <1>2 DEF LInv, LimiterTypeOK, RequestsCountedOnce, CountsDiffer, CountsPositive, Counts
<1>4. Bucket \in Nat /\ Bucket' \in Nat /\ Bucket <= Bucket' /\ now' < Bucket' + Window
  BY <1>1, BucketBounds, BucketsGrow DEF Bucket
<1>5. RedisLeads'
  <2>1. ASSUME NEW r \in Requests, NEW b \in Nat, window[r] = <<"redis", b>>
        PROVE  b \in Starts /\ b <= Bucket' /\ (b = Bucket' => count[r] <= counters'[b])
    <3>1. b \in Starts /\ b <= Bucket /\ (b = Bucket => count[r] <= counters[b])
          /\ (ttls[b] # NoEntry => b + Window <= ttls[b])
      BY <2>1 DEF LInv, RedisLeads
    <3>2. b <= Bucket'
      BY <1>4, <3>1
    <3>3. ASSUME b = Bucket'
          PROVE  count[r] <= counters'[b]
      <4>1. b = Bucket
        BY <1>4, <3>1, <3>3
      <4>2. ~(ttls[b] # NoEntry /\ now' >= ttls[b])
        <5> SUFFICES ASSUME ttls[b] # NoEntry, now' >= ttls[b]
                     PROVE  FALSE
          OBVIOUS
        <5>1. ttls[b] \in Nat /\ now' \in Nat
          BY <1>1, <3>1
        <5>2. now' < b + Window
          BY <1>4, <3>3
        <5> QED
          BY <3>1, <5>1, <5>2, LimiterAssumption
      <4> QED
        BY <1>2, <3>1, <4>1, <4>2
    <3> QED
      BY <3>1, <3>2, <3>3
  <2>2. \A b \in Starts : ttls'[b] # NoEntry => b + Window <= ttls'[b]
    BY <1>2 DEF LInv, RedisLeads
  <2> QED
    BY <1>2, <2>1, <2>2 DEF RedisLeads
<1>6. MemoryLeads'
  <2>1. \A u : InWindow(<<"memory", u>>)' = InWindow(<<"memory", u>>)
    BY <1>2 DEF InWindow
  <2> QED
    BY <1>1, <1>2, <2>1 DEF LInv, MemoryLeads
<1> QED
  BY <1>3, <1>5, <1>6 DEF LInv

LEMMA LimiterStep == LInv /\ [LimiterNext]_limiterVars => LInv'
<1> SUFFICES ASSUME LInv, [LimiterNext]_limiterVars
             PROVE  LInv'
  OBVIOUS
<1>1. /\ counters \in [Starts -> Nat] /\ ttls \in [Starts -> Nat \cup {NoEntry}]
      /\ phase \in [Requests -> {"new", "ping", "incr", "expire", "done"}]
      /\ now \in 0..MaxTime /\ entry \in Entries \cup {NoEntry}
  BY DEF LInv, LimiterTypeOK
<1>2. Bucket \in Starts /\ Bucket \in Nat /\ Bucket <= now
  BY <1>1, BucketBounds DEF Bucket
<1>3. \A b \in Starts : ttls[b] # NoEntry => b + Window <= ttls[b]
  BY DEF LInv, RedisLeads
<1>4. ASSUME NEW r \in Requests, NEW p \in {"new", "ping", "incr"}, phase[r] \in {"new", "ping", "incr"},
             Goto(r, p), UNCHANGED <<now, counters, ttls, entry, window, count>>
      PROVE  LInv'
  <2>1. LimiterTypeOK'
    BY <1>4 DEF LInv, LimiterTypeOK, Goto
  <2>2. \A q \in Requests :
          /\ phase'[q] \in {"expire", "done"} <=> phase[q] \in {"expire", "done"}
          /\ phase'[q] = "expire" => phase[q] = "expire"
    BY <1>1, <1>4 DEF Goto
  <2> QED
    BY <1>1, <1>3, <1>4, <2>1, <2>2, QuietLimiter
<1>5. ASSUME NEW r \in Requests, GetRedis(r)
      PROVE  LInv'
  <2>1. CASE CheckMemoryLimit(r)
    BY <1>1, <1>5, <2>1, MemoryCounts DEF GetRedis, redisVars
  <2>2. CASE Goto(r, IF client THEN "incr" ELSE "ping") /\ UNCHANGED <<entry, window, count>>
    BY <1>4, <1>5, <2>2 DEF GetRedis, redisVars
  <2> QED
    BY <1>5, <2>1, <2>2 DEF GetRedis
<1>6. ASSUME NEW r \in Requests, Ping(r)
      PROVE  LInv'
  <2>1. CASE CheckMemoryLimit(r)
    BY <1>1, <1>6, <2>1, MemoryCounts DEF Ping, redisVars
  <2>2. CASE Goto(r, "incr") /\ UNCHANGED <<entry, window, count>>
    BY <1>4, <1>6, <2>2 DEF Ping, redisVars
  <2> QED
    BY <1>6, <2>1, <2>2 DEF Ping
<1>7. ASSUME NEW r \in Requests, Incr(r)
      PROVE  LInv'
  BY <1>7, IncrCounts
<1>8. ASSUME NEW r \in Requests, Expire(r)
      PROVE  LInv'
  <2>1. PICK b \in Nat : window[r] = <<"redis", b>>
    BY <1>8 DEF Expire, LInv, RequestsCountedOnce
  <2>2. b \in Starts /\ b <= now
    BY <1>1, <1>2, <2>1 DEF LInv, RedisLeads
  <2>3. /\ ttls' = [ttls EXCEPT ![b] = now + Window] /\ phase' = [phase EXCEPT ![r] = "done"]
        /\ phase[r] = "expire" /\ UNCHANGED <<now, counters, entry, window, count>>
    BY <1>8, <2>1 DEF Expire, Goto, processVars
  <2>4. now + Window \in Nat /\ b + Window <= now + Window
    BY <1>1, <2>2, LimiterAssumption
  <2>5. LimiterTypeOK'
    BY <1>1, <2>2, <2>3, <2>4 DEF LInv, LimiterTypeOK
  <2>6. \A a \in Starts : ttls'[a] # NoEntry => a + Window <= ttls'[a]
    BY <1>1, <1>3, <2>2, <2>3, <2>4
  <2>7. \A q \in Requests :
          /\ phase'[q] \in {"expire", "done"} <=> phase[q] \in {"expire", "done"}
          /\ phase'[q] = "expire" => phase[q] = "expire"
    BY <1>1, <2>3
  <2> QED
    BY <1>1, <2>3, <2>5, <2>6, <2>7, QuietLimiter
<1>9. ASSUME NEW r \in Requests, RedisFails(r)
      PROVE  LInv'
  <2>1. /\ CheckMemoryLimit(r) /\ phase[r] # "done" /\ now' = now /\ ttls' = ttls
        /\ counters' = counters \/ counters' = [counters EXCEPT ![Bucket] = @ + 1]
    BY <1>9 DEF RedisFails, redisVars
  <2>2. counters' \in [Starts -> Nat] /\ \A b \in Starts : counters[b] <= counters'[b]
    BY <1>1, <1>2, <2>1
  <2> QED
    BY <2>1, <2>2, MemoryCounts
<1>10. CASE ClientError \/ UNCHANGED limiterVars
  <2>1. UNCHANGED <<now, counters, ttls, entry, phase, window, count>>
    BY <1>10 DEF ClientError, limiterVars, redisVars, processVars, requestVars
  <2>2. LimiterTypeOK'
    BY <2>1 DEF LInv, LimiterTypeOK
  <2> QED
    BY <1>1, <1>3, <2>1, <2>2, QuietLimiter
<1>11. CASE Elapse
  BY <1>11, ElapseKeeps
<1>12. CASE Cleanup
  <2>1. /\ entry # NoEntry /\ now > entry.resetAt /\ entry' = NoEntry
        /\ UNCHANGED <<now, counters, ttls, phase, window, count>>
    BY <1>12 DEF Cleanup, redisVars, requestVars
  <2>2. LimiterTypeOK' /\ RequestsCountedOnce' /\ CountsDiffer' /\ CountsPositive'
    BY <2>1 DEF LInv, LimiterTypeOK, RequestsCountedOnce, CountsDiffer, CountsPositive, Counts
  <2>3. RedisLeads'
    BY <2>1 DEF LInv, RedisLeads, Bucket
  <2>4. MemoryLeads'
    <3>1. \A u : InWindow(<<"memory", u>>)' = InWindow(<<"memory", u>>)
      BY <2>1 DEF InWindow
    <3>2. \A r \in Requests, t \in Nat : window[r] = <<"memory", t>> =>
            t < now /\ count[r] <= Cardinality(InWindow(<<"memory", t>>))
      <4>1. entry.resetAt \in Nat
        BY <1>1, <2>1 DEF Entries
      <4> QED
        BY <1>1, <2>1, <4>1 DEF LInv, MemoryLeads
    <3> QED
      BY <2>1, <3>1, <3>2 DEF MemoryLeads
  <2> QED
    BY <2>2, <2>3, <2>4 DEF LInv
<1> QED
  BY <1>5, <1>6, <1>7, <1>8, <1>9, <1>10, <1>11, <1>12 DEF LimiterNext

-----------------------------------------------------------------------------
(* From different counts to the number of requests let through *)

LEMMA BudgetHolds == LInv => LimiterBudget
<1> SUFFICES ASSUME LInv, NEW r \in Decided
             PROVE  /\ Cardinality({q \in InWindow(window[r]) \cap Decided : ~Limited(q)}) <= MaxRequests
                    /\ (Limited(r) /\ window[r][1] = "memory") =>
                         Cardinality(InWindow(window[r])) > MaxRequests
  BY DEF LimiterBudget
<1> DEFINE passed == {q \in InWindow(window[r]) \cap Decided : ~Limited(q)}
<1>1. r \in Requests /\ Counts(r) /\ window[r] \in Stores /\ count \in [Requests -> Nat]
  BY DEF Decided, LInv, RequestsCountedOnce, LimiterTypeOK, Counts
<1>2. Cardinality(passed) <= MaxRequests
  <2> DEFINE f == [q \in passed |-> count[q]]
  <2>1. \A q \in passed : q \in Requests /\ count[q] \in 1..MaxRequests
    BY <1>1, LimiterAssumption DEF InWindow, Limited, LInv, CountsPositive, Counts
  <2>2. \A p, q \in passed : p # q => count[p] # count[q]
    BY <1>1 DEF InWindow, LInv, CountsDiffer, Counts
  <2>3. f \in Injection(passed, 1..MaxRequests)
    BY <2>1, <2>2 DEF Injection, IsInjective
  <2>4. IsFiniteSet(1..MaxRequests) /\ Cardinality(1..MaxRequests) = MaxRequests
    BY FS_Interval, LimiterAssumption
  <2> HIDE DEF f, passed
  <2> QED
    BY <2>3, <2>4, FS_Injection
<1>3. ASSUME Limited(r), window[r][1] = "memory"
      PROVE  Cardinality(InWindow(window[r])) > MaxRequests
  <2>1. PICK t \in Nat : window[r] = <<"memory", t>>
    BY <1>1, <1>3 DEF Stores
  <2>2. count[r] <= Cardinality(InWindow(window[r]))
    BY <1>1, <2>1 DEF LInv, MemoryLeads
  <2> QED
    BY <1>1, <1>3, <2>2, WindowsFinite, LimiterAssumption DEF Limited
<1> QED
  BY <1>2, <1>3

(* In every window of either store no more requests pass than the limit,   *)
(* however many there are and however they interleave and fail.            *)
THEOREM BudgetKept == LimiterSpec => []LimiterBudget
<1> QED
  BY BudgetHolds, LimiterStarts, LimiterStep, PTL DEF LimiterSpec

-----------------------------------------------------------------------------
(* The series and the statistics *)

(* An event is captured before it is stored, and stored by now.            *)
RowsSound ==
  \A r \in eventRows : r.ts \in Int /\ r.stored \in Nat /\ r.ts <= r.stored /\ r.stored <= clock

(* A rolled-up count is of events of its day and category, and misses only *)
(* events stored when it had been read.                                    *)
GroupSound(s) ==
  /\ s.date \in Nat /\ s.date <= clock /\ s.events \subseteq eventRows
  /\ \A e \in s.events : e.category = s.category /\ FloorToBucket(e.ts, Day) = s.date
  /\ \A e \in s.events, r \in eventRows :
       (r.category = s.category /\ FloorToBucket(r.ts, Day) = s.date /\ r.stored < e.stored)
       => r \in s.events

RollupSound == \A s \in dailyStat \cup groups : GroupSound(s)

(* Once the rows are read, all of the range stored before the request are. *)
RowsRead(rows, key, at) ==
  /\ rows \subseteq eventRows
  /\ \A r \in eventRows : (r.stored < at /\ r.ts >= at - key.range) => r \in rows

QueriesSound ==
  \A q \in seriesQueries :
    /\ q.key \in Keys /\ q.at \in Nat /\ FirstNow <= q.at /\ q.at <= clock
    /\ q.rows # NoFigures => q.key.granularity = Day /\ RowsRead(q.rows, q.key, q.at)

(* A series: every bucket has events of its own, from one table or the     *)
(* other, and none is missed but those of days rolled up.                  *)
BucketsSound(buckets, key, at) ==
  /\ DOMAIN buckets = BucketStarts(key, at)
  /\ \A t \in DOMAIN buckets :
       /\ \A r \in buckets[t].stats : key.granularity = Day /\ FloorToBucket(r.ts, Day) = t
       /\ \A r \in buckets[t].raw : FloorToBucket(r.ts, key.granularity) = t
  /\ \A t, u \in DOMAIN buckets : buckets[t].stats \cap buckets[u].raw = {}

NothingMissed(buckets, key, at) ==
  \A r \in eventRows :
    (/\ r.stored < at /\ r.ts >= at - key.range
     /\ key.granularity = Day => \A s \in dailyStat : s.date < FloorToBucket(r.ts, Day))
    => \E t \in DOMAIN buckets : r \in buckets[t].raw

RolledUpSound(buckets) ==
  \A t \in DOMAIN buckets : \A e \in buckets[t].stats :
    /\ e \in eventRows
    /\ \A r \in eventRows :
         (r.category = e.category /\ FloorToBucket(r.ts, Day) = t /\ r.stored < e.stored)
         => r \in buckets[t].stats

SeriesSound(buckets, key, at) ==
  /\ BucketsSound(buckets, key, at) /\ NothingMissed(buckets, key, at)
  /\ RolledUpSound(buckets)

CacheSound ==
  cachedTimeseries # NoFigures =>
    /\ cachedTimeseries.key \in Keys
    /\ cachedTimeseries.at \in Nat /\ cachedTimeseries.at <= clock
    /\ SeriesSound(cachedTimeseries.buckets, cachedTimeseries.key, cachedTimeseries.at)

TotalRead(total, at) == \A r \in eventRows : r.stored < at => r \in total
RecentRead(recent, at) ==
  \A r \in eventRows : (r.stored < at /\ r.ts >= at - Day) => r \in recent

StatsSound ==
  /\ \A q \in statsQueries :
       /\ q.at \in Nat /\ q.at <= clock
       /\ q.total # NoFigures => TotalRead(q.total, q.at)
       /\ q.recent # NoFigures => RecentRead(q.recent, q.at)
  /\ cachedStats # NoFigures =>
       /\ cachedStats.at \in Nat /\ cachedStats.at <= clock
       /\ TotalRead(cachedStats.total, cachedStats.at)
       /\ RecentRead(cachedStats.recent, cachedStats.at)

SeriesInv ==
  /\ clock \in Nat /\ FirstNow <= clock
  /\ RowsSound /\ RollupSound /\ QueriesSound /\ CacheSound /\ StatsSound

-----------------------------------------------------------------------------
LEMMA FloorBounds ==
  ASSUME NEW g \in Nat \ {0}, NEW x \in Int
  PROVE  /\ FloorToBucket(x, g) \in Int
         /\ FloorToBucket(x, g) <= x /\ x < FloorToBucket(x, g) + g
<1>1. x \div g \in Int /\ x = g * (x \div g) + (x % g) /\ x % g \in 0..(g - 1)
  OBVIOUS
<1>2. (x \div g) * g = g * (x \div g) /\ g * (x \div g) \in Int
  BY <1>1
<1> QED
  BY <1>1, <1>2 DEF FloorToBucket

LEMMA MultiplesDivide ==
  ASSUME NEW g \in Nat \ {0}, NEW k \in Nat
  PROVE  (k * g) % g = 0
<1> DEFINE n == k * g
           d == n \div g
           m == n % g
<1>1. n \in Nat /\ d \in Int /\ m \in 0..(g - 1) /\ n = g * d + m
  OBVIOUS
<1>2. (k - d) * g = m
  BY <1>1
<1>3. k - d \in Int
  BY <1>1
<1> HIDE DEF d, m
<1>4. CASE k - d <= 0
  <2>1. (k - d) * g <= 0
    BY <1>3, <1>4
  <2> QED
    BY <1>1, <1>2, <2>1 DEF m
<1>5. CASE k - d >= 1
  <2>1. (k - d) * g >= g
    BY <1>3, <1>5
  <2> QED
    BY <1>1, <1>2, <2>1
<1> QED
  BY <1>3, <1>4, <1>5

LEMMA FloorGrows ==
  ASSUME NEW g \in Nat \ {0}, NEW x \in Int, NEW y \in Int, x <= y
  PROVE  /\ FloorToBucket(x, g) <= FloorToBucket(y, g)
         /\ (FloorToBucket(y, g) - FloorToBucket(x, g)) % g = 0
<1> DEFINE a == x \div g
           b == y \div g
<1>1. a \in Int /\ b \in Int /\ a <= b
  OBVIOUS
<1> HIDE DEF a, b
<1>2. b - a \in Nat /\ (b - a) * g \in Nat
  BY <1>1
<1>3. b * g - a * g = (b - a) * g
  BY <1>1
<1>4. ((b - a) * g) % g = 0
  BY <1>2, MultiplesDivide
<1>5. b * g \in Int /\ a * g \in Int
  BY <1>1
<1> QED
  BY <1>2, <1>3, <1>4, <1>5 DEF FloorToBucket, a, b

LEMMA KeysTyped ==
  ASSUME NEW key \in Keys, NEW at \in Nat, FirstNow <= at
  PROVE  /\ key.granularity \in Nat \ {0} /\ key.range \in Nat
         /\ FirstBucket(key, at) \in Int /\ FirstBucket(key, at) <= at - key.range
         /\ at - key.range >= Day
<1>1. key.granularity \in {Hour, Day} /\ key.range \in Spans
  BY DEF Keys
<1>2. key.granularity \in Nat \ {0} /\ key.range \in Nat /\ FirstNow - key.range >= Day
  BY <1>1, SeriesAssumption
<1>3. at - key.range \in Int /\ at - key.range >= Day
  BY <1>2, SeriesAssumption
<1> QED
  BY <1>2, <1>3, FloorBounds DEF FirstBucket

(* An event of the range falls into one of the buckets.                    *)
LEMMA BucketOfEvent ==
  ASSUME NEW key \in Keys, NEW at \in Nat, FirstNow <= at,
         NEW x \in Int, FirstBucket(key, at) <= x, x <= at
  PROVE  FloorToBucket(x, key.granularity) \in BucketStarts(key, at)
<1> DEFINE g == key.granularity
           y == at - key.range
           f == FloorToBucket(x, g)
<1>1. g \in Nat \ {0} /\ y \in Int
  BY KeysTyped
<1>2. FirstBucket(key, at) = FloorToBucket(y, g)
  BY DEF FirstBucket
<1>3. f \in Int /\ f <= x
  BY <1>1, FloorBounds
<1>4. FloorToBucket(y, g) \in Int
  BY <1>1, FloorBounds
<1>5. FloorToBucket(y, g) <= f /\ (f - FloorToBucket(y, g)) % g = 0
  <2>1. CASE y <= x
    BY <1>1, <2>1, FloorGrows
  <2>2. CASE x < y
    <3> DEFINE a == x \div g
               b == y \div g
    <3>1. a \in Int /\ b \in Int /\ a <= b
      BY <1>1, <2>2
    <3>2. y < FloorToBucket(y, g) + g /\ x < f + g /\ FloorToBucket(y, g) <= x
      BY <1>1, <1>2, FloorBounds
    <3>3. FloorToBucket(y, g) = b * g /\ f = a * g
      BY DEF FloorToBucket
    <3> HIDE DEF a, b
    <3>4. b * g - a * g = (b - a) * g /\ (b - a) * g < g
      BY <1>1, <3>1, <3>2, <3>3
    <3>5. ~ (b - a >= 1)
      BY <1>1, <3>1, <3>4
    <3>6. f = FloorToBucket(y, g)
      BY <3>1, <3>3, <3>5
    <3>7. 0 % g = 0
      BY <1>1
    <3> QED
      BY <1>3, <3>6, <3>7
  <2> QED
    BY <1>1, <2>1, <2>2
<1> HIDE DEF f, y, g
<1> QED
  BY <1>2, <1>3, <1>4, <1>5 DEF BucketStarts, f, g

LEMMA LastRollupGreatest ==
  ASSUME NEW S, NEW n \in Nat, \A s \in S : s.date \in 0..n
  PROVE  /\ LastRollupDay(S) \in {0} \cup {s.date : s \in S}
         /\ \A s \in S : s.date <= LastRollupDay(S)
<1> DEFINE D == {0} \cup {s.date : s \in S}
           U == {u \in Nat : \A d \in D : d <= u}
           Less == {ss \in Nat \X Nat : ss[1] < ss[2]}
<1>1. IsWellFoundedOn(Less, Nat)
  BY NatLessThanWellFounded, Zenon DEF OpToRel
<1>2. \A a, b \in Nat : a < b => <<a, b>> \in Less
  OBVIOUS
<1>3. D \subseteq 0..n /\ 0 \in D
  <2>1. \A d \in D : d = 0 \/ \E s \in S : d = s.date
    OBVIOUS
  <2> QED
    BY <2>1
<1>4. n \in U /\ U \subseteq Nat
  BY <1>3
<1> HIDE DEF Less
<1>5. PICK u \in U : \A v \in U : ~ (<<v, u>> \in Less)
  BY <1>1, <1>4, WFMin
<1>6. ASSUME NEW v \in U
      PROVE  u <= v
  <2>1. u \in Nat /\ v \in Nat /\ ~ (<<v, u>> \in Less)
    BY <1>4, <1>5
  <2>2. ~ (v < u)
    BY <1>2, <2>1
  <2> QED
    BY <2>1, <2>2
<1>7. u \in D
  <2>1. SUFFICES ASSUME u \notin D
                 PROVE  FALSE
    OBVIOUS
  <2>2. u \in Nat /\ u > 0 /\ \A d \in D : d < u
    BY <1>3, <1>4, <2>1
  <2>3. u - 1 \in U
    BY <1>3, <2>2
  <2> QED
    BY <1>6, <2>2, <2>3
<1>8. \A s \in S : s.date <= u
  OBVIOUS
<1>9. \E d \in D : \A s \in S : s.date <= d
  BY <1>7, <1>8
<1> QED
  BY <1>9 DEF LastRollupDay

(* What Filled makes of the rows.                                          *)
LEMMA FilledSound ==
  ASSUME NEW key \in Keys, NEW at \in Nat, FirstNow <= at, NEW S, NEW R,
         \A s \in S : \A e \in s.events :
           key.granularity = Day /\ FloorToBucket(e.ts, Day) = s.date /\ e \notin R,
         \A r \in R : r.ts \in Int /\ FirstBucket(key, at) <= r.ts /\ r.ts <= at
  PROVE  /\ BucketsSound(Filled(key, at, S, R), key, at)
         /\ \A r \in R : \E t \in DOMAIN Filled(key, at, S, R) : r \in Filled(key, at, S, R)[t].raw
         /\ \A t \in DOMAIN Filled(key, at, S, R) : \A e \in Filled(key, at, S, R)[t].stats :
              \E s \in S : s.date = t /\ e \in s.events
                         /\ s.events \subseteq Filled(key, at, S, R)[t].stats
<1> DEFINE B == Filled(key, at, S, R)
<1>1. DOMAIN B = BucketStarts(key, at)
  BY DEF Filled
<1>2. ASSUME NEW t \in DOMAIN B
      PROVE  /\ B[t].stats = UNION {s.events : s \in {s \in S : s.date = t}}
             /\ B[t].raw = {r \in R : FloorToBucket(r.ts, key.granularity) = t}
  BY <1>1 DEF Filled
<1> HIDE DEF B
<1>3. ASSUME NEW t \in DOMAIN B, NEW e \in B[t].stats
      PROVE  \E s \in S : s.date = t /\ e \in s.events /\ s.events \subseteq B[t].stats
  <2>1. PICK s \in S : s.date = t /\ e \in s.events
    BY <1>2
  <2>2. s.events \subseteq B[t].stats
    BY <1>2, <2>1
  <2> QED
    BY <2>1, <2>2
<1>4. ASSUME NEW t \in DOMAIN B
      PROVE  /\ \A r \in B[t].stats :
                  key.granularity = Day /\ FloorToBucket(r.ts, Day) = t /\ r \notin R
             /\ \A r \in B[t].raw : FloorToBucket(r.ts, key.granularity) = t /\ r \in R
  BY <1>2, <1>3
<1>5. \A t, u \in DOMAIN B : B[t].stats \cap B[u].raw = {}
  BY <1>4
<1>6. BucketsSound(B, key, at)
  BY <1>1, <1>4, <1>5 DEF BucketsSound
<1>7. ASSUME NEW r \in R
      PROVE  \E t \in DOMAIN B : r \in B[t].raw
  <2>1. FloorToBucket(r.ts, key.granularity) \in DOMAIN B
    BY <1>1, BucketOfEvent
  <2> QED
    BY <1>2, <2>1
<1> QED
  BY <1>3, <1>6, <1>7 DEF B

-----------------------------------------------------------------------------
(* Steps of the requests *)

(* The answer of an hourly series.                                         *)
LEMMA HourlySound ==
  ASSUME SeriesInv, NEW key \in Keys, NEW at \in Nat, FirstNow <= at, at <= clock,
         key.granularity # Day,
         NEW rows, rows = {r \in eventRows : r.ts >= at - key.range}
  PROVE  SeriesSound(BuildTimeseriesBuckets(rows, key, at), key, at)
<1> DEFINE R == InRange(rows, key, at)
           B == Filled(key, at, {}, R)
<1>1. \A r \in R : r \in eventRows /\ r.ts \in Int /\ FirstBucket(key, at) <= r.ts /\ r.ts <= at
  BY DEF InRange, SeriesInv, RowsSound
<1>2. /\ BucketsSound(B, key, at)
      /\ \A r \in R : \E t \in DOMAIN B : r \in B[t].raw
      /\ \A t \in DOMAIN B : \A e \in B[t].stats : \E s \in {} : s.date = t
  <2> HIDE DEF R
  <2> QED
    BY <1>1, FilledSound
<1>3. RolledUpSound(B)
  BY <1>2 DEF RolledUpSound
<1>4. \A r \in eventRows : (r.stored < at /\ r.ts >= at - key.range) => r \in R
  BY KeysTyped DEF InRange, SeriesInv, RowsSound
<1> HIDE DEF R, B
<1>5. NothingMissed(B, key, at)
  BY <1>2, <1>4 DEF NothingMissed
<1> QED
  BY <1>2, <1>3, <1>5 DEF SeriesSound, BuildTimeseriesBuckets, R, B

(* The answer of a daily series.                                           *)
LEMMA DailySound ==
  ASSUME SeriesInv, NEW key \in Keys, NEW at \in Nat, FirstNow <= at, at <= clock,
         key.granularity = Day, NEW rows, RowsRead(rows, key, at),
         NEW S, S = {s \in dailyStat : s.date >= at - key.range}
  PROVE  SeriesSound(BuildDailyStatBuckets(S, rows, key, at), key, at)
<1> DEFINE last == LastRollupDay(S)
           R == {r \in InRange(rows, key, at) : FloorToBucket(r.ts, Day) > last}
           B == Filled(key, at, S, R)
<1>1. \A s \in S : GroupSound(s) /\ s \in dailyStat
  BY DEF SeriesInv, RollupSound
<1>2. clock \in Nat /\ \A s \in S : s.date \in 0..clock
  BY <1>1 DEF SeriesInv, GroupSound
<1>3. last \in {0} \cup {s.date : s \in S} /\ \A s \in S : s.date <= last
  BY <1>2, LastRollupGreatest
<1>4. last \in Nat
  BY <1>2, <1>3
<1> HIDE DEF last
<1>5. \A r \in R : /\ r \in eventRows /\ r.ts \in Int /\ FloorToBucket(r.ts, Day) > last
                   /\ FirstBucket(key, at) <= r.ts /\ r.ts <= at
  BY DEF InRange, SeriesInv, RowsSound, RowsRead
<1>6. \A s \in S : \A e \in s.events :
        key.granularity = Day /\ FloorToBucket(e.ts, Day) = s.date /\ e \notin R
  BY <1>1, <1>2, <1>3, <1>4, <1>5 DEF GroupSound
<1>7. /\ BucketsSound(B, key, at)
      /\ \A r \in R : \E t \in DOMAIN B : r \in B[t].raw
      /\ \A t \in DOMAIN B : \A e \in B[t].stats :
           \E s \in S : s.date = t /\ e \in s.events /\ s.events \subseteq B[t].stats
  <2> HIDE DEF R
  <2>1. \A r \in R : r.ts \in Int /\ FirstBucket(key, at) <= r.ts /\ r.ts <= at
    BY <1>5
  <2> QED
    BY ONLY key \in Keys, at \in Nat, FirstNow <= at, <1>6, <2>1, FilledSound
<1>8. RolledUpSound(B)
  <2> HIDE DEF B
  <2>1. SUFFICES ASSUME NEW t \in DOMAIN B, NEW e \in B[t].stats
                 PROVE  /\ e \in eventRows
                        /\ \A r \in eventRows :
                             (r.category = e.category /\ FloorToBucket(r.ts, Day) = t
                                /\ r.stored < e.stored) => r \in B[t].stats
    BY DEF RolledUpSound
  <2>2. PICK s \in S : s.date = t /\ e \in s.events /\ s.events \subseteq B[t].stats
    BY <1>7
  <2> QED
    BY <1>1, <2>2 DEF GroupSound
<1>9. ASSUME NEW r \in eventRows, r.stored < at, r.ts >= at - key.range,
             \A s \in dailyStat : s.date < FloorToBucket(r.ts, Day)
      PROVE  r \in R
  <2>1. r \in rows /\ r.ts \in Int /\ r.stored \in Nat /\ r.ts <= r.stored
    BY <1>9 DEF RowsRead, SeriesInv, RowsSound
  <2>2. /\ FirstBucket(key, at) \in Int /\ FirstBucket(key, at) <= at - key.range
        /\ key.range \in Nat /\ at - key.range >= Day
    BY KeysTyped
  <2>3. r \in InRange(rows, key, at)
    BY <1>9, <2>1, <2>2 DEF InRange
  <2>4. FloorToBucket(r.ts, Day) \in Int /\ r.ts < FloorToBucket(r.ts, Day) + Day
    BY <2>1, FloorBounds, SeriesAssumption
  <2>5. FloorToBucket(r.ts, Day) > 0
    BY <1>9, <2>1, <2>2, <2>4, SeriesAssumption
  <2>6. FloorToBucket(r.ts, Day) > last
    BY <1>1, <1>3, <1>9, <2>5
  <2> QED
    BY <2>3, <2>6
<1> HIDE DEF R, B
<1>10. NothingMissed(B, key, at)
  BY <1>7, <1>9 DEF NothingMissed
<1> QED
  BY <1>7, <1>8, <1>10 DEF SeriesSound, BuildDailyStatBuckets, R, B, last

-----------------------------------------------------------------------------
LEMMA SeriesStarts == SeriesInit => SeriesInv
BY SeriesAssumption DEF SeriesInit, SeriesInv, RowsSound, RollupSound, QueriesSound, CacheSound, StatsSound

(* What was read or cached stays sound while events come and rollups are   *)
(* written, for both only add to what was stored later.                    *)
LEMMA EventsOnlyAdd ==
  ASSUME SeriesInv, RowsSound', RollupSound', clock' \in Nat, clock <= clock',
         eventRows \subseteq eventRows',
         \A r \in eventRows' \ eventRows : r.stored = clock,
         \A s \in dailyStat : \E u \in dailyStat' : u.date = s.date
  PROVE  /\ \A rows, key, at : at \in Nat /\ at <= clock /\ RowsRead(rows, key, at)
              => RowsRead(rows, key, at)'
         /\ \A total, at : at \in Nat /\ at <= clock /\ TotalRead(total, at) => TotalRead(total, at)'
         /\ \A recent, at : at \in Nat /\ at <= clock /\ RecentRead(recent, at) => RecentRead(recent, at)'
         /\ \A buckets, key, at : at \in Nat /\ at <= clock /\ SeriesSound(buckets, key, at)
              => SeriesSound(buckets, key, at)'
<1>1. ASSUME NEW at \in Nat, at <= clock, NEW r \in eventRows', r.stored < at
      PROVE  r \in eventRows
  BY <1>1 DEF SeriesInv
<1>2. ASSUME NEW rows, NEW key, NEW at \in Nat, at <= clock, RowsRead(rows, key, at)
      PROVE  RowsRead(rows, key, at)'
  BY <1>1, <1>2 DEF RowsRead
<1>3. ASSUME NEW total, NEW at \in Nat, at <= clock, TotalRead(total, at)
      PROVE  TotalRead(total, at)'
  BY <1>1, <1>3 DEF TotalRead
<1>4. ASSUME NEW recent, NEW at \in Nat, at <= clock, RecentRead(recent, at)
      PROVE  RecentRead(recent, at)'
  BY <1>1, <1>4 DEF RecentRead
<1>5. ASSUME NEW buckets, NEW key, NEW at \in Nat, at <= clock, SeriesSound(buckets, key, at)
      PROVE  SeriesSound(buckets, key, at)'
  <2>1. BucketsSound(buckets, key, at)'
    BY <1>5 DEF SeriesSound, BucketsSound
  <2>2. ASSUME NEW r \in eventRows', r.stored < at, r.ts >= at - key.range,
               key.granularity = Day => \A s \in dailyStat' : s.date < FloorToBucket(r.ts, Day)
        PROVE  \E t \in DOMAIN buckets : r \in buckets[t].raw
    <3>1. r \in eventRows
      BY <1>1, <1>5, <2>2
    <3>2. key.granularity = Day => \A s \in dailyStat : s.date < FloorToBucket(r.ts, Day)
      BY <2>2
    <3> QED
      BY <1>5, <2>2, <3>1, <3>2 DEF SeriesSound, NothingMissed
  <2>3. ASSUME NEW t \in DOMAIN buckets, NEW e \in buckets[t].stats
        PROVE  /\ e \in eventRows'
               /\ \A r \in eventRows' :
                    (r.category = e.category /\ FloorToBucket(r.ts, Day) = t /\ r.stored < e.stored)
                    => r \in buckets[t].stats
    <3>1. e \in eventRows
      BY <1>5, <2>3 DEF SeriesSound, RolledUpSound
    <3>2. e.stored \in Nat /\ e.stored <= clock
      BY <3>1 DEF SeriesInv, RowsSound
    <3>3. ASSUME NEW r \in eventRows', r.stored < e.stored
          PROVE  r \in eventRows
      BY <1>1, <3>2, <3>3
    <3> QED
      BY <1>5, <2>3, <3>1, <3>3 DEF SeriesSound, RolledUpSound
  <2> QED
    BY <2>1, <2>2, <2>3 DEF SeriesSound, NothingMissed, RolledUpSound
<1> QED
  BY <1>2, <1>3, <1>4, <1>5

(* Steps that leave the requests and caches as they are.                   *)
LEMMA DatabaseStep ==
  ASSUME SeriesInv, RowsSound', RollupSound', clock' \in Nat, clock <= clock',
         eventRows \subseteq eventRows',
         \A r \in eventRows' \ eventRows : r.stored = clock,
         \A s \in dailyStat : \E u \in dailyStat' : u.date = s.date,
         UNCHANGED <<cacheVars, requestsVars>>
  PROVE  SeriesInv'
<1> USE DEF cacheVars, requestsVars
<1>1. clock' \in Nat /\ FirstNow <= clock'
  BY SeriesAssumption DEF SeriesInv
<1>2. QueriesSound'
  <2>1. SUFFICES ASSUME NEW q \in seriesQueries
                 PROVE  /\ q.key \in Keys /\ q.at \in Nat /\ FirstNow <= q.at /\ q.at <= clock'
                        /\ q.rows # NoFigures =>
                             q.key.granularity = Day /\ RowsRead(q.rows, q.key, q.at)'
    BY DEF QueriesSound
  <2>2. /\ q.key \in Keys /\ q.at \in Nat /\ FirstNow <= q.at /\ q.at <= clock
        /\ q.rows # NoFigures => q.key.granularity = Day /\ RowsRead(q.rows, q.key, q.at)
    BY DEF SeriesInv, QueriesSound
  <2> QED
    BY <2>2, EventsOnlyAdd DEF SeriesInv
<1>3. CacheSound'
  <2>1. SUFFICES ASSUME cachedTimeseries # NoFigures
                 PROVE  /\ cachedTimeseries.key \in Keys
                        /\ cachedTimeseries.at \in Nat /\ cachedTimeseries.at <= clock'
                        /\ SeriesSound(cachedTimeseries.buckets, cachedTimeseries.key, cachedTimeseries.at)'
    BY DEF CacheSound
  <2>2. /\ cachedTimeseries.key \in Keys
        /\ cachedTimeseries.at \in Nat /\ cachedTimeseries.at <= clock
        /\ SeriesSound(cachedTimeseries.buckets, cachedTimeseries.key, cachedTimeseries.at)
    BY <2>1 DEF SeriesInv, CacheSound
  <2> QED
    BY <2>2, EventsOnlyAdd DEF SeriesInv
<1>4. StatsSound'
  <2>1. ASSUME NEW q \in statsQueries
        PROVE  /\ q.at \in Nat /\ q.at <= clock'
               /\ q.total # NoFigures => TotalRead(q.total, q.at)'
               /\ q.recent # NoFigures => RecentRead(q.recent, q.at)'
    <3>1. /\ q.at \in Nat /\ q.at <= clock
          /\ q.total # NoFigures => TotalRead(q.total, q.at)
          /\ q.recent # NoFigures => RecentRead(q.recent, q.at)
      BY DEF SeriesInv, StatsSound
    <3> QED
      BY <3>1, EventsOnlyAdd DEF SeriesInv
  <2>2. ASSUME cachedStats # NoFigures
        PROVE  /\ cachedStats.at \in Nat /\ cachedStats.at <= clock'
               /\ TotalRead(cachedStats.total, cachedStats.at)'
               /\ RecentRead(cachedStats.recent, cachedStats.at)'
    <3>1. /\ cachedStats.at \in Nat /\ cachedStats.at <= clock
          /\ TotalRead(cachedStats.total, cachedStats.at)
          /\ RecentRead(cachedStats.recent, cachedStats.at)
      BY <2>2 DEF SeriesInv, StatsSound
    <3> QED
      BY <3>1, EventsOnlyAdd DEF SeriesInv
  <2> QED
    BY <2>1, <2>2 DEF StatsSound
<1> QED
  BY <1>1, <1>2, <1>3, <1>4 DEF SeriesInv

(* Steps that leave the clock and the database as they are.                *)
LEMMA RequestStep ==
  ASSUME SeriesInv, UNCHANGED <<clock, databaseVars>>, QueriesSound', CacheSound', StatsSound'
  PROVE  SeriesInv'
<1>1. RowsSound' /\ RollupSound'
  BY DEF databaseVars, SeriesInv, RowsSound, RollupSound, GroupSound
<1> QED
  BY <1>1 DEF SeriesInv

LEMMA Unchanged ==
  ASSUME UNCHANGED <<clock, databaseVars>>
  PROVE  /\ \A rows, key, at : RowsRead(rows, key, at)' <=> RowsRead(rows, key, at)
         /\ \A total, at : TotalRead(total, at)' <=> TotalRead(total, at)
         /\ \A recent, at : RecentRead(recent, at)' <=> RecentRead(recent, at)
         /\ \A buckets, key, at : SeriesSound(buckets, key, at)' <=> SeriesSound(buckets, key, at)
BY DEF databaseVars, RowsRead, TotalRead, RecentRead, SeriesSound, BucketsSound,
   NothingMissed, RolledUpSound

(* A series computed is cached.                                            *)
LEMMA Responds ==
  ASSUME SeriesInv, UNCHANGED <<clock, databaseVars, cachedStats, statsQueries>>,
         NEW q \in seriesQueries, NEW buckets, Respond(q, buckets),
         q.key \in Keys, q.at \in Nat, q.at <= clock, SeriesSound(buckets, q.key, q.at)
  PROVE  SeriesInv'
<1>1. seriesQueries' \subseteq seriesQueries
      /\ cachedTimeseries' = [key |-> q.key, at |-> q.at, buckets |-> buckets]
  BY DEF Respond
<1>2. QueriesSound' /\ StatsSound'
  BY <1>1, Unchanged DEF SeriesInv, QueriesSound, StatsSound
<1>3. CacheSound'
  BY <1>1, Unchanged DEF CacheSound
<1> QED
  BY <1>2, <1>3, RequestStep

LEMMA SeriesStep == SeriesInv /\ [SeriesNext]_seriesVars => SeriesInv'
<1> SUFFICES ASSUME SeriesInv, [SeriesNext]_seriesVars
             PROVE  SeriesInv'
  OBVIOUS
<1> USE DEF databaseVars
<1>1. CASE ClockTicks
  <2>1. clock' = clock + 1 /\ UNCHANGED <<databaseVars, cacheVars, requestsVars>> /\ clock \in Nat
    BY <1>1 DEF ClockTicks, SeriesInv
  <2>2. RowsSound'
    BY <2>1 DEF SeriesInv, RowsSound
  <2>3. RollupSound'
    BY <2>1 DEF SeriesInv, RollupSound, GroupSound
  <2> QED
    BY <2>1, <2>2, <2>3, DatabaseStep
<1>2. ASSUME NEW d \in Delays, NEW k \in Kinds, StoreEvent(clock - d, k)
      PROVE  SeriesInv'
  <2>1. PICK r : /\ r = [ts |-> clock - d, category |-> k, stored |-> clock]
                 /\ eventRows' = eventRows \cup {r}
                 /\ UNCHANGED <<clock, dailyStat, groups, cacheVars, requestsVars>>
    BY <1>2 DEF StoreEvent
  <2>2. d \in Nat /\ clock \in Nat
    BY SeriesAssumption DEF SeriesInv
  <2>3. r.ts = clock - d /\ r.stored = clock /\ r.ts \in Int /\ r.ts <= clock
    BY <2>1, <2>2
  <2>4. RowsSound'
    BY <2>1, <2>2, <2>3 DEF SeriesInv, RowsSound
  <2>5. ASSUME NEW s \in dailyStat \cup groups
        PROVE  GroupSound(s)'
    <3>1. GroupSound(s)
      BY DEF SeriesInv, RollupSound
    <3>2. \A e \in s.events : e \in eventRows /\ e.stored \in Nat /\ e.stored <= clock
      BY <3>1 DEF GroupSound, SeriesInv, RowsSound
    <3>3. \A e \in s.events : ~ (r.stored < e.stored)
      BY <2>2, <2>3, <3>2
    <3> QED
      BY <2>1, <3>1, <3>3 DEF GroupSound
  <2>6. RollupSound'
    BY <2>1, <2>5 DEF RollupSound
  <2> QED
    BY <2>1, <2>2, <2>3, <2>4, <2>6, DatabaseStep
<1>3. CASE RollupGroups
  <2>1. /\ groups' = GroupsOf(FloorToBucket(clock, Day) - Day)
        /\ UNCHANGED <<clock, eventRows, dailyStat, cacheVars, requestsVars>> /\ clock \in Nat
    BY <1>3 DEF RollupGroups, SeriesInv
  <2>2. RowsSound'
    BY <2>1 DEF SeriesInv, RowsSound
  <2> DEFINE day == FloorToBucket(clock, Day) - Day
  <2>3. day \in Nat /\ day <= clock
    <3>1. PICK s \in Spans : TRUE
      BY SeriesAssumption
    <3>2. s \in Nat /\ FirstNow - s >= Day /\ Day \in Nat \ {0} /\ FirstNow \in Nat
      BY SeriesAssumption
    <3>3. clock >= Day
      BY <2>1, <3>2 DEF SeriesInv
    <3>4. FloorToBucket(Day, Day) = Day
      BY <3>2 DEF FloorToBucket
    <3>5. FloorToBucket(clock, Day) \in Int /\ FloorToBucket(clock, Day) <= clock
      BY <2>1, <3>2, FloorBounds
    <3>6. Day <= FloorToBucket(clock, Day)
      BY <2>1, <3>2, <3>3, <3>4, FloorGrows
    <3> QED
      BY <2>1, <3>2, <3>5, <3>6
  <2> HIDE DEF day
  <2>4. ASSUME NEW g \in groups'
        PROVE  GroupSound(g)'
    <3>1. PICK k \in Kinds : g = [date |-> day, category |-> k,
            events |-> {r \in eventRows : r.category = k /\ FloorToBucket(r.ts, Day) = day}]
      BY <2>1 DEF GroupsOf, day
    <3> QED
      BY <2>1, <2>3, <3>1 DEF GroupSound
  <2>5. RollupSound'
    BY <2>1, <2>4 DEF SeriesInv, RollupSound, GroupSound
  <2> QED
    BY <2>1, <2>2, <2>5, DatabaseStep
<1>4. ASSUME NEW g \in groups, UpsertGroup(g)
      PROVE  SeriesInv'
  <2>1. /\ groups' \subseteq groups /\ clock \in Nat
        /\ dailyStat' = {s \in dailyStat : s.date # g.date \/ s.category # g.category} \cup {g}
        /\ UNCHANGED <<clock, eventRows, cacheVars, requestsVars>>
    BY <1>4 DEF UpsertGroup, SeriesInv
  <2>2. RowsSound'
    BY <2>1 DEF SeriesInv, RowsSound
  <2>3. RollupSound'
    BY <2>1 DEF SeriesInv, RollupSound, GroupSound
  <2>4. \A s \in dailyStat : \E u \in dailyStat' : u.date = s.date
    BY <2>1
  <2> QED
    BY <2>1, <2>2, <2>3, <2>4, DatabaseStep
<1>5. CASE RollupFails
  <2>1. groups' = {} /\ UNCHANGED <<clock, eventRows, dailyStat, cacheVars, requestsVars>>
    BY <1>5 DEF RollupFails
  <2>2. RowsSound' /\ RollupSound' /\ clock \in Nat
    BY <2>1 DEF SeriesInv, RowsSound, RollupSound, GroupSound
  <2> QED
    BY <2>1, <2>2, DatabaseStep
<1>6. ASSUME NEW key \in Keys, GetTimeseries(key)
      PROVE  SeriesInv'
  <2> DEFINE q == [n |-> figuresAsked + 1, key |-> key, at |-> clock, rows |-> NoFigures]
  <2>1. seriesQueries' = seriesQueries \cup {q} /\ UNCHANGED <<clock, databaseVars, cacheVars, statsQueries>>
    BY <1>6 DEF GetTimeseries
  <2>2. QueriesSound'
    BY <2>1 DEF SeriesInv, QueriesSound, RowsRead
  <2>3. CacheSound' /\ StatsSound'
    BY <2>1 DEF SeriesInv, cacheVars, CacheSound, StatsSound, SeriesSound, BucketsSound,
       NothingMissed, RolledUpSound, TotalRead, RecentRead
  <2> QED
    BY <2>1, <2>2, <2>3, RequestStep
<1>7. ASSUME NEW q \in seriesQueries, FindRows(q)
      PROVE  SeriesInv'
  <2> DEFINE rows == {r \in eventRows : r.ts >= q.at - q.key.range}
  <2>1. q.key \in Keys /\ q.at \in Nat /\ FirstNow <= q.at /\ q.at <= clock
    BY DEF SeriesInv, QueriesSound
  <2>2. UNCHANGED <<clock, databaseVars, cachedStats, statsQueries, figuresAsked>>
    BY <1>7 DEF FindRows
  <2>3. StatsSound'
    BY <2>2 DEF SeriesInv, StatsSound, TotalRead, RecentRead
  <2>4. CASE q.key.granularity = Day
    <3>1. PICK p : /\ p = [q EXCEPT !.rows = rows] /\ UNCHANGED cachedTimeseries
                   /\ seriesQueries' = (seriesQueries \ {q}) \cup {p}
      BY <1>7, <2>4 DEF FindRows
    <3>2. p.key = q.key /\ p.at = q.at /\ (p.rows = rows \/ p.rows = q.rows)
      BY <3>1
    <3>3. RowsRead(rows, q.key, q.at)
      BY DEF RowsRead
    <3> HIDE DEF rows
    <3>4. \A o \in seriesQueries' :
            /\ o.key \in Keys /\ o.at \in Nat /\ FirstNow <= o.at /\ o.at <= clock
            /\ o.rows # NoFigures => o.key.granularity = Day /\ RowsRead(o.rows, o.key, o.at)
      BY <2>1, <2>4, <3>1, <3>2, <3>3 DEF SeriesInv, QueriesSound
    <3>5. QueriesSound'
      BY <2>2, <3>4 DEF QueriesSound, RowsRead
    <3>6. CacheSound'
      BY <2>2, <3>1 DEF SeriesInv, CacheSound, SeriesSound, BucketsSound, NothingMissed, RolledUpSound
    <3> QED
      BY <2>2, <2>3, <3>5, <3>6, RequestStep
  <2>5. CASE q.key.granularity # Day
    <3>1. Respond(q, BuildTimeseriesBuckets(rows, q.key, q.at))
      BY <1>7, <2>5 DEF FindRows
    <3>2. SeriesSound(BuildTimeseriesBuckets(rows, q.key, q.at), q.key, q.at)
      BY <2>1, <2>5, HourlySound
    <3> HIDE DEF rows
    <3> QED
      BY <2>1, <2>2, <3>1, <3>2, Responds
  <2> QED
    BY <2>4, <2>5
<1>8. ASSUME NEW q \in seriesQueries, FindStats(q)
      PROVE  SeriesInv'
  <2> DEFINE S == {s \in dailyStat : s.date >= q.at - q.key.range}
  <2>1. q.key \in Keys /\ q.at \in Nat /\ FirstNow <= q.at /\ q.at <= clock
    BY DEF SeriesInv, QueriesSound
  <2>2. /\ UNCHANGED <<clock, databaseVars, cachedStats, statsQueries, figuresAsked>>
        /\ Respond(q, BuildDailyStatBuckets(S, q.rows, q.key, q.at)) /\ q.rows # NoFigures
    BY <1>8 DEF FindStats
  <2>3. RowsRead(q.rows, q.key, q.at) /\ q.key.granularity = Day
    BY <2>2 DEF SeriesInv, QueriesSound
  <2>4. SeriesSound(BuildDailyStatBuckets(S, q.rows, q.key, q.at), q.key, q.at)
    BY <2>1, <2>3, DailySound
  <2> HIDE DEF S
  <2> QED
    BY <2>1, <2>2, <2>4, Responds
<1>9. ASSUME NEW q \in seriesQueries, SeriesFails(q)
      PROVE  SeriesInv'
  <2>1. seriesQueries' \subseteq seriesQueries
        /\ UNCHANGED <<clock, databaseVars, cacheVars, statsQueries, figuresAsked>>
    BY <1>9 DEF SeriesFails
  <2>2. QueriesSound' /\ CacheSound' /\ StatsSound'
    BY <2>1, Unchanged DEF SeriesInv, QueriesSound, CacheSound, StatsSound, cacheVars
  <2> QED
    BY <2>1, <2>2, RequestStep
<1>10. CASE GetStats
  <2> DEFINE q == [n |-> figuresAsked + 1, at |-> clock, total |-> NoFigures, recent |-> NoFigures]
  <2>1. statsQueries' = statsQueries \cup {q} /\ UNCHANGED <<clock, databaseVars, cacheVars, seriesQueries>>
    BY <1>10 DEF GetStats
  <2>2. QueriesSound' /\ CacheSound' /\ StatsSound'
    BY <2>1, Unchanged DEF SeriesInv, QueriesSound, CacheSound, StatsSound, cacheVars
  <2> QED
    BY <2>1, <2>2, RequestStep
<1>11. ASSUME NEW q \in statsQueries, CountAll(q) \/ CountRecent(q)
       PROVE  SeriesInv'
  <2> DEFINE recent == {r \in eventRows : r.ts >= q.at - Day}
  <2>1. UNCHANGED <<clock, databaseVars, cacheVars, seriesQueries, figuresAsked>>
    BY <1>11 DEF CountAll, CountRecent
  <2>2. PICK p : /\ seriesQueries' = seriesQueries /\ statsQueries' = (statsQueries \ {q}) \cup {p}
                 /\ p = [q EXCEPT !.total = eventRows] \/ p = [q EXCEPT !.recent = recent]
    BY <1>11, <2>1 DEF CountAll, CountRecent
  <2>3. p.at = q.at /\ p.total \in {q.total, eventRows} /\ p.recent \in {q.recent, recent}
    <3>1. CASE p = [q EXCEPT !.total = eventRows]
      BY <3>1
    <3>2. CASE p = [q EXCEPT !.recent = recent]
      <4> HIDE DEF recent
      <4> QED
        BY <3>2
    <3> QED
      BY <2>2, <3>1, <3>2
  <2>4. TotalRead(eventRows, q.at) /\ RecentRead(recent, q.at)
    BY DEF TotalRead, RecentRead
  <2> HIDE DEF recent
  <2>5. QueriesSound' /\ CacheSound'
    BY <2>1, Unchanged DEF SeriesInv, QueriesSound, CacheSound, cacheVars
  <2>6. \A o \in statsQueries' :
          /\ o.at \in Nat /\ o.at <= clock
          /\ o.total # NoFigures => TotalRead(o.total, o.at)
          /\ o.recent # NoFigures => RecentRead(o.recent, o.at)
    BY <2>2, <2>3, <2>4 DEF SeriesInv, StatsSound
  <2>7. StatsSound'
    BY <2>1, <2>6, Unchanged DEF SeriesInv, StatsSound, cacheVars
  <2> QED
    BY <2>1, <2>5, <2>7, RequestStep
<1>12. ASSUME NEW q \in statsQueries, StatsRespond(q) \/ StatsFails(q)
       PROVE  SeriesInv'
  <2>1. /\ UNCHANGED <<clock, databaseVars, cachedTimeseries, seriesQueries>>
        /\ statsQueries' \subseteq statsQueries
        /\ \/ UNCHANGED cachedStats
           \/ /\ q.total # NoFigures /\ q.recent # NoFigures
              /\ cachedStats' = [at |-> q.at, total |-> q.total, recent |-> q.recent]
    BY <1>12 DEF StatsRespond, StatsFails, cacheVars
  <2>2. QueriesSound' /\ CacheSound'
    BY <2>1, Unchanged DEF SeriesInv, QueriesSound, CacheSound
  <2>3. StatsSound'
    BY <2>1, Unchanged DEF SeriesInv, StatsSound
  <2> QED
    BY <2>1, <2>2, <2>3, RequestStep
<1>13. CASE UNCHANGED seriesVars
  <2>1. UNCHANGED <<clock, databaseVars, cacheVars, seriesQueries, statsQueries>>
    BY <1>13 DEF seriesVars, requestsVars
  <2>2. QueriesSound' /\ CacheSound' /\ StatsSound'
    BY <2>1, Unchanged DEF SeriesInv, QueriesSound, CacheSound, StatsSound, cacheVars
  <2> QED
    BY <2>1, <2>2, RequestStep
<1> QED
  BY <1>1, <1>2, <1>3, <1>4, <1>5, <1>6, <1>7, <1>8, <1>9, <1>10, <1>11, <1>12, <1>13 DEF SeriesNext

(* What SeriesFit asks of one answer.                                      *)
LEMMA AnswerFits ==
  ASSUME SeriesInv, cachedTimeseries # NoFigures, NEW asked \in Int,
         cachedTimeseries.at <= asked, asked - cachedTimeseries.at < CacheTtl
  PROVE  SeriesFits(cachedTimeseries.key, asked)
<1> DEFINE key == cachedTimeseries.key
           at == cachedTimeseries.at
           B == cachedTimeseries.buckets
<1>1. key \in Keys /\ at \in Nat /\ SeriesSound(B, key, at)
  BY DEF SeriesInv, CacheSound
<1>2. DOMAIN B = BucketStarts(key, at)
  BY <1>1 DEF SeriesSound, BucketsSound
<1>3. ASSUME NEW r \in eventRows, NEW p \in Places(r, B), NEW o \in Places(r, B)
      PROVE  p = o
  <2>1. /\ p[1] \in DOMAIN B /\ p[2] \in {"stats", "raw"} /\ p = <<p[1], p[2]>> /\ r \in B[p[1]][p[2]]
        /\ o[1] \in DOMAIN B /\ o[2] \in {"stats", "raw"} /\ o = <<o[1], o[2]>> /\ r \in B[o[1]][o[2]]
    BY DEF Places
  <2>2. /\ \A t \in DOMAIN B : r \in B[t].stats => FloorToBucket(r.ts, Day) = t
        /\ \A t \in DOMAIN B : r \in B[t].raw => FloorToBucket(r.ts, key.granularity) = t
        /\ \A t, u \in DOMAIN B : ~ (r \in B[t].stats /\ r \in B[u].raw)
    BY <1>1 DEF SeriesSound, BucketsSound
  <2> HIDE DEF B, key
  <2>3. p[2] = o[2]
    BY <2>1, <2>2
  <2>4. p[1] = o[1]
    BY <2>1, <2>2, <2>3
  <2> QED
    BY <2>1, <2>3, <2>4
<1>4. ASSUME NEW r \in eventRows, Places(r, B) # {}
      PROVE  CountedOnce(r, B)
  BY <1>3, <1>4 DEF CountedOnce
<1>5. ASSUME NEW r \in eventRows, Due(asked, r), r.ts >= asked - key.range,
             key.granularity = Day => \A s \in dailyStat : s.date < FloorToBucket(r.ts, Day)
      PROVE  CountedOnce(r, B)
  <2>1. r.ts \in Int /\ r.stored \in Nat /\ key.range \in Nat
    BY <1>1, SeriesAssumption DEF SeriesInv, RowsSound, Keys
  <2>2. r.stored < at /\ r.ts >= at - key.range
    BY <1>1, <1>5, <2>1, SeriesAssumption DEF Due
  <2>3. PICK t \in DOMAIN B : r \in B[t].raw
    BY <1>1, <1>5, <2>2 DEF SeriesSound, NothingMissed
  <2>4. <<t, "raw">> \in Places(r, B)
    BY <2>3 DEF Places
  <2> QED
    BY <1>4, <2>4
<1>6. \A t \in DOMAIN B, e \in eventRows, r \in eventRows :
        (e \in B[t].stats /\ r.category = e.category
           /\ FloorToBucket(r.ts, Day) = t /\ r.stored < e.stored) => r \in B[t].stats
  BY <1>1 DEF SeriesSound, RolledUpSound
<1> QED
  BY <1>2, <1>4, <1>5, <1>6 DEF SeriesFits

LEMMA FiguresFitted ==
  ASSUME SeriesInv, cachedStats # NoFigures, NEW asked \in Int,
         cachedStats.at <= asked, asked - cachedStats.at < CacheTtl
  PROVE  FiguresFit(asked)
<1>1. /\ cachedStats.at \in Nat
      /\ TotalRead(cachedStats.total, cachedStats.at)
      /\ RecentRead(cachedStats.recent, cachedStats.at)
  BY DEF SeriesInv, StatsSound
<1>2. ASSUME NEW r \in eventRows, Due(asked, r)
      PROVE  /\ r.stored < cachedStats.at
             /\ r.ts >= asked - Day => r.ts >= cachedStats.at - Day
  BY <1>1, <1>2, SeriesAssumption DEF Due, SeriesInv, RowsSound
<1> QED
  BY <1>1, <1>2 DEF FiguresFit, TotalRead, RecentRead

LEMMA SeriesFitHolds == SeriesInv => SeriesFit
<1> SUFFICES ASSUME SeriesInv
             PROVE  SeriesFit
  OBVIOUS
<1>1. ASSUME cachedTimeseries # NoFigures
      PROVE  SeriesFits(cachedTimeseries.key, cachedTimeseries.at)
  <2>1. cachedTimeseries.at \in Int /\ cachedTimeseries.at - cachedTimeseries.at < CacheTtl
    BY <1>1, SeriesAssumption DEF SeriesInv, CacheSound
  <2> QED
    BY <1>1, <2>1, AnswerFits
<1>2. ASSUME NEW key \in Keys, TimeseriesHit(key)
      PROVE  SeriesFits(key, clock)
  <2>1. /\ cachedTimeseries # NoFigures /\ cachedTimeseries.key = key
        /\ clock - cachedTimeseries.at < CacheTtl /\ clock \in Int
        /\ cachedTimeseries.at <= clock
    BY <1>2 DEF TimeseriesHit, Fresh, SeriesInv, CacheSound
  <2> QED
    BY <2>1, AnswerFits
<1>3. ASSUME cachedStats # NoFigures
      PROVE  FiguresFit(cachedStats.at)
  <2>1. cachedStats.at \in Int /\ cachedStats.at - cachedStats.at < CacheTtl
    BY <1>3, SeriesAssumption DEF SeriesInv, StatsSound
  <2> QED
    BY <1>3, <2>1, FiguresFitted
<1>4. ASSUME Fresh(cachedStats)
      PROVE  FiguresFit(clock)
  <2>1. /\ cachedStats # NoFigures /\ clock - cachedStats.at < CacheTtl /\ clock \in Int
        /\ cachedStats.at <= clock
    BY <1>4 DEF Fresh, SeriesInv, StatsSound
  <2> QED
    BY <2>1, FiguresFitted
<1> QED
  BY <1>1, <1>2, <1>3, <1>4 DEF SeriesFit

(* An answer of the series, cached ones too, puts every event due into one *)
(* bucket, that of its time, but for days rolled up or only begun; and the *)
(* totals of /stats include every event due.                               *)
THEOREM SeriesCountsOnce == SeriesSpec => []SeriesFit
BY SeriesStarts, SeriesStep, SeriesFitHolds, PTL DEF SeriesSpec
=============================================================================
