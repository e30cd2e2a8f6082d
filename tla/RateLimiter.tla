------------------------------- MODULE RateLimiter -------------------------------
(***************************************************************************)
(* The rate limiter of the API routes (rate-limit.ts) for one identifier:  *)
(* a counter in Redis per aligned window, and when Redis fails a counter   *)
(* in memory whose window starts with the first request.  Requests run     *)
(* concurrently and give way at every await.                               *)
(*                                                                         *)
(* The code as it is: the windows are fixed, so a burst across a boundary  *)
(* passes twice the limit (the comment calls them sliding); a request      *)
(* whose Redis call fails after it was counted is counted in memory too;   *)
(* the pause of RETRY_COOLDOWN only keeps a new client from being made: a  *)
(* client that once answered is used by every request, however often it    *)
(* failed; and the counter of a request that dies before EXPIRE stays in   *)
(* Redis for good.                                                         *)
(***************************************************************************)
EXTENDS Integers, FiniteSets

CONSTANTS
  Requests,       \* requests of the one identifier
  MaxRequests,    \* maxRequests
  Window,         \* windowMs
  Cooldown,       \* REDIS_RETRY_COOLDOWN
  HasRedis,       \* REDIS_URL is set
  NoEntry,        \* no entry in memory, no window yet
  MaxTime         \* bound

ASSUME LimiterAssumption ==
  /\ IsFiniteSet(Requests) /\ MaxRequests \in Nat \ {0} /\ Window \in Nat \ {0}
  /\ Cooldown \in Nat /\ HasRedis \in BOOLEAN /\ MaxTime \in Nat
  /\ NoEntry \notin Nat /\ NoEntry \notin [count : Nat, resetAt : Nat]

VARIABLES
  now,
  counters,       \* Redis: [window start -> count]
  ttls,           \* Redis: when the counter of a window expires, or NoEntry
  client,         \* the process: redisClient is set
  lastFailure,    \* the process: lastRedisFailure
  entry,          \* the process: the entry [count, resetAt], or NoEntry
  phase,          \* of a request: "new", "ping", "incr", "expire", "done"
  window,         \* of a request: the window it was counted in, <<store, window>>
  count           \* of a request: the count it was told, its answer

redisVars == <<counters, ttls>>
processVars == <<client, lastFailure, entry>>
requestVars == <<phase, window, count>>
limiterVars == <<now, redisVars, processVars, requestVars>>

Starts == {Window * k : k \in 0..(MaxTime \div Window)}
Bucket == (now \div Window) * Window

LimiterInit ==
  /\ now = 0 /\ counters = [b \in Starts |-> 0] /\ ttls = [b \in Starts |-> NoEntry]
  /\ client = FALSE /\ lastFailure = -Cooldown /\ entry = NoEntry
  /\ phase = [r \in Requests |-> "new"]
  /\ window = [r \in Requests |-> <<>>] /\ count = [r \in Requests |-> 0]

Goto(r, p) == phase' = [phase EXCEPT ![r] = p]
Counted(r, store, n) ==
  /\ window' = [window EXCEPT ![r] = store] /\ count' = [count EXCEPT ![r] = n]

(* checkMemoryLimit: no await, so nothing comes between.                   *)
CheckMemoryLimit(r) ==
  LET fresh == IF entry = NoEntry THEN TRUE ELSE now > entry.resetAt
      next == IF fresh THEN [count |-> 1, resetAt |-> now + Window]
              ELSE [entry EXCEPT !.count = @ + 1] IN
  /\ entry' = next
  /\ Goto(r, "done") /\ Counted(r, <<"memory", next.resetAt>>, next.count)

(* getRedis: the client, or a new one unless the last failed lately.       *)
GetRedis(r) ==
  /\ phase[r] = "new" /\ UNCHANGED <<now, redisVars, client, lastFailure>>
  /\ IF ~HasRedis \/ (~client /\ now - lastFailure < Cooldown)
     THEN CheckMemoryLimit(r)
     ELSE Goto(r, IF client THEN "incr" ELSE "ping") /\ UNCHANGED <<entry, window, count>>

Ping(r) ==
  /\ phase[r] = "ping" /\ UNCHANGED <<now, redisVars>>
  /\ \/ client' = TRUE /\ Goto(r, "incr") /\ UNCHANGED <<lastFailure, entry, window, count>>
     \/ lastFailure' = now /\ CheckMemoryLimit(r) /\ UNCHANGED client

(* Seeded bug: the counter is read before, and written after, the await.   *)
IncrReadsFirst(r) ==
  /\ phase[r] = "incr" /\ UNCHANGED <<now, ttls, processVars>>
  /\ IF window[r] = <<>>
     THEN Counted(r, <<"redis", Bucket>>, counters[Bucket] + 1) /\ UNCHANGED <<phase, counters>>
     ELSE /\ counters' = [counters EXCEPT ![window[r][2]] = count[r]]
          /\ Goto(r, "done") /\ UNCHANGED <<window, count>>

(* INCR, and EXPIRE by the first of a window.                              *)
Incr(r) ==
  /\ phase[r] = "incr" /\ UNCHANGED <<now, ttls, processVars>>
  /\ counters' = [counters EXCEPT ![Bucket] = @ + 1]
  /\ Counted(r, <<"redis", Bucket>>, counters[Bucket] + 1)
  /\ Goto(r, IF counters[Bucket] = 0 THEN "expire" ELSE "done")

Expire(r) ==
  /\ phase[r] = "expire" /\ UNCHANGED <<now, counters, processVars, window, count>>
  /\ ttls' = [ttls EXCEPT ![window[r][2]] = now + Window]
  /\ Goto(r, "done")

(* The error handler of a client, also of one whose ping failed: nobody    *)
(* closes it, and it goes on connecting.                                   *)
ClientError ==
  /\ client \/ lastFailure >= 0 \/ \E r \in Requests : phase[r] = "ping"
  /\ lastFailure' = now
  /\ UNCHANGED <<now, redisVars, client, entry, requestVars>>

(* A call fails, before or after Redis has done it: memory decides.        *)
RedisFails(r) ==
  /\ phase[r] \in {"incr", "expire"} /\ UNCHANGED <<now, client>>
  /\ \/ UNCHANGED redisVars
     \/ /\ phase[r] = "incr" /\ UNCHANGED ttls
        /\ counters' = [counters EXCEPT ![Bucket] = @ + 1]
  /\ lastFailure' = now /\ CheckMemoryLimit(r)

(* Time: Redis drops what expired, the cleanup the entry that is over.     *)
Elapse ==
  /\ now < MaxTime /\ now' = now + 1
  /\ counters' = [b \in Starts |->
       IF ttls[b] # NoEntry /\ now' >= ttls[b] THEN 0 ELSE counters[b]]
  /\ ttls' = [b \in Starts |->
       IF ttls[b] # NoEntry /\ now' >= ttls[b] THEN NoEntry ELSE ttls[b]]
  /\ UNCHANGED <<processVars, requestVars>>
Cleanup ==
  /\ entry # NoEntry /\ now > entry.resetAt /\ entry' = NoEntry
  /\ UNCHANGED <<now, redisVars, client, lastFailure, requestVars>>

LimiterNext ==
  \/ \E r \in Requests : GetRedis(r) \/ Ping(r) \/ Incr(r) \/ Expire(r) \/ RedisFails(r)
  \/ ClientError \/ Elapse \/ Cleanup

LimiterSpec == LimiterInit /\ [][LimiterNext]_limiterVars

-----------------------------------------------------------------------------
Decided == {r \in Requests : phase[r] = "done"}
Limited(r) == count[r] > MaxRequests
InWindow(w) == {r \in Requests : window[r] = w}

(* In every window of either store no more requests than the limit pass,   *)
(* however they interleave and whatever fails; and memory refuses a        *)
(* request only when the limit was used up in its window (Redis may count  *)
(* one whose reply is lost).                                               *)
LimiterBudget ==
  \A r \in Decided :
    /\ Cardinality({q \in InWindow(window[r]) \cap Decided : ~Limited(q)}) <= MaxRequests
    /\ (Limited(r) /\ window[r][1] = "memory") =>
         Cardinality(InWindow(window[r])) > MaxRequests
=============================================================================
