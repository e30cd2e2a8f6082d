------------------------------ MODULE MCEventFeed ------------------------------
(* Small instances of EventFeed.                                            *)
EXTENDS EventFeed

CONSTANTS payment, contract

(* The second event is of a category the stream's filter leaves out.        *)
TwoCategories == [e \in Events |-> IF e = 2 THEN contract ELSE payment]

(* Streams, over rows that retention never removes, or removes at once (a  *)
(* fraction of a day, floored to none).                                     *)
StreamSettings ==
  {[conns |-> 2, time |-> 2, retention |-> 0, stats |-> FALSE],
   [conns |-> 1, time |-> 1, retention |-> 50, stats |-> FALSE]}

(* Statistics over three days and no streams.                               *)
StatsSettings ==
  [conns : {0}, time : {5}, retention : {250}, stats : {TRUE}]

FeedSettings == StreamSettings \cup StatsSettings
=============================================================================
