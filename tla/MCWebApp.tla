-------------------------------- MODULE MCWebApp --------------------------------
(* Small instances of the parts of the web application.                    *)
EXTENDS WebApp

CONSTANTS q1, q2, kind
MCQueries == {q1, q2}
MCInitialMatches == [q \in MCQueries |-> IF q = q1 THEN 3 ELSE 1]
MCStamp == <<1, 1, 2, 2>>   \* the second page begins within a tie
=============================================================================
