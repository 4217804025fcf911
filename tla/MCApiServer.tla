---------------------------- MODULE MCApiServer ----------------------------
(* The kinds of requests for checking the API process with TLC. *)
EXTENDS ApiServer

CONSTANTS x, y

NoDatabase(s) ==
    [server |-> s, database |-> FALSE, session |-> FALSE, body |-> FALSE, rows |-> << >>]
Database(session, body, keys) ==
    [server |-> "Api", database |-> TRUE, session |-> session, body |-> body, rows |-> keys]

\* A scrape, a refusal, a logout, a signup, and two transactions behind the
\* session check that lock the same rows in opposite orders.
MCPlans ==
    {NoDatabase("Metrics"), NoDatabase("Api"), Database(FALSE, FALSE, << >>),
     Database(FALSE, TRUE, <<x>>),
     Database(TRUE, TRUE, <<x, y>>), Database(TRUE, TRUE, <<y, x>>)}
=============================================================================
