--------------------------- MODULE TweetIngestion ---------------------------
(***************************************************************************)
(* The ingestion service of trading-system: run_forever polls the handles  *)
(* one after the other, _ingest_handle fetches the newest page of one of   *)
(* them and stores what it has not seen, under a retry decorator.          *)
(*                                                                         *)
(* The service is one coroutine; between two of its steps tweets are       *)
(* published and the process may die.  The delays of the retries and of    *)
(* the polling are not modelled.                                           *)
(***************************************************************************)
EXTENDS Naturals, Sequences

CONSTANTS
  Handles,         \* the list of handles that run_forever is called with
  Tweets,          \* tweets that may be published
  Author,          \* the handle that publishes a tweet
  Broken,          \* handles whose page can not be fetched (suspended, renamed)
  Malformed,       \* tweets that _tweet_to_record raises on
  PageSize,        \* limit: how many of a handle's newest tweets one call returns
  MaxAttempts      \* max_attempts of _retry

HandleSet == {Handles[i] : i \in 1 .. Len(Handles)}

\* What is assumed of the constants.
IngestionAssumption ==
  /\ Handles \in Seq(HandleSet) /\ Len(Handles) > 0
  /\ Author \in [Tweets -> HandleSet]
  /\ Broken \subseteq HandleSet
  /\ Malformed \subseteq Tweets
  /\ PageSize \in Nat \ {0} /\ MaxAttempts \in Nat \ {0}

VARIABLES
  client,    \* the injected db: a stub that takes the statement as it stands, or one
             \* that looks for a value of each of its parameters (record has no ts)
  timeline,  \* at X: the tweets of every handle, newest first
  table,     \* raw_tweets: the identifiers that are committed
  healthy,   \* the connection has no failed transaction (nothing ever rolls back)
  seen,      \* _seen_ids
  scraper,   \* _scraper is there and logged in
  phase,     \* where the coroutine is
  turn,      \* index of the handle that is polled
  attempt,   \* attempt of _retry at this handle
  tweets,    \* the fetched page
  row        \* index of the row of it that is next

position == <<phase, turn, attempt, tweets, row>>
vars == <<client, timeline, table, healthy, seen, scraper, position>>

Handle == Handles[turn]

\* gather(api.user_tweets(handle, limit))
Page(h) == SubSeq(timeline[h], 1, IF Len(timeline[h]) < PageSize
                                    THEN Len(timeline[h]) ELSE PageSize)

----------------------------------------------------------------------------
\* Where the coroutine goes after a poll

NextHandle ==
  /\ attempt' = 1 /\ tweets' = <<>> /\ row' = 1
  /\ \/ turn < Len(Handles) /\ turn' = turn + 1 /\ phase' = "fetch"
     \/ turn = Len(Handles) /\ turn' = 1 /\ phase' = "sleep"

\* Mutant: a handle is retried until it answers.
Bug_Raised ==
  /\ attempt' = (IF attempt < MaxAttempts THEN attempt + 1 ELSE 1)
  /\ phase' = "fetch" /\ tweets' = <<>> /\ row' = 1
  /\ UNCHANGED turn

\* _ingest_handle raised: _retry calls it again, and after the last attempt
\* run_forever logs the exception and goes on with the next handle.
Raised ==
  \/ /\ attempt < MaxAttempts
     /\ attempt' = attempt + 1
     /\ phase' = "fetch" /\ tweets' = <<>> /\ row' = 1
     /\ UNCHANGED turn
  \/ attempt = MaxAttempts /\ NextHandle

----------------------------------------------------------------------------
\* _get_scraper and the fetch

Connect ==
  /\ phase = "fetch" /\ ~scraper
  /\ scraper' = TRUE
  /\ UNCHANGED <<client, timeline, table, healthy, seen, position>>

\* No pool: _ingest_handle returns 0, which is not an error.
ConnectFails ==
  /\ phase = "fetch" /\ ~scraper
  /\ NextHandle
  /\ UNCHANGED <<client, timeline, table, healthy, seen, scraper>>

Fetch ==
  /\ phase = "fetch" /\ scraper /\ Handle \notin Broken
  /\ phase' = "store" /\ tweets' = Page(Handle) /\ row' = 1
  /\ UNCHANGED <<client, timeline, table, healthy, seen, scraper, turn, attempt>>

FetchFails ==
  /\ phase = "fetch" /\ scraper
  /\ Raised
  /\ UNCHANGED <<client, timeline, table, healthy, seen, scraper>>

----------------------------------------------------------------------------
\* The rows of a page: _tweet_to_record, _persist, _seen_ids.add

AtRow == phase = "store" /\ row <= Len(tweets)
Tweet == tweets[row]

SkipRow ==
  /\ AtRow /\ Tweet \in seen
  /\ row' = row + 1
  /\ UNCHANGED <<client, timeline, table, healthy, seen, scraper, phase, turn, attempt, tweets>>

\* The INSERT is given to the client on a usable connection.
Given == AtRow /\ Tweet \notin seen \cup Malformed /\ healthy

\* A stub sends it.
Sent == Given /\ client = "stub"

StoreRow ==
  /\ Sent
  /\ table' = table \cup {Tweet}
  /\ seen' = seen \cup {Tweet}
  /\ row' = row + 1
  /\ UNCHANGED <<client, timeline, healthy, scraper, phase, turn, attempt, tweets>>

\* Mutant: the tweet is marked before it is stored.
Bug_InsertFails ==
  /\ Sent
  /\ table' \in {table, table \cup {Tweet}}
  /\ healthy' = FALSE
  /\ seen' = seen \cup {Tweet}
  /\ Raised
  /\ UNCHANGED <<client, timeline, scraper>>

\* The server refuses the statement, or the answer to the commit is lost.
InsertFails ==
  /\ Sent
  /\ table' \in {table, table \cup {Tweet}}
  /\ healthy' = FALSE
  /\ Raised
  /\ UNCHANGED <<client, timeline, seen, scraper>>

\* The row can not be converted, or the connection is still in the transaction that
\* failed before.
RowRaises ==
  /\ AtRow /\ Tweet \notin seen
  /\ Tweet \in Malformed \/ ~healthy
  /\ Raised
  /\ UNCHANGED <<client, timeline, table, healthy, seen, scraper>>

\* The INSERT binds :ts, and model_dump of the record names that field timestamp: a
\* client that checks refuses it, by itself or after the server did.
InsertRefused ==
  /\ Given /\ client = "strict"
  /\ healthy' \in {healthy, FALSE}
  /\ Raised
  /\ UNCHANGED <<client, timeline, table, seen, scraper>>

PageDone ==
  /\ phase = "store" /\ row > Len(tweets)
  /\ NextHandle
  /\ UNCHANGED <<client, timeline, table, healthy, seen, scraper>>

Wake ==
  /\ phase = "sleep"
  /\ phase' = "fetch"
  /\ UNCHANGED <<client, timeline, table, healthy, seen, scraper, turn, attempt, tweets, row>>

----------------------------------------------------------------------------
\* The process and X

\* __init__ on a new connection: the rows of the last 24 hours are seen, or
\* none when the query fails.
Start ==
  /\ phase = "down"
  /\ phase' = "fetch" /\ healthy' = TRUE
  /\ seen' \in SUBSET table
  /\ UNCHANGED <<client, timeline, table, scraper, turn, attempt, tweets, row>>

Crash ==
  /\ phase # "down"
  /\ phase' = "down" /\ turn' = 1 /\ attempt' = 1
  /\ tweets' = <<>> /\ row' = 1
  /\ seen' = {} /\ scraper' = FALSE
  /\ UNCHANGED <<client, timeline, table, healthy>>

Published(t) == \E i \in 1 .. Len(timeline[Author[t]]) : timeline[Author[t]][i] = t

Publish(t) ==
  /\ ~Published(t)
  /\ timeline' = [timeline EXCEPT ![Author[t]] = <<t>> \o @]
  /\ UNCHANGED <<client, table, healthy, seen, scraper, position>>

----------------------------------------------------------------------------
Init ==
  /\ client \in {"stub", "strict"}
  /\ timeline = [h \in HandleSet |-> <<>>]
  /\ table = {} /\ healthy = TRUE
  /\ seen = {} /\ scraper = FALSE
  /\ phase = "down" /\ turn = 1 /\ attempt = 1 /\ tweets = <<>> /\ row = 1

Loop ==
  \/ Connect \/ ConnectFails \/ Fetch \/ FetchFails
  \/ SkipRow \/ StoreRow \/ InsertFails \/ InsertRefused \/ RowRaises
  \/ PageDone \/ Wake

Next == Loop \/ Start \/ Crash \/ \E t \in Tweets : Publish(t)

\* The coroutine is scheduled for ever, and X answers a handle that it serves
\* once it is asked often enough.  Nobody promises to restart a dead process.
Fairness ==
  /\ WF_vars(Loop)
  /\ SF_vars(Connect)
  /\ \A h \in HandleSet \ Broken : SF_vars(Fetch /\ Handle = h)

Spec == Init /\ [][Next]_vars /\ Fairness

----------------------------------------------------------------------------
\* Properties

\* Every variable stays in its range (the state of TweetIngestionService).
TypeOK ==
  /\ client \in {"stub", "strict"}
  /\ timeline \in [HandleSet -> Seq(Tweets)]
  /\ table \subseteq Tweets /\ seen \subseteq Tweets
  /\ healthy \in BOOLEAN /\ scraper \in BOOLEAN
  /\ phase \in {"down", "sleep", "fetch", "store"}
  /\ turn \in 1 .. Len(Handles) /\ attempt \in 1 .. MaxAttempts
  /\ tweets \in Seq(Tweets) /\ row \in 1 .. Len(tweets) + 1

\* A tweet that the service will skip from now on is in the database, whatever
\* failed, died or was retried: the in-memory guard never hides a tweet that was
\* not stored (_seen_ids against raw_tweets).
SeenIsStored == seen \subseteq table

\* While a page is worked through, every row of it that lies behind is in the
\* database: a poll that ends without an exception has left nothing out
\* (_ingest_handle, whose exceptions are all there is to report a loss).
NoRowLost == \A i \in 1 .. row - 1 : tweets[i] \in table

\* What the process has passed over is safe: a tweet it knows is in the table, and so is
\* every row of the page before the one it is at (_insert_batch, _persist).
NothingIsLost == SeenIsStored /\ NoRowLost

\* t is on the page of a handle that answers, and no newer row of that page
\* raises before it is reached.
Reachable(t) ==
  /\ Author[t] \notin Broken
  /\ \E i \in 1 .. Len(timeline[Author[t]]) :
       /\ i <= PageSize /\ timeline[Author[t]][i] = t
       /\ \A j \in 1 .. i : timeline[Author[t]][j] \notin Malformed

\* The next row of the page raises whenever it is tried.
RowIsStuck ==
  AtRow /\ Tweet \notin seen /\ (Tweet \in Malformed \/ ~healthy \/ client = "strict")

\* Whichever handles fail, and whatever the database refuses, the newest page of every
\* handle that X serves is fetched and walked through again while the process lives, to
\* its end or to a row that raises whenever it is tried: no handle that is retried and no
\* page that raises keeps the loop from the others (_retry and run_forever).  With
\* NoRowLost, the rows that were passed are in the database.
PagesAreWalked ==
  \A h \in HandleSet \ Broken :
    (phase # "down") ~> \/ phase = "down"
                        \/ /\ phase = "store" /\ Handle = h
                           /\ row > Len(tweets) \/ RowIsStuck

\* A tweet that stays within reach of the polls is stored, however many other handles
\* fail and whatever was retried, as long as the process lives and its connection has
\* not failed: scrape, deduplicate, persist (TweetIngestionService).  A strict client
\* keeps it from being so.
ReachableIsStored ==
  \A t \in Tweets :
    (phase # "down" /\ healthy /\ Reachable(t))
      ~> (t \in table \/ ~Reachable(t) \/ ~healthy \/ phase = "down")
=============================================================================
