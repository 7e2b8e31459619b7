-------------------------- MODULE MCTweetIngestion --------------------------
(***************************************************************************)
(* Three handles for the model checking of TweetIngestion: the first one   *)
(* never answers, the second publishes more than fits on its page, among   *)
(* it a tweet that can not be converted.                                   *)
(***************************************************************************)
EXTENDS TweetIngestion

MCHandles == <<"suspended", "busy", "quiet">>
MCAuthor == [t \in {1, 2, 3, 4} |-> IF t = 4 THEN "quiet" ELSE "busy"]
=============================================================================
