------------------------------- MODULE MCFeed -------------------------------
(***************************************************************************)
(* Instance of FeedHandler for TLC.  The cfg files choose the options and  *)
(* the number of client objects.                                           *)
(***************************************************************************)
EXTENDS FeedHandler

\* The network of feed_strays is kind: a connection that is lost has reported it
\* for the read and for the write before a reconnect replaces it.
LossIsReportedFirst ==
  client' # client /\ client # NoClient => ops[client] \cap {"read", "write"} = {}
=============================================================================
