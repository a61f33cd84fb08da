------------------------------ MODULE MCRssFeed ------------------------------
(* Instance of RssFeed for TLC: two feeds, one that lists its last item
   and one that lists two, subscribed to together or not at all. *)
EXTENDS RssFeed

CONSTANTS f1, f2

SomeWindow == (f1 :> 1) @@ (f2 :> 2)
TwoFeeds == {f1, f2}
SomeConfs == {<<>>, <<f1, f2>>}
=============================================================================
