------------------------------- MODULE RssFeed -------------------------------
(***************************************************************************)
(* The RSS reader: the feeds a user subscribed to, the mark that remembers *)
(* how far each one has been read, the cache of items the page shows, and  *)
(* the goroutines that update them: the timer of backgroundRoutines, the   *)
(* requests for /rss?update and the one apiConfigure starts                *)
(* (server/server_rss.go, server/server_bg.go, server/server_api.go).      *)
(*                                                                         *)
(* updateRSS takes no lock: what follows a download is one step for each   *)
(* read or write of rssMark, rssCache and the announced item, and those of *)
(* two updates may come in any order.  When they do the code guarantees    *)
(* little, so the history variable met tells when it has happened.  What   *)
(* Go leaves open about a data race besides (a map that ends the program,  *)
(* a slice read while it is sorted) is covered by Restart at most.         *)
(*                                                                         *)
(* An item is the number of its publication, over all feeds: its GUID and  *)
(* its date at once.  Feeds list the newest items first, each with a date  *)
(* that can be parsed.  Titles, links and sizes are left out.              *)
(***************************************************************************)
EXTENDS Naturals, SequencesExt

CONSTANTS
  Feed,      \* feed URLs
  Timer,     \* the updater goroutine of backgroundRoutines
  Request,   \* goroutines of /rss?update requests and of apiConfigure
  Confs,     \* values of RssURL: sequences of feeds
  Window,    \* how many items each feed lists
  CacheMax,  \* 200 in the code
  MaxItem,   \* bound: items ever published
  MaxBoot    \* bound: starts of the program

Caller == Request \cup {Timer}
Item   == 1..MaxItem

ASSUME CallerAssumption == Timer \notin Request
ASSUME ConfAssumption   == Confs # {} /\ Confs \subseteq Seq(Feed)
ASSUME SizeAssumption   == {CacheMax, MaxItem, MaxBoot} \subseteq Nat \ {0}
ASSUME WindowAssumption == Window \in [Feed -> Nat \ {0}]

VARIABLES
  posted,    \* the items each feed has published so far
  conf,      \* the feeds of s.engineConfig.RssURL, in order
  rssMark,   \* the newest item read of each feed, 0 if there is no mark
  rssCache,  \* s.rssCache
  latest,    \* s.state.LatestRSSGuid, 0 if empty
  ticking,   \* the updater goroutine runs
  pc,        \* where each caller of updateRSS is
  todo,      \* the feeds it still has to go through, the current one first
  answer,    \* the items its last download returned, then the new ones of them
  loaded,    \* the copy of rssCache it is about to store
  boot,      \* starts of the program
  seen,      \* history: all that has ever been put into this run's cache
  dropped,   \* history: what the cuts took out of it again, while met is FALSE
  met        \* history: two updates of this run were in memory at once

memory  == <<rssMark, rssCache, latest>>
history == <<seen, dropped>>
vars    == <<posted, conf, memory, ticking, pc, todo, answer, loaded, boot, history, met>>

\* The places of updateRSS after a download has ended and before the next one
\* begins or updateRSS returns.
Memory == {"apply", "mark", "load", "store", "cut", "trim", "sort", "announce"}

TypeOK ==
  /\ posted \in [Feed -> SUBSET Item] /\ seen \subseteq Item /\ dropped \subseteq Item
  /\ conf \in Confs
  /\ rssMark \in [Feed -> Item \cup {0}]
  /\ rssCache \in Seq(Item)
  /\ Len(rssCache) <= CacheMax \/ \E c \in Caller : pc[c] \in {"cut", "trim"}
  /\ latest \in Item \cup {0}
  /\ ticking \in BOOLEAN /\ met \in BOOLEAN
  /\ pc \in [Caller -> {"idle", "start", "fetch"} \cup Memory]
  /\ todo \in [Caller -> Seq(Feed)]
  /\ answer \in [Caller -> SUBSET Item] /\ loaded \in [Caller -> Seq(Item)]
  /\ boot \in 1..MaxBoot

\* A program that has just started with the configuration c: the marks and the
\* cache are in memory only, and a program without feeds starts no updater.
Started(c) ==
  /\ conf = c
  /\ rssMark = [f \in Feed |-> 0] /\ rssCache = <<>> /\ latest = 0
  /\ seen = {} /\ dropped = {} /\ met = FALSE
  /\ ticking = (c # <<>>)
  /\ pc = [g \in Caller |-> "idle"]
  /\ todo = [g \in Caller |-> <<>>]
  /\ answer = [g \in Caller |-> {}] /\ loaded = [g \in Caller |-> <<>>]

Init ==
  /\ posted = [f \in Feed |-> {}]
  /\ boot = 1
  /\ \E c \in Confs : Started(c)

-----------------------------------------------------------------------------
(* Helpers.  As in TaskQueue, a name that begins with Bug is a faulty variant *)
(* of the definition that follows it.                                         *)

\* What the site of a feed lists: its latest items.
Listed(f) == {i \in posted[f] : Cardinality({j \in posted[f] : j > i}) < Window[f]}

\* The places of a list in the order of its items, the latest first: where the
\* item at place i goes.
Place(s, i) == Cardinality({j \in DOMAIN s : s[j] > s[i] \/ (s[j] = s[i] /\ j <= i)})
InOrder(s)  == [n \in DOMAIN s |-> s[CHOOSE i \in DOMAIN s : Place(s, i) = n]]

Descending(S) == InOrder(SetToSeq(S))

\* The items of an answer that precede the mark, in a list with the newest
\* first: none when the mark is the first one, none when it is not there at all,
\* and all of them when the feed has no mark yet.
BugAllItems(got, mark) == IF mark = 0 \/ mark \in got THEN got ELSE {}
BugLateItems(got, mark) == {i \in got : i > mark}
NewItems(got, mark) == {i \in got : mark = 0 \/ (mark \in got /\ i > mark)}

\* What is kept when the cache has grown past its size.
BugTruncated(s) == s
Truncated(s) == SubSeq(s, 1, IF Len(s) < CacheMax THEN Len(s) ELSE CacheMax)

\* sort.Slice by date, the latest first.
BugSorted(s) == s
Sorted(s) == InOrder(s)

\* strings.Split of the configured feeds, read once at the start of updateRSS.
BugFeeds == IF conf = <<>> THEN <<>> ELSE <<Head(conf)>>
Feeds == conf

-----------------------------------------------------------------------------
(* The sites, the user and the operating system                             *)

Published == UNION {posted[f] : f \in Feed}

Publish(f) ==
  LET i == Cardinality(Published) + 1 IN
    /\ i <= MaxItem
    /\ posted' = [posted EXCEPT ![f] = @ \cup {i}]
    /\ UNCHANGED <<conf, memory, ticking, pc, todo, answer, loaded, boot, history, met>>

\* apiConfigure with another RssURL: it is stored, then go updateRSS, unless the
\* engine refuses another setting of the same request.
SetFeeds(c) ==
  /\ c \in Confs \ {conf}
  /\ conf' = c
  /\ \/ UNCHANGED pc
     \/ \E g \in Request : pc[g] = "idle" /\ pc' = [pc EXCEPT ![g] = "start"]
  /\ UNCHANGED <<posted, memory, ticking, todo, answer, loaded, boot, history, met>>

\* The process ends and starts again.
Restart ==
  /\ boot < MaxBoot
  /\ boot' = boot + 1
  /\ rssMark' = [f \in Feed |-> 0] /\ rssCache' = <<>> /\ latest' = 0
  /\ seen' = {} /\ dropped' = {} /\ met' = FALSE
  /\ ticking' = (conf # <<>>)
  /\ pc' = [g \in Caller |-> "idle"]
  /\ todo' = [g \in Caller |-> <<>>]
  /\ answer' = [g \in Caller |-> {}] /\ loaded' = [g \in Caller |-> <<>>]
  /\ UNCHANGED <<posted, conf>>

-----------------------------------------------------------------------------
(* updateRSS                                                                *)

\* The caller g goes on at a place, where it may find another one in memory.
Goto(g, at) ==
  /\ pc' = [pc EXCEPT ![g] = at]
  /\ met' = (met \/ (at \in Memory /\ \E h \in Caller \ {g} : pc[h] \in Memory))

\* After a feed comes the next one, and after the last one the sort.
After(rest) == IF rest = <<>> THEN "sort" ELSE "fetch"

\* The timer calls it for ever if it was started, a request at any time.
Begin(g) ==
  /\ pc[g] = "start" \/ (pc[g] = "idle" /\ (g = Timer => ticking))
  /\ todo' = [todo EXCEPT ![g] = Feeds]
  /\ Goto(g, After(Feeds))
  /\ UNCHANGED <<posted, conf, memory, ticking, answer, loaded, boot, history>>

NextFeed(g) ==
  /\ todo' = [todo EXCEPT ![g] = Tail(@)]
  /\ Goto(g, After(Tail(todo[g])))

\* A feed that cannot be read is passed over.
FetchFails(g) ==
  /\ pc[g] = "fetch"
  /\ NextFeed(g)
  /\ UNCHANGED <<posted, conf, memory, ticking, answer, loaded, boot, history>>

Fetch(g, f) ==
  /\ pc[g] = "fetch" /\ f = Head(todo[g])
  /\ answer' = [answer EXCEPT ![g] = Listed(f)]
  /\ Goto(g, "apply")
  /\ UNCHANGED <<posted, conf, memory, ticking, todo, loaded, boot, history>>

\* The new items are those before the mark as it is at this moment.
ReadMark(g) ==
  /\ pc[g] = "apply"
  /\ LET new == NewItems(answer[g], rssMark[Head(todo[g])]) IN
       /\ answer' = [answer EXCEPT ![g] = new]
       /\ Goto(g, IF new = {} THEN "cut" ELSE "mark")
  /\ UNCHANGED <<posted, conf, memory, ticking, todo, loaded, boot, history>>

\* The mark moves to the first item of the answer, which is a new one.
WriteMark(g) ==
  /\ pc[g] = "mark"
  /\ rssMark' = [rssMark EXCEPT ![Head(todo[g])] = Max(answer[g])]
  /\ Goto(g, "load")
  /\ UNCHANGED <<posted, conf, rssCache, latest, ticking, todo, answer, loaded, boot, history>>

\* append(new items, s.rssCache...): the cache is copied and the result stored.
LoadCache(g) ==
  /\ pc[g] = "load"
  /\ loaded' = [loaded EXCEPT ![g] = rssCache]
  /\ Goto(g, "store")
  /\ UNCHANGED <<posted, conf, memory, ticking, todo, answer, boot, history>>

StoreCache(g) ==
  /\ pc[g] = "store"
  /\ rssCache' = Descending(answer[g]) \o loaded[g]
  /\ seen' = seen \cup answer[g]
  /\ answer' = [answer EXCEPT ![g] = {}]
  /\ loaded' = [loaded EXCEPT ![g] = <<>>]
  /\ Goto(g, "cut")
  /\ UNCHANGED <<posted, conf, rssMark, latest, ticking, todo, boot, dropped>>

\* Whether a feed had new items or not, a cache that is too long is cut.
CutCache(g) ==
  /\ pc[g] = "cut"
  /\ \/ /\ Len(rssCache) > CacheMax
        /\ loaded' = [loaded EXCEPT ![g] = Truncated(rssCache)]
        /\ Goto(g, "trim")
        /\ UNCHANGED todo
     \/ /\ Len(rssCache) <= CacheMax
        /\ NextFeed(g)
        /\ UNCHANGED loaded
  /\ UNCHANGED <<posted, conf, memory, ticking, answer, boot, history>>

TrimCache(g) ==
  /\ pc[g] = "trim"
  /\ rssCache' = loaded[g]
  /\ dropped' = IF met THEN dropped ELSE dropped \cup (ToSet(rssCache) \ ToSet(loaded[g]))
  /\ loaded' = [loaded EXCEPT ![g] = <<>>]
  /\ NextFeed(g)
  /\ UNCHANGED <<posted, conf, rssMark, latest, ticking, answer, boot, seen>>

\* After the last feed the cache is sorted and its first item announced.
SortCache(g) ==
  /\ pc[g] = "sort"
  /\ rssCache' = Sorted(rssCache)
  /\ Goto(g, "announce")
  /\ UNCHANGED <<posted, conf, rssMark, latest, ticking, todo, answer, loaded, boot, history>>

Announce(g) ==
  /\ pc[g] = "announce"
  /\ latest' = IF rssCache = <<>> THEN latest ELSE Head(rssCache)
  /\ Goto(g, "idle")
  /\ UNCHANGED <<posted, conf, rssMark, rssCache, ticking, todo, answer, loaded, boot, history>>

InMemory(g) ==
  \/ ReadMark(g) \/ WriteMark(g) \/ LoadCache(g) \/ StoreCache(g)
  \/ CutCache(g) \/ TrimCache(g) \/ SortCache(g) \/ Announce(g)

-----------------------------------------------------------------------------
Next ==
  \/ \E f \in Feed : Publish(f)
  \/ \E c \in Confs : SetFeeds(c)
  \/ Restart
  \/ \E g \in Caller : Begin(g) \/ FetchFails(g) \/ InMemory(g)
  \/ \E g \in Caller, f \in Feed : Fetch(g, f)

Spec == Init /\ [][Next]_vars

\* The timer ticks, a goroutine that is not waiting for a site runs, every
\* download ends (the client has a timeout of a minute), and a site that is asked
\* again and again answers again and again.  No request has to be made, and
\* nothing is asked of the sites requests wait for.
Fairness ==
  /\ WF_vars(Begin(Timer) \/ FetchFails(Timer))
  /\ \A g \in Caller : WF_vars(InMemory(g))
  /\ \A f \in Feed : SF_vars(Fetch(Timer, f))

FairSpec == Spec /\ Fairness

-----------------------------------------------------------------------------
(* Properties                                                               *)

AtRest == \A g \in Caller : pc[g] = "idle"

\* The items of the cache and those an update has moved the mark for and is about
\* to put there.
Taken == seen \cup UNION {answer[g] : g \in {h \in Caller : pc[h] \in {"load", "store"}}}

\* However late an answer is applied and whatever other updates did while it was
\* downloaded, an item is shown once, as long as no two updates were in memory at
\* once.  When they were, both may find the same items new.
NoDuplicates == ~met => IsInjective(rssCache)

\* Under the same condition a mark never gets ahead of what was read: of the items
\* between the oldest one this run has read of a feed and its mark, none has been
\* passed over.
NoGap ==
  ~met => \A f \in Feed : \A old \in Taken \cap posted[f] :
            {i \in posted[f] : old <= i /\ i <= rssMark[f]} \subseteq Taken

\* Under the same condition, once no update is under way, the item announced to
\* the browsers is the latest one that was read ("make sure the first is the
\* latest") but for those the cut of the cache took, which may have been newer.
LatestAnnounced == ~met /\ AtRest /\ seen \ dropped # {} => latest = Max(seen \ dropped)

\* While the updater runs, it catches up with each feed the user subscribed to:
\* all the feed lists has been read, unless the mark has left the list, and then
\* the feed stands still until a restart.
CaughtUp(f) ==
  \/ Listed(f) \subseteq seen
  \/ rssMark[f] \notin Listed(f) \cup {0}
  \/ ~ticking \/ ~Contains(conf, f)

Arrives == \A f \in Feed : []<>CaughtUp(f)
=============================================================================
