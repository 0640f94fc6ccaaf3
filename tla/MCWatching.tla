----------------------------- MODULE MCWatching -----------------------------
(* Those who look on, each part by itself: the subscribers of the change   *)
(* feed, the requests for pictures, and the subscribers of the host        *)
(* metrics.  A behaviour is one of one part.                               *)
EXTENDS Feed, Snapshots, Sampler

(* Two subscriptions with buffers of two, and one event more than fills a  *)
(* buffer and its reader's hand.                                           *)
CONSTANTS a, b, added, removed
MCSubscribers == {a, b}
MCChanges == {added, removed}

(* Two requests for pictures of one camera, which may be removed and added *)
(* again; for the metrics one, beside the ticker, and one subscriber.      *)
CONSTANTS p, q, door
MCViewers == {p, q}
MCIds == {door}
MCAskers == {p}
MCWatchers == {q}

VARIABLE part

feedVars == vars
watchingVars == <<feedVars, snapVars, samplerVars, part>>

WatchingInit ==
  /\ Init /\ SnapInit /\ SamplerInit
  /\ part \in {"feed", "snapshots", "sampler"}

WatchingNext ==
  /\ UNCHANGED part
  /\ \/ part = "feed" /\ Next /\ UNCHANGED <<snapVars, samplerVars>>
     \/ part = "snapshots" /\ SnapNext /\ UNCHANGED <<feedVars, samplerVars>>
     \/ part = "sampler" /\ SamplerNext /\ UNCHANGED <<feedVars, snapVars>>

WatchingSpec ==
  /\ WatchingInit /\ [][WatchingNext]_watchingVars
  /\ FeedFair /\ SnapFair /\ SamplerFair
=============================================================================
