------------------------------ MODULE MCSpider ------------------------------
(* Small crawls for TLC: page graphs over a few URLs and the start lists.   *)
EXTENDS Spider, TLC

CONSTANTS a, b, c, d, e, w1, w2

\* Two start pages that both link to c and may yield nothing, a page that links
\* back, and a page one hop too deep.
DiamondStart == <<a, b>>
DiamondPages ==
    (a :> {<<c, d, a>>, <<>>}) @@ (b :> {<<c>>, <<>>}) @@ (c :> {<<b, e>>}) @@ (d :> {<<>>})
      @@ (e :> {<<>>})

\* One start page more than the queue of two workers holds at factor 1, so that
\* seeding may wait. The start pages link to one another while the other may be
\* queued, fetched or done. One more page, c, is found by a link of a only, if it
\* yields any; e is off the allowed domain.
CrowdedStart == <<a, b, d>>
CrowdedPages ==
    (a :> {<<c, b>>, <<>>}) @@ (b :> {<<a>>}) @@ (c :> {<<a>>}) @@ (d :> {<<e, b>>})
      @@ (e :> {<<>>})

\* A long chain to d from one start page and a short one from the other: the
\* crawl must find d by the short one to reach e in time.
LadderStart == <<a, b>>
LadderPages ==
    (a :> {<<c, b>>}) @@ (b :> {<<d>>}) @@ (c :> {<<d, a>>}) @@ (d :> {<<e, b>>})
      @@ (e :> {<<a>>})

\* One page with more links than queue, out and the worker can hold together.
\* With the factors 8 and 4 of the code it takes 14 links for one worker.
Leaf == 1..4
StarStart == <<0>>
StarPages == [u \in 0..4 |-> IF u = 0 THEN {[i \in Leaf |-> i]} ELSE {<<>>}]
=============================================================================
