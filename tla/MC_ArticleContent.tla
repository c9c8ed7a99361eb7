--------------------------- MODULE MC_ArticleContent ---------------------------
(* Instances of ArticleContent: who takes part. *)
EXTENDS ArticleContent

CONSTANTS w1, w2, r1, o1, o2, x1, x2

\* Two operators against one run of the worker.
Rights ==
    [workers |-> {w2}, readers |-> {}, operators |-> {o1, o2}, scrapers |-> {},
     versions |-> 0, acts |-> 3, deaths |-> 0]

\* Two runs of the worker, one of which may die, and an operator.
Runs ==
    [workers |-> {w1, w2}, readers |-> {}, operators |-> {o1}, scrapers |-> {},
     versions |-> 0, acts |-> 2, deaths |-> 1]

\* Two requests to re-scrape, one of which may die, and one run.
Rescrapes ==
    [workers |-> {w2}, readers |-> {}, operators |-> {}, scrapers |-> {x1, x2},
     versions |-> 2, acts |-> 0, deaths |-> 1]

\* One request at a time while a run and a reader generate and an operator acts.
Overlap ==
    [workers |-> {w2}, readers |-> {r1}, operators |-> {o1}, scrapers |-> {x1},
     versions |-> 1, acts |-> 1, deaths |-> 0]

AllCasts == {Rights, Runs, Rescrapes, Overlap}

\* One run and one operator.
Alone ==
    [workers |-> {w2}, readers |-> {}, operators |-> {o1}, scrapers |-> {},
     versions |-> 0, acts |-> 3, deaths |-> 0]

AloneCast == {Alone}
=============================================================================
