-------------------------- MODULE MCIndexedDbTable --------------------------
(* Three rows, two keys of a multiEntry index; one transaction of two       *)
(* operations between the batches of one iteration.                         *)
EXTENDS IndexedDbTable

row(keys, kept) == [keys |-> keys, kept |-> kept]

(* The same key for two rows, several keys for one, none for another. *)
MCBeginnings ==
  {<<row({1}, TRUE), row({1, 2}, TRUE), row({1, 2}, FALSE)>>,
   <<row({1, 2}, FALSE), row({2}, TRUE), row({1, 2}, TRUE)>>,
   <<row({2}, TRUE), Absent, row({}, TRUE)>>}

NoBounds == [lower |-> None, lowerOpen |-> FALSE,
             upper |-> None, upperOpen |-> FALSE]

Plan(index, forward, unique, filtered, offset, limit, range) ==
  [index |-> index, forward |-> forward, unique |-> unique,
   filtered |-> filtered, offset |-> offset, limit |-> limit,
   range |-> range, after |-> None]

MCPlans ==
  {Plan(TRUE, forward, unique, filtered, 0, Unlimited, NoBounds) :
     forward \in BOOLEAN, unique \in BOOLEAN, filtered \in BOOLEAN}
  \cup {Plan(TRUE, forward, unique, FALSE, 1, Unlimited, NoBounds) :
          forward \in BOOLEAN, unique \in BOOLEAN}
  \cup {Plan(index, forward, FALSE, FALSE, 0, limit,
             [NoBounds EXCEPT !.lower = 1, !.lowerOpen = limit # 3]) :
          index \in BOOLEAN, forward \in BOOLEAN, limit \in {3, Unlimited}}
  \cup {Plan(FALSE, TRUE, FALSE, FALSE, 0, 0, NoBounds)}

Of(kind, ids, value) ==
  [kind |-> kind, ids |-> ids, row |-> value, plan |-> None]

MCOperations ==
  {Of("insertMany", <<2, 1>>, row({1}, TRUE)),
   Of("putMany", <<2>>, row({2}, TRUE)), Of("deleteMany", <<1, 2>>, None),
   Of("update", <<2>>, row({1}, TRUE)), Of("patch", <<3>>, row({}, TRUE)),
   Of("clear", <<>>, None),
   [Of("deleteWhere", <<>>, None) EXCEPT !.plan =
      Plan(TRUE, TRUE, FALSE, TRUE, 0, 1, NoBounds)]}
=============================================================================
