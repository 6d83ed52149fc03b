------------------------------ MODULE MCPublisher ------------------------------
(* Publisher with two processes, three actors and the places of one batch     *)
(* whole: a second one is opened where the first left room for it, or by a    *)
(* process that raced.  Published directly into one of the two: an opening    *)
(* and records that are another's, a report of each stage that followed       *)
(* nothing, and closings that have gaps, or that are what close_batch would   *)
(* have written.                                                              *)
EXTENDS Publisher, TLC
CONSTANTS p1, p2, b1, b2, i1, i2, a1, a2, a3

MCClosing(records, sound) ==
  [type |-> "receipt", status |-> "COMPLETE", open |-> Opening, records |-> records,
   sound |-> sound, own |-> TRUE]
MCReports ==
  {[key |-> <<b1, "executor">>, receipt |-> Report("CANDIDATE", i, Nothing)] : i \in Item}
  \union {[key |-> <<b1, "qa">>, receipt |-> Report("VERIFIED", i, Nothing)] : i \in Item}
  \union {[key |-> <<b1, "auditor">>, receipt |-> Report("ACCEPTED", Nothing, Nothing)]}

MCRaw ==
  MCReports
  \union {[key |-> <<b1, "open">>, receipt |-> [Opening EXCEPT !.own = FALSE]]}
  \union {[key |-> <<b1, i>>, receipt |-> [Evidence EXCEPT !.own = FALSE]] : i \in Item}
  \union {[key |-> <<b1, "close">>, receipt |->
            MCClosing([k \in Item |-> IF k = i THEN Evidence ELSE Task(i)], sound)] :
            i \in Item, sound \in BOOLEAN}

MCSymmetry == Permutations({p1, p2}) \union Permutations({i1, i2})
              \union Permutations({a1, a2, a3})
=============================================================================
