--------------------------- MODULE ListingStatus ---------------------------
(***************************************************************************)
(* The statuses a test or a build has in the listing tables, and the few   *)
(* rules the ingester and the aggregator apply to them.                    *)
(*                                                                         *)
(* A status is one of the three simplified outcomes or Null (the           *)
(* submission gave none).  NoRow says that a table has no row at all for   *)
(* an item.                                                                *)
(***************************************************************************)
EXTENDS Integers, FiniteSets

NoRow == "NO_ROW"
Null == "NULL"

(* SimplifiedStatusChoices: the values of a status column that is not null *)
Known == {"PASS", "FAIL", "INC"}
Status == Known \union {Null}
Row == Status \union {NoRow}

(* The column (pass, failed, inc) a status is counted under. *)
Outcome(s) == IF s \in Known THEN s ELSE "INC"

(* ON CONFLICT DO UPDATE SET status = COALESCE(old, new): the first status *)
(* that is not null stays.  A submission that does not mention the item    *)
(* (NoRow) leaves the row alone.                                           *)
Upsert(old, new) == IF new = NoRow \/ old \in Known THEN old ELSE new

(* An item has to be counted when it never was, or when it was counted     *)
(* with no status and now has one.                                         *)
NeedsCount(done, s) == done = NoRow \/ (done = Null /\ s # Null)

(* How many items are counted under a cell, according to what is recorded  *)
(* for them: the value every counter should have.                          *)
Census(done, cellOf, cell) ==
    Cardinality({i \in DOMAIN done : /\ done[i] # NoRow
                                     /\ cellOf[<<i, Outcome(done[i])>>] = cell})

CountChangeWithoutDecrement(done, new, batch, cellOf, cell) ==
    Cardinality({i \in new : cellOf[<<i, Outcome(batch[i])>>] = cell})

(* What one aggregation adds to a cell when it counts the items of `new'   *)
(* with the statuses of `batch': one for each of them, minus one for each  *)
(* that had been counted as inconclusive for want of a status.             *)
CountChange(done, new, batch, cellOf, cell) ==
    Cardinality({i \in new : cellOf[<<i, Outcome(batch[i])>>] = cell})
    - Cardinality({i \in new : done[i] = Null /\ cellOf[<<i, "INC">>] = cell})
=============================================================================
