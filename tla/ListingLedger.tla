--------------------------- MODULE ListingLedger ---------------------------
(***************************************************************************)
(* What the aggregator promises of a listing (tree_listing, or the test    *)
(* columns of hardware_status): whatever crashes, is retried or is ingested*)
(* twice, each counter is at all times the number of items recorded as     *)
(* counted under it, and what is recorded of an item only ever goes from   *)
(* nothing to a status, or from the null status to a known one.            *)
(***************************************************************************)
EXTENDS ListingStatus

CONSTANTS
    Items,    \* the tests and builds the listing counts
    Cells,    \* its counters
    CellOf    \* [Items \X Known -> Cells]: the counter of an item's outcome

VARIABLES
    counted,  \* item -> what processed_listing_items records of it
    totals    \* cell -> the counter

LedgerInit ==
    /\ counted = [i \in Items |-> NoRow]
    /\ totals = [c \in Cells |-> 0]

(* Some items are counted, for the first time or again now that their      *)
(* status is known; the counters follow in the same step.                  *)
CountItems ==
    /\ counted' \in [Items -> Row]
    /\ \A i \in Items : \/ counted'[i] = counted[i]
                        \/ /\ counted'[i] # NoRow
                           /\ NeedsCount(counted[i], counted'[i])
    /\ totals' = [c \in Cells |-> Census(counted', CellOf, c)]

LedgerSpec == LedgerInit /\ [][CountItems]_<<counted, totals>>
=============================================================================
