------------------------------ MODULE Listing -------------------------------
(***************************************************************************)
(* GET /v1/notifications: a client walks through the pages of its          *)
(* notifications, newest first, while others are being created             *)
(* (internal/api/notifications_list.go).  Pages are separate queries; the  *)
(* cursor is the (created_at, id) of the last row of the page before.      *)
(*                                                                         *)
(* created_at is the time the row's transaction began: the rows of a batch *)
(* share it, and a row may become visible after newer ones.                *)
(***************************************************************************)
EXTENDS Creation

CONSTANTS
  Reader,     \* the API key that lists
  PageSize    \* limit

ASSUME ListingAssumption == Reader \in Owners /\ PageSize \in Nat \ {0}

VARIABLES
  walk,      \* "idle", "paging" or "done"
  cursor,    \* the next_cursor of the page before
  listed,    \* ids of the items of all pages
  twice,     \* history: ids that were items of two pages
  present,   \* history: the reader's ids that were visible when the walk began
  detail     \* GET /v1/notifications/batch/{id}: the batch read, then the ids of its items

listVars == <<walk, cursor, listed, twice, present, detail>>

NoDetail == [batch |-> 0]

Start == [ts |-> 0, id |-> 0, zero |-> TRUE]

LInit == walk = "idle" /\ cursor = Start /\ listed = {} /\ twice = {} /\ present = {} /\ detail = NoDetail

(* (created_at, id) < (ts, id), in Postgres' row comparison. *)
Older(w, c) == w.ts < c.ts \/ (w.ts = c.ts /\ w.id < c.id)

(* Mutation of After: the cursor compares created_at alone. *)
AfterTime(c) == {w \in rows : w.owner = Reader /\ (c.zero \/ w.ts < c.ts)}

(* The rows the query's predicates let through. *)
After(c) == {w \in rows : w.owner = Reader /\ (c.zero \/ Older(w, c))}

(* ORDER BY created_at DESC, id DESC LIMIT n. *)
Newest(S, n) == {w \in S : Cardinality({v \in S : Older(w, v)}) < n}

BeginWalk ==
  /\ walk = "idle"
  /\ walk' = "paging"
  /\ present' = {w.id : w \in {v \in rows : v.owner = Reader}}
  /\ UNCHANGED <<cursor, listed, twice, detail>>

(* One page.  A row more than the limit tells that there is a next one. *)
ListPage ==
  /\ walk = "paging"
  /\ LET out   == Newest(After(cursor), PageSize + 1)
         items == Newest(out, PageSize)
         ids   == {w.id : w \in items}
     IN /\ listed' = listed \cup ids
        /\ twice' = twice \cup (listed \cap ids)
        /\ IF Cardinality(out) > PageSize
           THEN /\ \E last \in items :
                     /\ \A w \in items : w = last \/ Older(last, w)
                     /\ cursor' = [ts |-> last.ts, id |-> last.id, zero |-> FALSE]
                /\ UNCHANGED walk
           ELSE walk' = "done" /\ UNCHANGED cursor
  /\ UNCHANGED <<present, detail>>

(* getByBatch: the batch, whoever made it ... *)
GetBatch(b) ==
  /\ detail = NoDetail
  /\ b \in batches
  /\ detail' = [batch |-> b.id, accepted |-> b.accepted]
  /\ UNCHANGED <<walk, cursor, listed, twice, present>>

(* Mutation of GetBatchItems: the query of the admin path. *)
GetBatchItemsUnscoped ==
  /\ DOMAIN detail = {"batch", "accepted"}
  /\ detail' = [batch |-> detail.batch, accepted |-> detail.accepted,
                items |-> {w.id : w \in {v \in rows : v.batch = detail.batch}}]
  /\ UNCHANGED <<walk, cursor, listed, twice, present>>

(* ... and, in another query, the items of it that are the reader's. *)
GetBatchItems ==
  /\ DOMAIN detail = {"batch", "accepted"}
  /\ detail' = [batch |-> detail.batch, accepted |-> detail.accepted,
                items |-> {w.id : w \in {v \in rows : v.batch = detail.batch /\ v.owner = Reader}}]
  /\ UNCHANGED <<walk, cursor, listed, twice, present>>

ListingInit == Init /\ LInit

ListingNext ==
  \/ Next /\ UNCHANGED listVars
  \/ (BeginWalk \/ ListPage \/ GetBatchItems \/ \E b \in batches : GetBatch(b)) /\ UNCHANGED vars

ListingSpec == ListingInit /\ [][ListingNext]_<<vars, listVars>>

-----------------------------------------------------------------------------
(* A complete walk returns every row that was there when it began once,    *)
(* and no walk returns a row twice or another owner's.                     *)
WalkIsExact ==
  /\ twice = {}
  /\ \A i \in listed : \E w \in rows : w.id = i /\ w.owner = Reader
  /\ walk = "done" => present \subseteq listed

(* The batch and its items are read by two queries, and yet the owner sees *)
(* as many items as the batch has accepted, and another key sees none.     *)
BatchIsWhole ==
  "items" \in DOMAIN detail =>
    Cardinality(detail.items) = IF req[detail.batch].owner = Reader THEN detail.accepted ELSE 0
=============================================================================
