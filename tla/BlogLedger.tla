------------------------------ MODULE BlogLedger ------------------------------
(***************************************************************************)
(* What the background tasks promise the readers of the database: three    *)
(* tables that only grow, one row at a time.  A post comes in whole, under *)
(* an id, a name and a body that no other post has; a tag or a category    *)
(* comes in only for a post that is there, and under a name that the post  *)
(* does not have yet.                                                      *)
(***************************************************************************)
EXTENDS FiniteSets

VARIABLES posts, tags, categories

ledgerVars == <<posts, tags, categories>>

Ids == { p.post_id : p \in posts }

LedgerInit == posts = {} /\ tags = {} /\ categories = {}

Publish(row) ==
  /\ \A p \in posts : /\ p.post_id # row.post_id
                      /\ p.name # row.name
                      /\ p.body # row.body
  /\ posts' = posts \cup {row}
  /\ UNCHANGED <<tags, categories>>

NewIn(table, row) == \A r \in table : r.name # row.name \/ r.post # row.post

Tag(row) == /\ row.post \in Ids /\ NewIn(tags, row)
            /\ tags' = tags \cup {row}
            /\ UNCHANGED <<posts, categories>>

Categorise(row) == /\ row.post \in Ids /\ NewIn(categories, row)
                   /\ categories' = categories \cup {row}
                   /\ UNCHANGED <<posts, tags>>

LedgerNext == \/ \E row \in posts' : Publish(row)
              \/ \E row \in tags' : Tag(row)
              \/ \E row \in categories' : Categorise(row)

LedgerSpec == LedgerInit /\ [][LedgerNext]_ledgerVars
=============================================================================
