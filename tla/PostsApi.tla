------------------------------- MODULE PostsApi -------------------------------
(***************************************************************************)
(* The HTTP controllers (controllers/api/v1) reading the tables while the  *)
(* background tasks fill them.  A handler puts its answer together from    *)
(* several queries, each of which may see other tables and may fail; the   *)
(* writers are known only by what PostPipeline promises of them, the       *)
(* actions of BlogLedger.                                                  *)
(*                                                                         *)
(* The handlers share nothing but the tables, so one client, asking one    *)
(* request after the other and turning the pages of an answer, meets all   *)
(* that can happen to an answer.                                           *)
(***************************************************************************)
EXTENDS Integers, FiniteSets, SequencesExt

CONSTANTS
  PostRow, TagRow, CategoryRow,   \* the rows that may come to be inserted
  rank,                           \* the order of the texts in them
  Request,                        \* what the client may ask
  QueryError                      \* e.what() in place of an array

Handler == {"get", "getByTags", "getByCategories", "list", "listTitles",
            "listTags", "listCategories"}

ASSUME RowAssumption ==
  /\ \A p \in PostRow : {"post_id", "name", "body", "created"} \subseteq DOMAIN p
  /\ \A t \in TagRow : {"tag_id", "name", "post", "created"} \subseteq DOMAIN t
  /\ \A c \in CategoryRow : {"category_id", "name", "post", "created"} \subseteq DOMAIN c

(* The columns that order the rows (see Columns, below).                   *)
Sortable(row, texts) ==
  row.created \in Int /\ \A column \in texts : rank[row[column]] \in Int

ASSUME RankAssumption ==
  /\ \A p \in PostRow : Sortable(p, {"post_id", "name", "body"})
  /\ \A t \in TagRow : Sortable(t, {"tag_id", "name", "post"})
  /\ \A c \in CategoryRow : Sortable(c, {"category_id", "name", "post"})

(* A request as the handler's parameters and getOptionalParameter find it: *)
(* arg is the set of names that a title, or split(tags, ','), amounts to.  *)
RequestFields == {"handler", "arg", "sort_by", "sort_order", "filter_type", "page", "limit"}

ASSUME RequestAssumption ==
  \A r \in Request :
    /\ DOMAIN r = RequestFields
    /\ r.handler \in Handler /\ IsFiniteSet(r.arg)
    /\ r.page \in Int /\ r.limit \in Int

VARIABLES
  Posts, Tags, Categories,  \* the tables
  request,      \* the request being answered
  reader,       \* the handler: where it is, and its local variables
  session       \* the client: the tables when it first asked, what it has read

tables == <<Posts, Tags, Categories>>
vars == <<Posts, Tags, Categories, request, reader, session>>

Ledger == INSTANCE BlogLedger
            WITH posts <- Posts, tags <- Tags, categories <- Categories

PostIds == { p.post_id : p \in PostRow }

Tables == [posts |-> Posts, tags |-> Tags, categories |-> Categories]

FirstQuery ==
  [ get |-> "find", getByTags |-> "match", getByCategories |-> "match",
    list |-> "page", listTitles |-> "titles",
    listTags |-> "rows", listCategories |-> "rows" ]

Entering(r) == [ at |-> FirstQuery[r.handler], ids |-> {}, todo |-> <<>>,
                 answer |-> <<>>, status |-> "pending" ]

Init == /\ Ledger!LedgerInit
        /\ request \in Request
        /\ reader = Entering(request)
        /\ session = [seen |-> Tables, read |-> {}]

-----------------------------------------------------------------------------
(* The writers.  CURRENT_TIMESTAMP counts whole seconds, so that rows may  *)
(* share one.  The uuids are fresh.                                        *)

Latest(table, row) == \A r \in table : r.created <= row.created

Write ==
  /\ \/ \E row \in PostRow : Latest(Posts, row) /\ Ledger!Publish(row)
     \/ \E row \in TagRow : /\ Latest(Tags, row)
                            /\ \A t \in Tags : t.tag_id # row.tag_id
                            /\ Ledger!Tag(row)
     \/ \E row \in CategoryRow : /\ Latest(Categories, row)
                                 /\ \A c \in Categories : c.category_id # row.category_id
                                 /\ Ledger!Categorise(row)
  /\ UNCHANGED <<request, reader, session>>

-----------------------------------------------------------------------------
(* Order and pages.                                                        *)

Columns(handler) ==
  {"name", "created", "updated"} \cup
  CASE handler = "listTags"       -> {"tag_id", "post"}
    [] handler = "listCategories" -> {"category_id", "post"}
    [] OTHER                      -> {"post_id", "body"}

SortField(r) == IF r.sort_by \in Columns(r.handler) THEN r.sort_by ELSE "created"

Page(r) == IF r.page < 1 THEN 1 ELSE r.page

(* Slip: no lower bound.                                                   *)
LimitAsGiven(r) == r.limit

Limit(r) == IF r.limit < 1 THEN 1 ELSE r.limit

(* No row is ever updated: updated is created.                             *)
Key(row, field) ==
  IF field \in {"created", "updated"} THEN row.created ELSE rank[row[field]]

InOrder(a, b, r) ==
  LET field == SortField(r)
  IN  IF r.sort_order = "ASC" THEN Key(a, field) <= Key(b, field)
                              ELSE Key(b, field) <= Key(a, field)

(* ORDER BY, which leaves open how rows with equal keys come.              *)
Ordered(rows, r) ==
  { s \in SetToSeqs(rows) :
      \A i, j \in DOMAIN s : i < j => InOrder(s[i], s[j], r) }

(* LIMIT limit OFFSET (page - 1) * limit.                                  *)
paginate(s, page, limit) ==
  SubSeq(s, (page - 1) * limit + 1,
            IF page * limit < Len(s) THEN page * limit ELSE Len(s))

Pages(rows, r) == { paginate(s, Page(r), Limit(r)) : s \in Ordered(rows, r) }

-----------------------------------------------------------------------------
(* The queries that choose the rows.                                       *)

Reply(status) == reader' = [reader EXCEPT !.at = "done", !.status = status]

(* Go on to the tags and categories of the posts in s.                     *)
Attach(s) == IF s = <<>> THEN Reply("OK")
             ELSE reader' = [reader EXCEPT !.at = "tags", !.todo = s]

Still == UNCHANGED <<tables, request, session>>

(* Names are UNIQUE: findFutureOne throws only if there is no row.         *)
FindPost ==
  /\ reader.at = "find"
  /\ LET found == { p \in Posts : p.name \in request.arg }
     IN  IF found = {} THEN Reply("Not Found") ELSE Attach(SetToSeq(found))
  /\ Still

Matched(table) == { row \in table : row.name \in request.arg }

(* Slips: counts against the tags asked for; filters whatever the type;    *)
(* takes the row's name for its post.                                      *)
FilteredByTagsAskedFor(matched) ==
  IF request.filter_type = "MATCHING"
  THEN { id \in PostIds :
           Cardinality({ row \in matched : row.post = id }) = Cardinality(request.arg) }
  ELSE { row.post : row \in matched }
FilteredAlways(matched) ==
  { row.post : row \in { r \in matched : \A q \in matched : q.post = r.post } }
FilteredRowIds(matched) == { row.name : row \in matched }

(* MATCHING keeps a post if all the rows that matched are its own.         *)
Filtered(matched) ==
  LET ids == { row.post : row \in matched }
      count(id) == Cardinality({ row \in matched : row.post = id })
  IN  IF request.filter_type = "MATCHING"
      THEN { id \in ids : count(id) = Cardinality(matched) }
      ELSE ids

MatchIn(table) ==
  /\ reader.at = "match"
  /\ LET ids == Filtered(Matched(table))
     IN  IF ids = {} THEN Reply("Not Found")
         ELSE reader' = [reader EXCEPT !.at = "page", !.ids = ids]
  /\ Still

MatchTags       == request.handler = "getByTags" /\ MatchIn(Tags)
MatchCategories == request.handler = "getByCategories" /\ MatchIn(Categories)

(* Slip: without the criterion.                                            *)
AllPosts(ids) == Posts

WithIds(ids) == { p \in Posts : p.post_id \in ids }

FindMatchedPage ==
  /\ reader.at = "page" /\ request.handler # "list"
  /\ \E s \in Pages(WithIds(reader.ids), request) : Attach(s)
  /\ Still

FindPage ==
  /\ reader.at = "page" /\ request.handler = "list"
  /\ \E s \in Pages(Posts, request) : Attach(s)
  /\ Still

ListRows(s) ==
  reader' = [reader EXCEPT !.at = "done", !.status = "OK", !.answer = s]

(* listTitles takes a limit and no page.                                   *)
ListTitles ==
  /\ reader.at = "titles"
  /\ \E s \in Ordered(Posts, request) :
       LET first == paginate(s, 1, Limit(request))
       IN  ListRows([i \in DOMAIN first |-> first[i].name])
  /\ Still

ListTags ==
  /\ reader.at = "rows" /\ request.handler = "listTags"
  /\ \E s \in Pages(Tags, request) : ListRows(s)
  /\ Still

ListCategories ==
  /\ reader.at = "rows" /\ request.handler = "listCategories"
  /\ \E s \in Pages(Categories, request) : ListRows(s)
  /\ Still

(* Any of these queries may throw for a reason of its own, which the reply *)
(* does not tell from an empty result but in its text.                     *)
QueryFails ==
  /\ reader.at \in {"find", "match", "page", "titles", "rows"}
  /\ Reply("failed")
  /\ Still

-----------------------------------------------------------------------------
(* The queries that complete a post, two for each.                         *)

(* Slip: without the criterion.                                            *)
RowsOfAny(table, post) == table

RowsOf(table, post) == { row \in table : row.post = post.post_id }

Current == Head(reader.todo)

AttachTags ==
  /\ reader.at = "tags"
  /\ \E found \in {RowsOf(Tags, Current), QueryError} :
       reader' = [reader EXCEPT
                    !.at = "categories",
                    !.answer = Append(@, [post |-> Current, tags |-> found,
                                          categories |-> {}])]
  /\ Still

AttachCategories ==
  /\ reader.at = "categories"
  /\ \E found \in {RowsOf(Categories, Current), QueryError} :
       LET complete == Len(reader.todo) = 1 IN
       reader' = [reader EXCEPT
                    !.at = IF complete THEN "done" ELSE "tags",
                    !.status = IF complete THEN "OK" ELSE @,
                    !.todo = Tail(@),
                    !.answer[Len(reader.answer)].categories = found]
  /\ Still

-----------------------------------------------------------------------------
(* The client.                                                             *)

Ask ==
  /\ reader.at = "done"
  /\ \E r \in Request : request' = r /\ reader' = Entering(r)
  /\ session' = [seen |-> Tables, read |-> {}]
  /\ UNCHANGED tables

Searching == {"getByTags", "getByCategories"}
Paging    == {"list", "listTags", "listCategories"} \cup Searching

(* What identifies the rows of an answer.                                  *)
Identity(item) ==
  IF request.handler \in {"listTags", "listCategories"} THEN item ELSE item.post

(* An answer that holds something makes the client ask for the next page.  *)
TurnPage ==
  /\ reader.at = "done" /\ reader.status = "OK" /\ reader.answer # <<>>
  /\ request.handler \in Paging
  /\ request' = [request EXCEPT !.page = @ + 1]
  /\ reader' = Entering(request)
  /\ session' = [session EXCEPT
                   !.read = @ \cup { Identity(reader.answer[i]) :
                                       i \in DOMAIN reader.answer }]
  /\ UNCHANGED tables

Next == \/ Write \/ Ask \/ TurnPage \/ QueryFails
        \/ FindPost \/ MatchTags \/ MatchCategories
        \/ FindMatchedPage \/ FindPage
        \/ ListTitles \/ ListTags \/ ListCategories
        \/ AttachTags \/ AttachCategories

Spec == Init /\ [][Next]_vars

-----------------------------------------------------------------------------
(* Properties                                                              *)

Entry == [post : PostRow, tags : (SUBSET TagRow) \cup {QueryError},
          categories : (SUBSET CategoryRow) \cup {QueryError}]

TypeOK ==
  /\ Posts \subseteq PostRow /\ Tags \subseteq TagRow
  /\ Categories \subseteq CategoryRow
  /\ reader.at \in {"find", "match", "page", "titles", "rows",
                    "tags", "categories", "done"}
  /\ reader.ids \subseteq PostIds
  /\ reader.todo \in Seq(PostRow)
  /\ reader.answer \in CASE request.handler = "listTitles" -> Seq({p.name : p \in PostRow})
                         [] request.handler = "listTags" -> Seq(TagRow)
                         [] request.handler = "listCategories" -> Seq(CategoryRow)
                         [] OTHER -> Seq(Entry)
  /\ reader.status \in {"pending", "OK", "Not Found", "failed"}

Answered(handlers) ==
  reader.at = "done" /\ reader.status = "OK" /\ request.handler \in handlers

(* A post's rows in what was found are all that it had before, and none    *)
(* are there but those it has now.                                         *)
LiesBetween(found, before, now, post) ==
  found # QueryError =>
    /\ { row \in before : row.post = post.post_id } \subseteq found
    /\ found \subseteq { row \in now : row.post = post.post_id }

(* A post in an answer comes with its own tags and categories, at least    *)
(* those it had when the client began to ask and at most those it has got  *)
(* by now, although they are read by later queries than the post is.       *)
EachPostWithItsOwnMetadata ==
  Answered({"get", "list"} \cup Searching) =>
    \A i \in DOMAIN reader.answer :
      LET entry == reader.answer[i] IN
      /\ entry.post \in Posts
      /\ LiesBetween(entry.tags, session.seen.tags, Tags, entry.post)
      /\ LiesBetween(entry.categories, session.seen.categories, Categories, entry.post)

(* Whatever a search answers shows a name that was searched for, though    *)
(* the list of tags is not the one the search went by.                     *)
FoundPostsShowTheMatch ==
  Answered(Searching) =>
    \A i \in DOMAIN reader.answer :
      LET shown == IF request.handler = "getByTags" THEN reader.answer[i].tags
                                                    ELSE reader.answer[i].categories
      IN  shown # QueryError => \E row \in shown : row.name \in request.arg

SearchedTable(t) == IF request.handler = "getByTags" THEN t.tags ELSE t.categories

(* MATCHING does not ask for all the names: it answers the one post that   *)
(* has any of them, and nothing when two posts do.                         *)
MatchingIsExclusive ==
  Answered(Searching) /\ request.filter_type = "MATCHING" =>
    \A i \in DOMAIN reader.answer :
      \A row \in Matched(SearchedTable(session.seen)) :
        row.post = reader.answer[i].post.post_id

(* Not Found, when no query has failed, means that nothing of the kind was *)
(* there when the client began to ask; and the answer to a MATCHING search *)
(* may be Not Found because there were, or came to be, two.                *)
NotFoundMeansAbsent ==
  reader.at = "done" /\ reader.status = "Not Found" =>
    CASE request.handler = "get" ->
           \A p \in session.seen.posts : p.name \notin request.arg
      [] request.handler \in Searching /\ request.filter_type = "MATCHING" ->
           Cardinality({ row.post : row \in Matched(SearchedTable(Tables)) }) # 1
             \/ Matched(SearchedTable(session.seen)) = {}
      [] OTHER ->
           Matched(SearchedTable(session.seen)) = {}

(* What the pages of the request should hold between them.                 *)
Due == CASE request.handler = "list" -> session.seen.posts
         [] request.handler = "listTags" -> session.seen.tags
         [] request.handler = "listCategories" -> session.seen.categories
         [] OTHER -> { p \in session.seen.posts :
                         \E row \in Matched(SearchedTable(session.seen)) :
                           row.post = p.post_id }

Distinct(rows) ==
  \A a, b \in rows : a # b => Key(a, SortField(request)) # Key(b, SortField(request))

(* The client has come to an empty page.                                   *)
ReadToTheEnd ==
  /\ Answered(Paging) /\ reader.answer = <<>>
  /\ request.handler \in Searching => request.filter_type # "MATCHING"

Listed == CASE request.handler = "listTags" -> Tags
            [] request.handler = "listCategories" -> Categories
            [] OTHER -> Posts

(* A client that turns the pages until an empty one comes has read every   *)
(* row that was there when it began, whatever is inserted meanwhile: rows  *)
(* are never deleted, so an insert can only push a row on to a later page. *)
(* This takes a sort column without equal values, and excepts MATCHING.    *)
PagesMissNothing ==
  ReadToTheEnd /\ Distinct(Listed) => Due \subseteq session.read
=============================================================================
