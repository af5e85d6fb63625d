---------------------------- MODULE PostsApiProofs ----------------------------
(***************************************************************************)
(* Theorems about PostsApi, for all rows, requests and orders of texts.    *)
(***************************************************************************)
EXTENDS PostsApi, SequenceTheorems, FiniteSetTheorems, TLAPS

-----------------------------------------------------------------------------
(* The inductive invariant.                                                *)

(* The tables are finite and grow, and the client has seen a part of them. *)
TablesOK ==
  /\ Posts \subseteq PostRow /\ Tags \subseteq TagRow /\ Categories \subseteq CategoryRow
  /\ IsFiniteSet(Posts) /\ IsFiniteSet(Tags) /\ IsFiniteSet(Categories)
  /\ \A row \in Tags \cup Categories : row.post \in Ledger!Ids

SeenOK ==
  /\ session = [seen |-> session.seen, read |-> session.read]
  /\ session.seen.posts \subseteq Posts
  /\ session.seen.tags \subseteq Tags
  /\ session.seen.categories \subseteq Categories

RequestOK ==
  /\ DOMAIN request = RequestFields
  /\ request.handler \in Handler /\ IsFiniteSet(request.arg)
  /\ request.page \in Int /\ request.limit \in Int

(* Where a handler may be.                                                 *)
Places == {"find", "match", "page", "titles", "rows", "tags", "categories", "done"}
Querying == {"find", "match", "page", "titles", "rows"}
Completing == {"get", "list", "getByTags", "getByCategories"}

PlaceOK ==
  /\ reader.at = "find" => request.handler = "get"
  /\ reader.at = "match" => request.handler \in Searching
  /\ reader.at = "page" => request.handler \in {"list"} \cup Searching
  /\ reader.at = "titles" => request.handler = "listTitles"
  /\ reader.at = "rows" => request.handler \in {"listTags", "listCategories"}
  /\ reader.at \in {"tags", "categories"} => /\ request.handler \in Completing
                                             /\ reader.todo # <<>>
  /\ reader.at = "categories" => reader.answer # <<>>
  /\ reader.at \in Querying => reader.todo = <<>> /\ reader.answer = <<>>
  /\ reader.at # "done" => reader.status = "pending"
  /\ reader.at = "match" => reader.ids = {}

Answers(handler) ==
  CASE handler = "listTitles"     -> Seq({p.name : p \in PostRow})
    [] handler = "listTags"       -> Seq(TagRow)
    [] handler = "listCategories" -> Seq(CategoryRow)
    [] OTHER                      -> Seq(Entry)

ReaderOK ==
  /\ reader = [at |-> reader.at, ids |-> reader.ids, todo |-> reader.todo,
               answer |-> reader.answer, status |-> reader.status]
  /\ reader.at \in Places
  /\ reader.ids \subseteq PostIds
  /\ reader.todo \in Seq(PostRow)
  /\ reader.answer \in Answers(request.handler)
  /\ reader.status \in {"pending", "OK", "Not Found", "failed"}

(* The posts a search goes by have the rows it found, and with MATCHING no *)
(* other post had any when the client began to ask.                        *)
IdsOK ==
  request.handler \in Searching =>
    \A id \in reader.ids :
      /\ \E row \in Matched(SearchedTable(Tables)) : row.post = id
      /\ request.filter_type = "MATCHING" =>
           \A row \in Matched(SearchedTable(session.seen)) : row.post = id

(* A post chosen, and one whose tags (and categories) have been attached.  *)
ChosenOK(post) ==
  post \in Posts /\ (request.handler \in Searching => post.post_id \in reader.ids)

Shows(found) == found # QueryError => \E row \in found : row.name \in request.arg

TagsOK(e) ==
  /\ LiesBetween(e.tags, session.seen.tags, Tags, e.post)
  /\ request.handler = "getByTags" => Shows(e.tags)

CategoriesOK(e) ==
  /\ LiesBetween(e.categories, session.seen.categories, Categories, e.post)
  /\ request.handler = "getByCategories" => Shows(e.categories)

(* In "categories" the last entry is the current post's, and still waits   *)
(* for its categories.                                                     *)
AnswerOK ==
  request.handler \in Completing =>
    /\ reader.at = "categories" => reader.answer[Len(reader.answer)].post = Current
    /\ \A i \in DOMAIN reader.todo : ChosenOK(reader.todo[i])
    /\ \A i \in DOMAIN reader.answer :
         /\ ChosenOK(reader.answer[i].post)
         /\ TagsOK(reader.answer[i])
         /\ \/ reader.at = "categories" /\ i = Len(reader.answer)
            \/ CategoriesOK(reader.answer[i])

NotFoundOK ==
  reader.status = "Not Found" =>
    /\ request.handler \in {"get"} \cup Searching
    /\ request.handler = "get" => \A p \in session.seen.posts : p.name \notin request.arg
    /\ request.handler \in Searching =>
         \/ Matched(SearchedTable(session.seen)) = {}
         \/ /\ request.filter_type = "MATCHING"
            /\ \E a, b \in Matched(SearchedTable(Tables)) : a.post # b.post

IInv == /\ TablesOK /\ SeenOK /\ RequestOK /\ PlaceOK /\ ReaderOK
        /\ IdsOK /\ AnswerOK /\ NotFoundOK

-----------------------------------------------------------------------------
(* Sequences of rows.                                                      *)

LEMMA Nothing == DOMAIN <<>> = {}
OBVIOUS

LEMMA Items ==
  ASSUME NEW S, NEW T, S \subseteq T, NEW s \in Seq(S)
  PROVE  /\ s \in Seq(T) /\ Len(s) \in Nat /\ DOMAIN s = 1 .. Len(s)
         /\ \A i \in DOMAIN s : s[i] \in S
<1>1. Len(s) \in Nat /\ DOMAIN s = 1 .. Len(s) /\ s \in [1 .. Len(s) -> S]
  BY LenProperties
<1>2. s \in [1 .. Len(s) -> T]
  BY <1>1
<1>3. s \in Seq(T)
  BY <1>1, <1>2, SeqDef
<1> QED BY <1>1, <1>3

LEMMA HeadTail ==
  ASSUME NEW S, NEW s \in Seq(S), s # <<>>
  PROVE  /\ 1 \in DOMAIN s /\ Head(s) = s[1] /\ Head(s) \in S
         /\ Tail(s) \in Seq(S)
         /\ \A i \in DOMAIN Tail(s) : i + 1 \in DOMAIN s /\ Tail(s)[i] = s[i + 1]
         /\ Len(s) \in Nat \ {0} /\ DOMAIN s = 1 .. Len(s)
         /\ Len(s) # 1 => Tail(s) # <<>>
<1>1. /\ Len(s) \in Nat \ {0} /\ DOMAIN s = 1 .. Len(s)
  BY EmptySeq, LenProperties
<1>2. /\ Head(s) \in S /\ Tail(s) \in Seq(S) /\ Len(Tail(s)) = Len(s) - 1
      /\ \A i \in 1 .. Len(Tail(s)) : Tail(s)[i] = s[i + 1]
  BY HeadTailProperties
<1>3. DOMAIN Tail(s) = 1 .. Len(Tail(s))
  BY <1>2, LenProperties
<1>4. Head(s) = s[1]
  BY <1>1
<1>5. Len(<<>>) = 0
  BY EmptySeq
<1>6. Len(s) # 1 => Tail(s) # <<>>
  <2> SUFFICES ASSUME Tail(s) = <<>> PROVE Len(s) = 1
    OBVIOUS
  <2>1. Len(s) - 1 = 0
    BY <1>2, <1>5
  <2> QED BY <1>1, <2>1
<1> QED BY <1>1, <1>2, <1>3, <1>4, <1>6

(* findFutureOne's row, as a sequence of one of the rows found.            *)
LEMMA SetToSeqProps ==
  ASSUME NEW S, IsFiniteSet(S)
  PROVE  SetToSeq(S) \in Seq(S) /\ (S # {} => SetToSeq(S) # <<>>)
<1>1. Cardinality(S) \in Nat /\ ExistsBijection(1 .. Cardinality(S), S)
  BY FS_CardinalityType
<1>2. \E f \in [1 .. Cardinality(S) -> S] : IsInjective(f)
  BY <1>1 DEF ExistsBijection, Bijection, Injection
<1>3. SetToSeq(S) \in [1 .. Cardinality(S) -> S]
  BY <1>2 DEF SetToSeq
<1>4. SetToSeq(S) \in Seq(S)
  BY <1>1, <1>3, SeqDef
<1>5. ASSUME S # {}, SetToSeq(S) = <<>> PROVE FALSE
  <2>1. Cardinality(S) # 0
    BY <1>5, FS_EmptySet
  <2>2. 1 \in DOMAIN SetToSeq(S)
    BY <1>1, <1>3, <2>1
  <2> QED BY <1>5, <2>2
<1> QED BY <1>4, <1>5

(* The rows in order are all the rows, each once.                          *)
LEMMA OrderedProps ==
  ASSUME NEW rows, IsFiniteSet(rows), NEW r, NEW s \in Ordered(rows, r)
  PROVE  /\ s \in Seq(rows) /\ Len(s) = Cardinality(rows)
         /\ Len(s) \in Nat /\ DOMAIN s = 1 .. Len(s)
         /\ \A i \in 1 .. Len(s) : s[i] \in rows
         /\ \A i, j \in 1 .. Len(s) : s[i] = s[j] => i = j
         /\ \A i, j \in 1 .. Len(s) : i < j => InOrder(s[i], s[j], r)
         /\ \A row \in rows : \E i \in 1 .. Len(s) : s[i] = row
<1>1. /\ Cardinality(rows) \in Nat
      /\ s \in [1 .. Cardinality(rows) -> rows]
      /\ \A i, j \in 1 .. Cardinality(rows) : i # j => s[i] # s[j]
      /\ \A i, j \in DOMAIN s : i < j => InOrder(s[i], s[j], r)
  BY FS_CardinalityType DEF Ordered, SetToSeqs
<1>2. s \in Seq(rows) /\ DOMAIN s = 1 .. Cardinality(rows)
  BY <1>1, SeqDef
<1>3. Len(s) = Cardinality(rows)
  BY <1>1, <1>2, LenProperties
<1>4. s \in Surjection(1 .. Cardinality(rows), rows)
  <2>1. s \in Injection(1 .. Cardinality(rows), rows)
    BY <1>1 DEF Injection, IsInjective
  <2>2. Cardinality(1 .. Cardinality(rows)) = Cardinality(rows)
    BY <1>1, FS_Interval
  <2> QED BY <2>1, <2>2, FS_Injection
<1>5. \A row \in rows : \E i \in 1 .. Len(s) : s[i] = row
  BY <1>3, <1>4 DEF Surjection
<1> QED BY <1>1, <1>2, <1>3, <1>5

(* The rows of a page: those at the places from first to last.             *)
LEMMA PaginateProps ==
  ASSUME NEW rows, NEW s \in Seq(rows), NEW page \in Nat \ {0}, NEW limit \in Nat \ {0}
  PROVE  /\ paginate(s, page, limit) \in Seq(rows)
         /\ (page - 1) * limit \in Nat /\ page * limit = (page - 1) * limit + limit
         /\ \A i \in 1 .. Len(s) : (page - 1) * limit < i /\ i <= page * limit =>
              \E j \in DOMAIN paginate(s, page, limit) : paginate(s, page, limit)[j] = s[i]
<1> DEFINE m == (page - 1) * limit + 1
           n == IF page * limit < Len(s) THEN page * limit ELSE Len(s)
<1>1. Len(s) \in Nat /\ \A i \in 1 .. Len(s) : s[i] \in rows
  BY LenProperties, ElementOfSeq
<1>2. (page - 1) * limit \in Nat /\ page * limit = (page - 1) * limit + limit
  <2>1. page - 1 \in Nat
    OBVIOUS
  <2>2. \A a \in Nat : a * limit \in Nat /\ (a + 1) * limit = a * limit + limit
    OBVIOUS
  <2> QED BY <2>1, <2>2
<1>3. m \in Nat \ {0} /\ n \in Nat /\ n <= Len(s)
  BY <1>1, <1>2
<1>4. paginate(s, page, limit) = SubSeq(s, m, n)
  BY DEF paginate
<1> DEFINE t == SubSeq(s, m, n)
<1>5. /\ t \in Seq(rows)
      /\ Len(t) = IF m <= n THEN n - m + 1 ELSE 0
      /\ \A i \in 1 .. n - m + 1 : t[i] = s[m + i - 1]
  <2> HIDE DEF m, n
  <2>1. \A i \in m .. n : s[i] \in rows
    BY <1>1, <1>3
  <2> QED BY <1>3, <2>1, SubSeqProperties
<1>6. DOMAIN t = 1 .. Len(t)
  BY <1>5, LenProperties
<1>7. ASSUME NEW i \in 1 .. Len(s), (page - 1) * limit < i, i <= page * limit
      PROVE  \E j \in DOMAIN t : t[j] = s[i]
  <2>1. m <= i /\ i <= n /\ i \in Nat
    BY <1>1, <1>2, <1>7
  <2> HIDE DEF m, n, t
  <2>2. i - m + 1 \in 1 .. n - m + 1 /\ m + (i - m + 1) - 1 = i
    BY <1>3, <2>1
  <2>3. t[i - m + 1] = s[i] /\ i - m + 1 \in DOMAIN t
    BY <1>3, <1>5, <1>6, <2>1, <2>2
  <2> QED BY <2>3
<1> QED BY <1>2, <1>4, <1>5, <1>7

LEMMA PageAndLimit ==
  ASSUME RequestOK
  PROVE  Page(request) \in Nat \ {0} /\ Limit(request) \in Nat \ {0}
BY DEF RequestOK, Page, Limit

(* Whatever the order, a page is made of rows of the table.                *)
LEMMA PagesProps ==
  ASSUME RequestOK, NEW rows, IsFiniteSet(rows), NEW s \in Pages(rows, request)
  PROVE  s \in Seq(rows)
<1>1. PICK t \in Ordered(rows, request) :
        s = paginate(t, Page(request), Limit(request))
  BY DEF Pages
<1> QED BY <1>1, OrderedProps, PaginateProps, PageAndLimit

-----------------------------------------------------------------------------
(* The writers.                                                            *)

Rest == SeenOK /\ RequestOK /\ PlaceOK /\ ReaderOK /\ IdsOK /\ AnswerOK /\ NotFoundOK

LEMMA Grow ==
  ASSUME IInv,
         Posts \subseteq Posts', Tags \subseteq Tags', Categories \subseteq Categories',
         UNCHANGED <<request, reader, session>>
  PROVE  Rest'
<1>1. SeenOK' /\ RequestOK' /\ PlaceOK' /\ ReaderOK'
  BY DEF IInv, SeenOK, RequestOK, PlaceOK, ReaderOK
<1>2. Matched(SearchedTable(Tables)) \subseteq Matched(SearchedTable(Tables))'
  BY DEF Matched, SearchedTable, Tables
<1>3. Matched(SearchedTable(session.seen))' = Matched(SearchedTable(session.seen))
  BY DEF Matched, SearchedTable
<1>4. IdsOK'
  BY <1>2, <1>3 DEF IInv, IdsOK
<1>5. NotFoundOK'
  BY <1>2, <1>3 DEF IInv, NotFoundOK
<1>6. \A found, before, post :
        /\ LiesBetween(found, before, Tags, post) => LiesBetween(found, before, Tags', post)
        /\ LiesBetween(found, before, Categories, post)
             => LiesBetween(found, before, Categories', post)
  BY DEF LiesBetween
<1>7. \A found : Shows(found) => \/ found = QueryError
                                 \/ \E row \in found : row.name \in request'.arg
  BY DEF Shows
<1>8. AnswerOK'
  <2> SUFFICES ASSUME request.handler \in Completing PROVE AnswerOK'
    BY DEF AnswerOK
  <2>9. reader.at = "categories" => reader.answer[Len(reader.answer)].post = Current
    BY DEF IInv, AnswerOK
  <2>0. reader'.at = "categories" => reader'.answer[Len(reader'.answer)].post = Current'
    BY <2>9 DEF Current
  <2>1. \A i \in DOMAIN reader.todo : ChosenOK(reader.todo[i])'
    BY DEF IInv, AnswerOK, ChosenOK
  <2>2. ASSUME NEW i \in DOMAIN reader.answer
        PROVE  /\ ChosenOK(reader.answer[i].post)'
               /\ TagsOK(reader.answer[i])'
               /\ \/ reader.at = "categories" /\ i = Len(reader.answer)
                  \/ CategoriesOK(reader.answer[i])'
    <3>1. PICK e : e = reader.answer[i]
      OBVIOUS
    <3>2. ChosenOK(e.post) /\ TagsOK(e)
      BY <3>1 DEF IInv, AnswerOK
    <3>3. \/ reader.at = "categories" /\ i = Len(reader.answer)
          \/ CategoriesOK(e)
      BY <3>1 DEF IInv, AnswerOK
    <3>4. ChosenOK(e.post)'
      BY <3>2 DEF ChosenOK
    <3>5. TagsOK(e)'
      BY <1>6, <1>7, <3>2 DEF TagsOK, Shows
    <3>6. CategoriesOK(e) => CategoriesOK(e)'
      BY <1>6, <1>7 DEF CategoriesOK, Shows
    <3>7. reader'.answer[i] = e
      BY <3>1
    <3> QED BY <3>3, <3>4, <3>5, <3>6, <3>7
  <2>3. ASSUME NEW i \in DOMAIN reader'.todo PROVE ChosenOK(reader.todo[i])'
    BY <2>1
  <2>4. ASSUME NEW i \in DOMAIN reader'.answer
        PROVE  /\ ChosenOK(reader.answer[i].post)'
               /\ TagsOK(reader.answer[i])'
               /\ \/ reader'.at = "categories" /\ i = Len(reader'.answer)
                  \/ CategoriesOK(reader.answer[i])'
    BY <2>2
  <2> QED BY <2>0, <2>3, <2>4 DEF AnswerOK
<1> QED BY <1>1, <1>4, <1>5, <1>8 DEF Rest

LEMMA WriteInv == ASSUME IInv, Write PROVE IInv'
<1>1. UNCHANGED <<request, reader, session>> /\ TablesOK
  BY DEF Write, IInv
<1>2. ASSUME NEW row \in PostRow, Ledger!Publish(row) PROVE IInv'
  <2>1. Posts' = Posts \cup {row} /\ UNCHANGED <<Tags, Categories>>
    BY <1>2 DEF Ledger!Publish
  <2>2. IsFiniteSet(Posts')
    BY <1>1, <2>1, FS_AddElement DEF TablesOK
  <2>3. Ledger!Ids \subseteq Ledger!Ids'
    BY <2>1 DEF Ledger!Ids
  <2>4. TablesOK'
    BY <1>1, <2>1, <2>2, <2>3 DEF TablesOK
  <2> QED BY <1>1, <2>1, <2>4, Grow DEF IInv, Rest
<1>3. ASSUME NEW row \in TagRow, Ledger!Tag(row) PROVE IInv'
  <2>1. /\ Tags' = Tags \cup {row} /\ UNCHANGED <<Posts, Categories>>
        /\ row.post \in Ledger!Ids
    BY <1>3 DEF Ledger!Tag
  <2>2. IsFiniteSet(Tags')
    BY <1>1, <2>1, FS_AddElement DEF TablesOK
  <2>3. TablesOK'
    BY <1>1, <2>1, <2>2 DEF TablesOK, Ledger!Ids
  <2> QED BY <1>1, <2>1, <2>3, Grow DEF IInv, Rest
<1>4. ASSUME NEW row \in CategoryRow, Ledger!Categorise(row) PROVE IInv'
  <2>1. /\ Categories' = Categories \cup {row} /\ UNCHANGED <<Posts, Tags>>
        /\ row.post \in Ledger!Ids
    BY <1>4 DEF Ledger!Categorise
  <2>2. IsFiniteSet(Categories')
    BY <1>1, <2>1, FS_AddElement DEF TablesOK
  <2>3. TablesOK'
    BY <1>1, <2>1, <2>2 DEF TablesOK, Ledger!Ids
  <2> QED BY <1>1, <2>1, <2>3, Grow DEF IInv, Rest
<1> QED BY <1>2, <1>3, <1>4 DEF Write

-----------------------------------------------------------------------------
(* The queries: they leave everything alone but the handler.               *)

LEMMA Frame == ASSUME IInv, Still PROVE TablesOK' /\ SeenOK' /\ RequestOK'
<1>1. TablesOK'
  BY DEF IInv, Still, tables, TablesOK, Ledger!Ids
<1>2. SeenOK' /\ RequestOK'
  BY DEF IInv, Still, tables, SeenOK, RequestOK
<1> QED BY <1>1, <1>2

(* A reply that ends the handling before a post has been completed.        *)
LEMMA ReplyInv ==
  ASSUME IInv, Still, NEW status \in {"OK", "Not Found", "failed"}, Reply(status),
         reader.at \in Querying,
         status = "Not Found" =>
           /\ request.handler \in {"get"} \cup Searching
           /\ request.handler = "get" =>
                \A p \in session.seen.posts : p.name \notin request.arg
           /\ request.handler \in Searching =>
                \/ Matched(SearchedTable(session.seen)) = {}
                \/ /\ request.filter_type = "MATCHING"
                   /\ \E a, b \in Matched(SearchedTable(Tables)) : a.post # b.post
  PROVE  IInv'
<1>1. reader' = [at |-> "done", ids |-> reader.ids, todo |-> reader.todo,
                 answer |-> reader.answer, status |-> status]
  BY DEF IInv, ReaderOK, Reply
<1>2. UNCHANGED <<Posts, Tags, Categories, request, session>>
  BY DEF Still, tables
<1>3. ReaderOK' /\ PlaceOK'
  <2>1. reader'.at = "done"
    BY <1>1
  <2>2. ReaderOK'
    BY <1>1, <1>2, <2>1 DEF IInv, ReaderOK, Places
  <2>3. PlaceOK'
    BY <2>1 DEF PlaceOK, Querying
  <2> QED BY <2>2, <2>3
<1>4. IdsOK'
  BY <1>1, <1>2 DEF IInv, IdsOK, Matched, SearchedTable, Tables
<1>5. AnswerOK'
  <2>1. reader'.answer = <<>>
    BY <1>1 DEF IInv, PlaceOK
  <2>2. DOMAIN reader'.answer = {}
    BY <2>1, Nothing
  <2>3. request.handler \in Completing =>
          \A i \in DOMAIN reader.todo : ChosenOK(reader.todo[i])
    BY DEF IInv, AnswerOK
  <2>4. request'.handler \in Completing =>
          \A i \in DOMAIN reader'.todo : ChosenOK(reader.todo[i])'
    BY <1>1, <1>2, <2>3 DEF ChosenOK
  <2>5. reader'.at # "categories"
    BY <1>1
  <2> QED BY <2>2, <2>4, <2>5 DEF AnswerOK
<1>6. NotFoundOK'
  BY <1>1, <1>2 DEF NotFoundOK, Matched, SearchedTable, Tables
<1> QED BY Frame, <1>3, <1>4, <1>5, <1>6 DEF IInv

(* The posts that have been chosen are completed one after the other.      *)
LEMMA AttachInv ==
  ASSUME IInv, Still, NEW s \in Seq(PostRow), Attach(s),
         reader.at \in Querying, request.handler \in Completing,
         \A i \in DOMAIN s : ChosenOK(s[i])
  PROVE  IInv'
<1>1. CASE s = <<>>
  BY <1>1, ReplyInv DEF Attach
<1>2. CASE s # <<>>
  <2>1. reader' = [at |-> "tags", ids |-> reader.ids, todo |-> s,
                   answer |-> reader.answer, status |-> reader.status]
    BY <1>2 DEF IInv, ReaderOK, Attach
  <2>2. UNCHANGED <<Posts, Tags, Categories, request, session>>
    BY DEF Still, tables
  <2>3. ReaderOK' /\ PlaceOK'
    BY <1>2, <2>1, <2>2 DEF IInv, ReaderOK, PlaceOK, Places, Querying
  <2>4. IdsOK'
    BY <2>1, <2>2 DEF IInv, IdsOK, Matched, SearchedTable, Tables
  <2>5. AnswerOK'
    <3>1. reader'.answer = <<>>
      BY <2>1 DEF IInv, PlaceOK
    <3>2. DOMAIN reader'.answer = {}
      BY <3>1, Nothing
    <3>3. \A i \in DOMAIN reader'.todo : ChosenOK(reader'.todo[i])
      BY <2>1
    <3>4. \A i \in DOMAIN reader'.todo : ChosenOK(reader.todo[i])'
      BY <2>1, <2>2, <3>3 DEF ChosenOK
    <3>5. reader'.at # "categories"
      BY <2>1
    <3> QED BY <3>2, <3>4, <3>5 DEF AnswerOK
  <2>6. NotFoundOK'
    BY <2>1, <2>2 DEF IInv, NotFoundOK, PlaceOK, Querying
  <2> QED BY Frame, <2>3, <2>4, <2>5, <2>6 DEF IInv
<1> QED BY <1>1, <1>2

LEMMA FailInv == ASSUME IInv, QueryFails PROVE IInv'
BY ReplyInv DEF QueryFails, Querying

LEMMA FindInv == ASSUME IInv, FindPost PROVE IInv'
<1> DEFINE found == { p \in Posts : p.name \in request.arg }
<1>1. /\ Still /\ reader.at \in Querying /\ request.handler = "get"
      /\ IsFiniteSet(found) /\ found \subseteq Posts /\ Posts \subseteq PostRow
  BY FS_Subset DEF FindPost, IInv, PlaceOK, Querying, TablesOK
<1>2. CASE found = {}
  <2>1. \A p \in session.seen.posts : p.name \notin request.arg
    BY <1>2 DEF IInv, SeenOK
  <2> QED BY <1>1, <1>2, <2>1, ReplyInv DEF FindPost, Searching
<1>3. CASE found # {}
  <2> DEFINE s == SetToSeq(found)
  <2>1. s \in Seq(found)
    BY <1>1, SetToSeqProps
  <2>2. s \in Seq(PostRow) /\ \A i \in DOMAIN s : s[i] \in found
    <3>1. found \subseteq PostRow
      BY <1>1
    <3> HIDE DEF s, found
    <3> QED BY <2>1, <3>1, Items
  <2>3. Attach(s)
    BY <1>3 DEF FindPost
  <2>4. \A i \in DOMAIN s : ChosenOK(s[i])
    BY <1>1, <2>2 DEF ChosenOK, Searching
  <2>5. request.handler \in Completing
    BY <1>1 DEF Completing
  <2> HIDE DEF s, found
  <2> QED BY <1>1, <2>2, <2>3, <2>4, <2>5, AttachInv
<1> QED BY <1>2, <1>3

-----------------------------------------------------------------------------
(* The searches.                                                           *)

LEMMA SearchedProps ==
  ASSUME IInv, request.handler \in Searching
  PROVE  LET matched == Matched(SearchedTable(Tables)) IN
         /\ IsFiniteSet(matched)
         /\ Matched(SearchedTable(session.seen)) \subseteq matched
         /\ \A row \in matched : row.post \in PostIds
<1> DEFINE matched == Matched(SearchedTable(Tables))
<1>1. SearchedTable(Tables) \in {Tags, Categories}
  BY DEF SearchedTable, Tables
<1>2. IsFiniteSet(SearchedTable(Tables))
  BY <1>1 DEF IInv, TablesOK
<1>3. IsFiniteSet(matched) /\ matched \subseteq SearchedTable(Tables)
  BY <1>2, FS_Subset DEF Matched
<1>4. SearchedTable(session.seen) \subseteq SearchedTable(Tables)
  BY DEF SearchedTable, Tables, IInv, SeenOK
<1>5. Matched(SearchedTable(session.seen)) \subseteq matched
  BY <1>4 DEF Matched
<1>6. \A row \in matched : row.post \in Ledger!Ids
  BY <1>1, <1>3 DEF IInv, TablesOK
<1>7. Ledger!Ids \subseteq PostIds
  BY DEF IInv, TablesOK, Ledger!Ids, PostIds
<1> QED BY <1>3, <1>5, <1>6, <1>7

(* A post that MATCHING keeps is the only one with a row; and it keeps one *)
(* unless there is none, or two.                                           *)
LEMMA FilteredProps ==
  ASSUME NEW matched, IsFiniteSet(matched)
  PROVE  /\ \A id \in Filtered(matched) :
              /\ \E row \in matched : row.post = id
              /\ request.filter_type = "MATCHING" => \A row \in matched : row.post = id
         /\ Filtered(matched) = {} =>
              \/ matched = {}
              \/ /\ request.filter_type = "MATCHING"
                 /\ \E a, b \in matched : a.post # b.post
<1> DEFINE ids == { row.post : row \in matched }
           own(id) == { row \in matched : row.post = id }
<1>1. Filtered(matched) = IF request.filter_type = "MATCHING"
                          THEN { id \in ids : Cardinality(own(id)) = Cardinality(matched) }
                          ELSE ids
  BY DEF Filtered
<1>2. ASSUME NEW id \in Filtered(matched)
      PROVE  /\ \E row \in matched : row.post = id
             /\ request.filter_type = "MATCHING" => \A row \in matched : row.post = id
  <2>1. id \in ids
    BY <1>1, <1>2
  <2>2. ASSUME request.filter_type = "MATCHING" PROVE \A row \in matched : row.post = id
    <3>1. Cardinality(own(id)) = Cardinality(matched)
      BY <1>1, <1>2, <2>2
    <3>2. own(id) \subseteq matched
      OBVIOUS
    <3>3. own(id) = matched
      <4> HIDE DEF own
      <4> QED BY <3>1, <3>2, FS_Subset
    <3> QED BY <3>3
  <2> QED BY <2>1, <2>2
<1>3. ASSUME Filtered(matched) = {}, matched # {}
      PROVE  /\ request.filter_type = "MATCHING"
             /\ \E a, b \in matched : a.post # b.post
  <2>1. PICK a \in matched : TRUE
    BY <1>3
  <2>2. a.post \in ids
    BY <2>1
  <2>3. request.filter_type = "MATCHING"
    BY <1>1, <1>3, <2>2
  <2>4. Cardinality(own(a.post)) # Cardinality(matched)
    BY <1>1, <1>3, <2>2, <2>3
  <2>5. own(a.post) # matched
    BY <2>4
  <2> QED BY <2>1, <2>3, <2>5
<1> QED BY <1>2, <1>3

LEMMA PostsOfProps ==
  ASSUME NEW matched, IsFiniteSet(matched)
  PROVE  IsFiniteSet({ row.post : row \in matched })
<1> DEFINE posts == { row.post : row \in matched }
           f == [row \in matched |-> row.post]
<1>1. f \in Surjection(matched, posts)
  BY DEF Surjection
<1>2. IsFiniteSet(posts)
  <2> HIDE DEF posts, f
  <2> QED BY <1>1, FS_Surjection
<1> QED BY <1>2

LEMMA SearchInv ==
  ASSUME IInv, request.handler \in Searching, MatchIn(SearchedTable(Tables))
  PROVE  IInv'
<1> DEFINE matched == Matched(SearchedTable(Tables))
           ids == Filtered(matched)
           before == Matched(SearchedTable(session.seen))
<1>1. /\ IsFiniteSet(matched) /\ before \subseteq matched
      /\ \A row \in matched : row.post \in PostIds
  BY SearchedProps
<1>2. /\ \A id \in ids :
           /\ \E row \in matched : row.post = id
           /\ request.filter_type = "MATCHING" => \A row \in matched : row.post = id
      /\ ids = {} => \/ matched = {}
                     \/ /\ request.filter_type = "MATCHING"
                        /\ \E a, b \in matched : a.post # b.post
  BY <1>1, FilteredProps
<1>3. /\ Still /\ reader.at = "match"
      /\ IF ids = {} THEN Reply("Not Found")
         ELSE reader' = [reader EXCEPT !.at = "page", !.ids = ids]
  BY DEF MatchIn
<1>4. CASE ids = {}
  <2>1. before = {} \/ /\ request.filter_type = "MATCHING"
                       /\ \E a, b \in matched : a.post # b.post
    BY <1>1, <1>2, <1>4
  <2>2. request.handler # "get"
    BY DEF Searching
  <2>3. Reply("Not Found")
    BY <1>3, <1>4
  <2>4. reader.at \in Querying
    BY <1>3 DEF Querying
  <2> QED BY <1>3, <2>1, <2>2, <2>3, <2>4, ReplyInv
<1>5. CASE ids # {}
  <2>1. reader' = [at |-> "page", ids |-> ids, todo |-> reader.todo,
                   answer |-> reader.answer, status |-> reader.status]
    BY <1>3, <1>5 DEF IInv, ReaderOK
  <2>2. UNCHANGED <<Posts, Tags, Categories, request, session>>
    BY <1>3 DEF Still, tables
  <2>3. ids \subseteq PostIds
    BY <1>1, <1>2
  <2>4. ReaderOK' /\ PlaceOK'
    <3> HIDE DEF ids
    <3> QED BY <1>3, <2>1, <2>2, <2>3 DEF IInv, ReaderOK, PlaceOK, Places, Querying
  <2>5. IdsOK'
    <3>1. \A id \in ids :
            /\ \E row \in matched : row.post = id
            /\ request.filter_type = "MATCHING" => \A row \in before : row.post = id
      BY <1>1, <1>2
    <3>2. matched' = matched /\ before' = before
      BY <2>2 DEF Matched, SearchedTable, Tables
    <3>3. reader'.ids = ids
      BY <2>1
    <3> HIDE DEF ids
    <3> QED BY <2>2, <3>1, <3>2, <3>3 DEF IdsOK
  <2>6. AnswerOK'
    <3>1. reader'.answer = <<>> /\ reader'.todo = <<>>
      BY <1>3, <2>1 DEF IInv, PlaceOK, Querying
    <3>2. DOMAIN reader'.answer = {} /\ DOMAIN reader'.todo = {}
      BY <3>1, Nothing
    <3>3. reader'.at # "categories"
      BY <2>1
    <3> QED BY <3>2, <3>3 DEF AnswerOK
  <2>7. NotFoundOK'
    BY <1>3, <2>1, <2>2 DEF IInv, NotFoundOK, PlaceOK, Querying
  <2> QED BY <1>3, <2>4, <2>5, <2>6, <2>7, Frame DEF IInv
<1> QED BY <1>4, <1>5

LEMMA MatchInv == ASSUME IInv, MatchTags \/ MatchCategories PROVE IInv'
<1>1. CASE MatchTags
  <2>1. request.handler = "getByTags" /\ MatchIn(Tags) /\ SearchedTable(Tables) = Tags
    BY <1>1 DEF MatchTags, SearchedTable, Tables
  <2> QED BY <2>1, SearchInv DEF Searching
<1>2. CASE MatchCategories
  <2>1. /\ request.handler = "getByCategories" /\ MatchIn(Categories)
        /\ SearchedTable(Tables) = Categories
    BY <1>2 DEF MatchCategories, SearchedTable, Tables
  <2> QED BY <2>1, SearchInv DEF Searching
<1> QED BY <1>1, <1>2

-----------------------------------------------------------------------------
(* The pages.                                                              *)

LEMMA FindMatchedPageInv == ASSUME IInv, FindMatchedPage PROVE IInv'
<1>1. PICK s \in Pages(WithIds(reader.ids), request) : Attach(s)
  BY DEF FindMatchedPage
<1>2. /\ Still /\ reader.at \in Querying
      /\ request.handler \in Searching /\ request.handler \in Completing
  BY DEF FindMatchedPage, IInv, PlaceOK, Querying, Searching, Completing
<1>3. IsFiniteSet(WithIds(reader.ids)) /\ WithIds(reader.ids) \subseteq Posts
  BY FS_Subset DEF WithIds, IInv, TablesOK
<1>4. s \in Seq(WithIds(reader.ids))
  BY <1>1, <1>3, PagesProps DEF IInv
<1>5. WithIds(reader.ids) \subseteq PostRow
  BY <1>3 DEF IInv, TablesOK
<1>6. s \in Seq(PostRow) /\ \A i \in DOMAIN s : s[i] \in WithIds(reader.ids)
  BY <1>4, <1>5, Items
<1>7. \A i \in DOMAIN s : ChosenOK(s[i])
  BY <1>3, <1>6 DEF ChosenOK, WithIds
<1> QED BY <1>1, <1>2, <1>6, <1>7, AttachInv

LEMMA FindPageInv == ASSUME IInv, FindPage PROVE IInv'
<1>1. PICK s \in Pages(Posts, request) : Attach(s)
  BY DEF FindPage
<1>2. /\ Still /\ reader.at \in Querying
      /\ request.handler \notin Searching /\ request.handler \in Completing
  BY DEF FindPage, Querying, Searching, Completing
<1>3. IsFiniteSet(Posts) /\ Posts \subseteq PostRow
  BY DEF IInv, TablesOK
<1>4. s \in Seq(Posts)
  BY <1>1, <1>3, PagesProps DEF IInv
<1>5. s \in Seq(PostRow) /\ \A i \in DOMAIN s : s[i] \in Posts
  BY <1>3, <1>4, Items
<1>6. \A i \in DOMAIN s : ChosenOK(s[i])
  BY <1>2, <1>5 DEF ChosenOK
<1> QED BY <1>1, <1>2, <1>5, <1>6, AttachInv

(* The three lists answer what they have read.                             *)
LEMMA ListInv ==
  ASSUME IInv, Still, reader.at \in Querying, request.handler \notin Completing,
         NEW s \in Answers(request.handler), ListRows(s)
  PROVE  IInv'
<1>1. reader' = [at |-> "done", ids |-> reader.ids, todo |-> reader.todo,
                 answer |-> s, status |-> "OK"]
  BY DEF IInv, ReaderOK, ListRows
<1>2. UNCHANGED <<Posts, Tags, Categories, request, session>>
  BY DEF Still, tables
<1>3. ReaderOK' /\ PlaceOK'
  BY <1>1, <1>2 DEF IInv, ReaderOK, PlaceOK, Places, Querying
<1>4. IdsOK' /\ AnswerOK'
  BY <1>2 DEF IdsOK, AnswerOK, Searching, Completing
<1>5. NotFoundOK'
  BY <1>1 DEF NotFoundOK
<1> QED BY Frame, <1>3, <1>4, <1>5 DEF IInv

LEMMA ListTitlesInv == ASSUME IInv, ListTitles PROVE IInv'
<1>1. /\ Still /\ reader.at \in Querying
      /\ request.handler = "listTitles" /\ request.handler \notin Completing
  BY DEF ListTitles, IInv, PlaceOK, Querying, Completing
<1> DEFINE titles(first) == [i \in DOMAIN first |-> first[i].name]
<1>2. PICK s \in Ordered(Posts, request) :
        ListRows(titles(paginate(s, 1, Limit(request))))
  BY DEF ListTitles
<1> DEFINE first == paginate(s, 1, Limit(request))
<1>3. IsFiniteSet(Posts) /\ Posts \subseteq PostRow
  BY DEF IInv, TablesOK
<1>4. s \in Seq(Posts)
  BY <1>2, <1>3, OrderedProps
<1>5. first \in Seq(Posts)
  <2>1. Limit(request) \in Nat \ {0} /\ 1 \in Nat \ {0}
    BY PageAndLimit DEF IInv
  <2> QED BY <1>4, <2>1, PaginateProps
<1>6. /\ Len(first) \in Nat /\ DOMAIN first = 1 .. Len(first)
      /\ \A i \in DOMAIN first : first[i] \in PostRow
  <2> HIDE DEF first
  <2> QED BY <1>3, <1>5, Items
<1>7. titles(first) \in Seq({p.name : p \in PostRow})
  <2> HIDE DEF first
  <2>1. titles(first) \in [1 .. Len(first) -> {p.name : p \in PostRow}]
    BY <1>6
  <2> QED BY <1>6, <2>1, SeqDef
<1>8. titles(first) \in Answers(request.handler)
  BY <1>1, <1>7 DEF Answers
<1> QED BY <1>1, <1>2, <1>8, ListInv

LEMMA ListTagsInv == ASSUME IInv, ListTags PROVE IInv'
<1>1. /\ Still /\ reader.at \in Querying
      /\ request.handler = "listTags" /\ request.handler \notin Completing
  BY DEF ListTags, Querying, Completing
<1>2. PICK s \in Pages(Tags, request) : ListRows(s)
  BY DEF ListTags
<1>3. IsFiniteSet(Tags) /\ Tags \subseteq TagRow
  BY DEF IInv, TablesOK
<1>4. s \in Seq(TagRow)
  BY <1>2, <1>3, PagesProps, Items DEF IInv
<1>5. s \in Answers(request.handler)
  BY <1>1, <1>4 DEF Answers
<1> QED BY <1>1, <1>2, <1>5, ListInv

LEMMA ListCategoriesInv == ASSUME IInv, ListCategories PROVE IInv'
<1>1. /\ Still /\ reader.at \in Querying
      /\ request.handler = "listCategories" /\ request.handler \notin Completing
  BY DEF ListCategories, Querying, Completing
<1>2. PICK s \in Pages(Categories, request) : ListRows(s)
  BY DEF ListCategories
<1>3. IsFiniteSet(Categories) /\ Categories \subseteq CategoryRow
  BY DEF IInv, TablesOK
<1>4. s \in Seq(CategoryRow)
  BY <1>2, <1>3, PagesProps, Items DEF IInv
<1>5. s \in Answers(request.handler)
  BY <1>1, <1>4 DEF Answers
<1> QED BY <1>1, <1>2, <1>5, ListInv

-----------------------------------------------------------------------------
(* The queries that complete the posts.                                    *)

(* The tables, the request, the session and the posts chosen unchanged.    *)
LEMMA AnswerPrimed ==
  ASSUME Still, reader'.ids = reader.ids,
         reader'.at = "categories" => reader'.answer[Len(reader'.answer)].post = Current',
         \A i \in DOMAIN reader'.todo : ChosenOK(reader'.todo[i]),
         \A i \in DOMAIN reader'.answer :
           /\ ChosenOK(reader'.answer[i].post)
           /\ TagsOK(reader'.answer[i])
           /\ \/ reader'.at = "categories" /\ i = Len(reader'.answer)
              \/ CategoriesOK(reader'.answer[i])
  PROVE  AnswerOK'
<1>1. UNCHANGED <<Posts, Tags, Categories, request, session>>
  BY DEF Still, tables
<1>2. \A post : ChosenOK(post) =>
        post \in Posts' /\ (request'.handler \in Searching => post.post_id \in reader'.ids)
  BY <1>1 DEF ChosenOK
<1>3. ASSUME NEW i \in DOMAIN reader'.todo PROVE ChosenOK(reader.todo[i])'
  BY <1>2 DEF ChosenOK
<1>4. ASSUME NEW i \in DOMAIN reader'.answer
      PROVE  /\ ChosenOK(reader.answer[i].post)'
             /\ TagsOK(reader.answer[i])'
             /\ \/ reader'.at = "categories" /\ i = Len(reader'.answer)
                \/ CategoriesOK(reader.answer[i])'
  <2>1. ChosenOK(reader.answer[i].post)'
    BY <1>2 DEF ChosenOK
  <2>2. TagsOK(reader.answer[i])'
    BY <1>1 DEF TagsOK, LiesBetween, Shows
  <2>3. CategoriesOK(reader'.answer[i]) => CategoriesOK(reader.answer[i])'
    BY <1>1 DEF CategoriesOK, LiesBetween, Shows
  <2> QED BY <2>1, <2>2, <2>3
<1> QED BY <1>3, <1>4 DEF AnswerOK
(* What a query has found of a post's rows, now, lies between.             *)
LEMMA RowsOfProps ==
  ASSUME NEW table, NEW before, before \subseteq table, NEW post,
         NEW found \in {RowsOf(table, post), QueryError}
  PROVE  LiesBetween(found, before, table, post)
BY DEF RowsOf, LiesBetween

(* A post of a search has a row that was searched for, and keeps it.       *)
LEMMA RowsOfShow ==
  ASSUME IInv, request.handler \in Searching, NEW post, ChosenOK(post),
         NEW found \in {RowsOf(SearchedTable(Tables), post), QueryError}
  PROVE  Shows(found)
<1>1. post.post_id \in reader.ids
  BY DEF ChosenOK
<1>2. PICK row \in Matched(SearchedTable(Tables)) : row.post = post.post_id
  BY <1>1 DEF IInv, IdsOK
<1>3. row \in SearchedTable(Tables) /\ row.name \in request.arg
  BY <1>2 DEF Matched
<1> QED BY <1>2, <1>3 DEF Shows, RowsOf

LEMMA AttachTagsInv == ASSUME IInv, AttachTags PROVE IInv'
<1> DEFINE e(found) == [post |-> Current, tags |-> found, categories |-> {}]
<1>1. PICK found \in {RowsOf(Tags, Current), QueryError} :
        reader' = [reader EXCEPT !.at = "categories", !.answer = Append(@, e(found))]
  BY DEF AttachTags
<1>2. /\ reader' = [at |-> "categories", ids |-> reader.ids, todo |-> reader.todo,
                    answer |-> Append(reader.answer, e(found)), status |-> reader.status]
      /\ UNCHANGED <<Posts, Tags, Categories, request, session>>
      /\ reader.at = "tags" /\ request.handler \in Completing /\ reader.todo # <<>>
  BY <1>1 DEF AttachTags, Still, tables, IInv, ReaderOK, PlaceOK
<1>3. 1 \in DOMAIN reader.todo /\ Current = reader.todo[1] /\ Current \in PostRow
  BY <1>2, HeadTail DEF IInv, ReaderOK, Current
<1>4. ChosenOK(Current)
  BY <1>2, <1>3 DEF IInv, AnswerOK
<1>5. e(found) \in Entry
  BY <1>3 DEF Entry, RowsOf, IInv, TablesOK
<1>6. TagsOK(e(found))
  <2>1. LiesBetween(found, session.seen.tags, Tags, Current)
    BY RowsOfProps DEF IInv, SeenOK
  <2>2. request.handler = "getByTags" => Shows(found)
    BY <1>4, RowsOfShow DEF Searching, SearchedTable, Tables
  <2> QED BY <2>1, <2>2 DEF TagsOK
<1>7. reader.answer \in Seq(Entry) /\ Answers(request.handler) = Seq(Entry)
  BY <1>2 DEF IInv, ReaderOK, Answers, Completing
<1> DEFINE answer == Append(reader.answer, e(found))
<1>8. /\ answer \in Seq(Entry) /\ answer # <<>>
      /\ Len(reader.answer) \in Nat /\ Len(answer) = Len(reader.answer) + 1
      /\ DOMAIN reader.answer = 1 .. Len(reader.answer) /\ DOMAIN answer = 1 .. Len(answer)
      /\ \A i \in DOMAIN reader.answer : answer[i] = reader.answer[i]
      /\ answer[Len(answer)] = e(found)
  <2> HIDE DEF e
  <2>1. /\ answer \in Seq(Entry) /\ answer # <<>> /\ Len(answer) = Len(reader.answer) + 1
        /\ \A i \in 1 .. Len(reader.answer) : answer[i] = reader.answer[i]
        /\ answer[Len(reader.answer) + 1] = e(found)
    BY <1>5, <1>7, AppendProperties
  <2>2. /\ Len(reader.answer) \in Nat
        /\ DOMAIN reader.answer = 1 .. Len(reader.answer)
        /\ DOMAIN answer = 1 .. Len(answer)
    BY <1>7, <2>1, LenProperties
  <2> QED BY <2>1, <2>2
<1> HIDE DEF answer
<1>9. reader'.answer = answer /\ reader'.todo = reader.todo /\ reader'.at = "categories"
      /\ reader'.ids = reader.ids /\ reader'.status = reader.status
  BY <1>2 DEF answer
<1>10. ReaderOK' /\ PlaceOK'
  <2>1. reader' = [at |-> "categories", ids |-> reader.ids, todo |-> reader.todo,
                   answer |-> answer, status |-> reader.status]
    BY <1>2 DEF answer
  <2>2. answer \in Answers(request.handler)
    BY <1>7, <1>8
  <2>3. ReaderOK'
    <3>1. reader'.answer \in Answers(request'.handler)
      BY <1>2, <1>9, <2>2
    <3>2. /\ reader.ids \subseteq PostIds /\ reader.todo \in Seq(PostRow)
          /\ reader.status \in {"pending", "OK", "Not Found", "failed"}
      BY DEF IInv, ReaderOK
    <3> QED BY <2>1, <3>1, <3>2 DEF ReaderOK, Places
  <2>4. PlaceOK'
    BY <1>2, <1>8, <2>1 DEF IInv, PlaceOK, Querying
  <2> QED BY <2>3, <2>4
<1>11. IdsOK'
  BY <1>2, <1>9 DEF IInv, IdsOK, Matched, SearchedTable, Tables
<1>12. AnswerOK'
  <2>1. \A i \in DOMAIN reader'.todo : ChosenOK(reader'.todo[i])
    BY <1>2, <1>9 DEF IInv, AnswerOK
  <2>2. \A i \in DOMAIN answer :
          /\ ChosenOK(answer[i].post) /\ TagsOK(answer[i])
          /\ i = Len(answer) \/ CategoriesOK(answer[i])
    <3> SUFFICES ASSUME NEW i \in DOMAIN answer
                 PROVE  /\ ChosenOK(answer[i].post) /\ TagsOK(answer[i])
                        /\ i = Len(answer) \/ CategoriesOK(answer[i])
      OBVIOUS
    <3>1. CASE i = Len(answer)
      <4>1. answer[i] = e(found) /\ e(found).post = Current
        BY <1>8, <3>1
      <4> HIDE DEF e
      <4> QED BY <1>4, <1>6, <3>1, <4>1
    <3>2. CASE i # Len(answer)
      <4>1. i \in DOMAIN reader.answer /\ answer[i] = reader.answer[i]
        BY <1>8, <3>2
      <4> QED BY <1>2, <4>1 DEF IInv, AnswerOK
    <3> QED BY <3>1, <3>2
  <2>3. Still
    BY DEF AttachTags
  <2>4. reader'.answer[Len(reader'.answer)].post = Current'
    <3>1. Current' = Current
      BY <1>9 DEF Current
    <3>2. answer[Len(answer)].post = Current
      BY <1>8
    <3> QED BY <1>9, <3>1, <3>2
  <2> QED BY <1>9, <2>1, <2>2, <2>3, <2>4, AnswerPrimed
<1>13. NotFoundOK'
  BY <1>2, <1>9 DEF IInv, NotFoundOK, PlaceOK
<1> QED BY <1>2, <1>10, <1>11, <1>12, <1>13, Frame DEF IInv, AttachTags

LEMMA AttachCategoriesInv == ASSUME IInv, AttachCategories PROVE IInv'
<1> DEFINE complete == Len(reader.todo) = 1
           at == IF complete THEN "done" ELSE "tags"
           status == IF complete THEN "OK" ELSE reader.status
           n == Len(reader.answer)
           answer(found) == [reader.answer EXCEPT ![n].categories = found]
<1>1. PICK found \in {RowsOf(Categories, Current), QueryError} :
        reader' = [reader EXCEPT !.at = at, !.status = status, !.todo = Tail(@),
                                 !.answer[Len(reader.answer)].categories = found]
  BY DEF AttachCategories
<1>2. /\ reader' = [at |-> at, ids |-> reader.ids, todo |-> Tail(reader.todo),
                    answer |-> answer(found), status |-> status]
      /\ UNCHANGED <<Posts, Tags, Categories, request, session>>
      /\ reader.at = "categories" /\ reader.status = "pending"
      /\ request.handler \in Completing
      /\ reader.todo # <<>> /\ reader.answer # <<>>
  BY <1>1 DEF AttachCategories, Still, tables, IInv, ReaderOK, PlaceOK
<1>3. reader.answer \in Seq(Entry) /\ Answers(request.handler) = Seq(Entry)
  BY <1>2 DEF IInv, ReaderOK, Answers, Completing
<1>4. /\ n \in Nat \ {0} /\ DOMAIN reader.answer = 1 .. n /\ n \in DOMAIN reader.answer
      /\ \A i \in DOMAIN reader.answer : reader.answer[i] \in Entry
  <2>1. n \in Nat \ {0} /\ DOMAIN reader.answer = 1 .. n
    BY <1>2, <1>3, HeadTail
  <2>2. \A i \in DOMAIN reader.answer : reader.answer[i] \in Entry
    BY <1>3, Items
  <2> QED BY <2>1, <2>2
<1> DEFINE last == reader.answer[n]
           e == [last EXCEPT !.categories = found]
<1>5. /\ last \in Entry /\ ChosenOK(last.post) /\ TagsOK(last) /\ last.post = Current
  BY <1>2, <1>4 DEF IInv, AnswerOK
<1>6. found \in (SUBSET CategoryRow) \cup {QueryError}
  BY DEF RowsOf, IInv, TablesOK
<1>7. e \in Entry /\ e.post = last.post /\ e.tags = last.tags /\ e.categories = found
  <2> HIDE DEF last
  <2> QED BY <1>5, <1>6 DEF Entry
<1>8. TagsOK(e) /\ CategoriesOK(e)
  <2>1. TagsOK(e)
    <3> HIDE DEF e, last
    <3> QED BY <1>5, <1>7 DEF TagsOK
  <2>2. LiesBetween(found, session.seen.categories, Categories, Current)
    BY RowsOfProps DEF IInv, SeenOK
  <2>3. request.handler = "getByCategories" => Shows(found)
    BY <1>5, RowsOfShow DEF Searching, SearchedTable, Tables
  <2> HIDE DEF e, last
  <2>4. CategoriesOK(e)
    BY <1>5, <1>7, <2>2, <2>3 DEF CategoriesOK
  <2> QED BY <2>1, <2>4
<1>9. answer(found) = [reader.answer EXCEPT ![n] = e]
  BY <1>4
<1> DEFINE entries == [reader.answer EXCEPT ![n] = e]
<1>10. /\ entries \in Seq(Entry) /\ Len(entries) = n /\ DOMAIN entries = 1 .. n
       /\ entries # <<>> /\ entries[n] = e
       /\ \A i \in 1 .. n : i # n => entries[i] = reader.answer[i]
  <2> HIDE DEF e
  <2>1. entries \in Seq(Entry) /\ Len(entries) = n
    BY <1>3, <1>4, <1>7, ExceptSeq
  <2>2. DOMAIN entries = 1 .. n
    BY <1>4
  <2>3. entries # <<>>
    BY <1>4, <2>2, Nothing
  <2> QED BY <1>4, <2>1, <2>2, <2>3
<1>11. /\ Tail(reader.todo) \in Seq(PostRow)
       /\ \A i \in DOMAIN Tail(reader.todo) :
            i + 1 \in DOMAIN reader.todo /\ Tail(reader.todo)[i] = reader.todo[i + 1]
       /\ ~complete => Tail(reader.todo) # <<>>
  BY <1>2, HeadTail DEF IInv, ReaderOK
<1>12. reader' = [at |-> at, ids |-> reader.ids, todo |-> Tail(reader.todo),
                  answer |-> entries, status |-> status]
  BY <1>2, <1>9
<1>13. at \in {"done", "tags"} /\ (at = "tags" => ~complete /\ status = "pending")
       /\ status \in {"pending", "OK"}
  BY <1>2
<1> HIDE DEF at, status, entries, answer, complete, e, last, n
<1>14. ReaderOK'
  <2>1. reader'.answer \in Answers(request'.handler)
    BY <1>2, <1>3, <1>10, <1>12
  <2>2. reader.ids \subseteq PostIds
    BY DEF IInv, ReaderOK
  <2> QED BY <1>11, <1>12, <1>13, <2>1, <2>2 DEF ReaderOK, Places
<1>15. PlaceOK'
  BY <1>2, <1>11, <1>12, <1>13 DEF PlaceOK, Querying
<1>16. IdsOK'
  <2>1. reader'.ids = reader.ids
    BY <1>12
  <2> QED BY <1>2, <2>1 DEF IInv, IdsOK, Matched, SearchedTable, Tables
<1>17. AnswerOK'
  <2>1. /\ reader'.ids = reader.ids /\ reader'.todo = Tail(reader.todo)
        /\ reader'.answer = entries /\ reader'.at # "categories"
    BY <1>12, <1>13
  <2>2. \A i \in DOMAIN reader.todo : ChosenOK(reader.todo[i])
    BY <1>2 DEF IInv, AnswerOK
  <2>3. \A i \in DOMAIN reader'.todo : ChosenOK(reader'.todo[i])
    BY <1>11, <2>1, <2>2
  <2>4. ASSUME NEW i \in DOMAIN entries
        PROVE  ChosenOK(entries[i].post) /\ TagsOK(entries[i]) /\ CategoriesOK(entries[i])
    <3>1. CASE i = n
      <4>1. entries[i] = e /\ e.post = last.post
        BY <1>7, <1>10, <3>1
      <4>2. ChosenOK(e.post)
        BY <1>5, <4>1
      <4> QED BY <1>8, <4>1, <4>2
    <3>2. CASE i # n
      <4>1. i \in DOMAIN reader.answer /\ entries[i] = reader.answer[i]
        BY <1>4, <1>10, <3>2
      <4> QED BY <1>2, <3>2, <4>1 DEF IInv, AnswerOK, n
    <3> QED BY <3>1, <3>2
  <2>5. Still
    BY DEF AttachCategories
  <2> QED BY <2>1, <2>3, <2>4, <2>5, AnswerPrimed
<1>18. NotFoundOK'
  BY <1>12, <1>13 DEF NotFoundOK
<1> QED BY <1>14, <1>15, <1>16, <1>17, <1>18, Frame DEF IInv, AttachCategories

-----------------------------------------------------------------------------
(* The client.                                                             *)

LEMMA Entered ==
  ASSUME TablesOK, SeenOK, RequestOK, reader = Entering(request)
  PROVE  IInv
<1>1. FirstQuery[request.handler] \in Querying
  BY DEF RequestOK, Handler, FirstQuery, Querying
<1>2. /\ reader.at = FirstQuery[request.handler] /\ reader.ids = {}
      /\ reader.todo = <<>> /\ reader.answer = <<>> /\ reader.status = "pending"
  BY DEF Entering
<1>3. PlaceOK
  BY <1>2 DEF PlaceOK, Querying, Searching, RequestOK, Handler, FirstQuery
<1>4. ReaderOK
  <2>1. \A S : <<>> \in Seq(S)
    OBVIOUS
  <2>2. <<>> \in Answers(request.handler)
    BY <2>1 DEF Answers
  <2>3. reader = [at |-> reader.at, ids |-> reader.ids, todo |-> reader.todo,
                  answer |-> reader.answer, status |-> reader.status]
    BY DEF Entering
  <2> QED BY <1>1, <1>2, <2>1, <2>2, <2>3 DEF ReaderOK, Places, Querying
<1>5. IdsOK
  BY <1>2 DEF IdsOK
<1>6. AnswerOK
  <2>1. DOMAIN reader.todo = {} /\ DOMAIN reader.answer = {} /\ reader.at # "categories"
    BY <1>1, <1>2, Nothing DEF Querying
  <2> QED BY <2>1 DEF AnswerOK
<1>7. NotFoundOK
  BY <1>2 DEF NotFoundOK
<1> QED BY <1>3, <1>4, <1>5, <1>6, <1>7 DEF IInv

LEMMA InitInv == Init => IInv
<1> SUFFICES ASSUME Init PROVE IInv
  OBVIOUS
<1>1. TablesOK
  BY FS_EmptySet DEF Init, TablesOK, Ledger!LedgerInit, Ledger!Ids
<1>2. SeenOK
  BY DEF Init, SeenOK, Tables
<1>3. RequestOK
  BY RequestAssumption DEF Init, RequestOK
<1> QED BY <1>1, <1>2, <1>3, Entered DEF Init

LEMMA EnteredPrimed ==
  TablesOK' /\ SeenOK' /\ RequestOK' /\ reader' = Entering(request') => IInv'
<1>1. TablesOK /\ SeenOK /\ RequestOK /\ reader = Entering(request) => IInv
  BY Entered
<1>2. (TablesOK /\ SeenOK /\ RequestOK /\ reader = Entering(request) => IInv)'
  BY <1>1, PTL
<1> QED BY <1>2

LEMMA AskInv == ASSUME IInv, Ask PROVE IInv'
<1>1. PICK r \in Request : request' = r /\ reader' = Entering(r)
  BY DEF Ask
<1>2. TablesOK'
  BY DEF Ask, tables, IInv, TablesOK, Ledger!Ids
<1>3. SeenOK'
  BY DEF Ask, tables, SeenOK, Tables
<1>4. RequestOK'
  BY <1>1, RequestAssumption DEF RequestOK
<1> QED BY <1>1, <1>2, <1>3, <1>4, EnteredPrimed

LEMMA TurnPageInv == ASSUME IInv, TurnPage PROVE IInv'
<1>1. TablesOK'
  BY DEF TurnPage, tables, IInv, TablesOK, Ledger!Ids
<1>2. /\ session'.seen = session.seen
      /\ session' = [seen |-> session'.seen, read |-> session'.read]
  BY DEF TurnPage, IInv, SeenOK
<1>3. SeenOK'
  BY <1>2 DEF TurnPage, tables, IInv, SeenOK
<1>4. request' = [request EXCEPT !.page = @ + 1]
  BY DEF TurnPage
<1>5. RequestOK'
  BY <1>4 DEF IInv, RequestOK, RequestFields
<1>6. Entering(request) = Entering(request')
  BY <1>4 DEF Entering, IInv, RequestOK, RequestFields
<1> QED BY <1>1, <1>3, <1>5, <1>6, EnteredPrimed DEF TurnPage

LEMMA NextInv == IInv /\ [Next]_vars => IInv'
<1> SUFFICES ASSUME IInv, [Next]_vars PROVE IInv'
  OBVIOUS
<1>1. CASE UNCHANGED vars
  <2>1. UNCHANGED <<Posts, Tags, Categories, request, reader, session>> /\ Still
    BY <1>1 DEF vars, Still, tables
  <2>2. PlaceOK'
    BY <2>1 DEF IInv, PlaceOK
  <2>5. ReaderOK'
    <3>1. ReaderOK /\ UNCHANGED <<request, reader>>
      BY <2>1 DEF IInv
    <3> QED BY <3>1 DEF ReaderOK
  <2>3. IdsOK' /\ NotFoundOK'
    <3>1. IdsOK'
      BY <2>1 DEF IInv, IdsOK, Matched, SearchedTable, Tables
    <3>2. NotFoundOK'
      BY <2>1 DEF IInv, NotFoundOK, Matched, SearchedTable, Tables
    <3> QED BY <3>1, <3>2
  <2>4. AnswerOK'
    <3>1. CASE request.handler \in Completing
      BY <2>1, <3>1, AnswerPrimed DEF IInv, AnswerOK, Current
    <3>2. CASE request.handler \notin Completing
      BY <2>1, <3>2 DEF AnswerOK
    <3> QED BY <3>1, <3>2
  <2> QED BY <2>1, <2>2, <2>3, <2>4, <2>5, Frame DEF IInv
<1>2. CASE Write
  BY <1>2, WriteInv
<1>3. CASE Ask
  BY <1>3, AskInv
<1>4. CASE TurnPage
  BY <1>4, TurnPageInv
<1>5. CASE QueryFails
  BY <1>5, FailInv
<1>6. CASE FindPost
  BY <1>6, FindInv
<1>7. CASE MatchTags \/ MatchCategories
  BY <1>7, MatchInv
<1>8. CASE FindMatchedPage
  BY <1>8, FindMatchedPageInv
<1>9. CASE FindPage
  BY <1>9, FindPageInv
<1>10. CASE ListTitles
  BY <1>10, ListTitlesInv
<1>11. CASE ListTags
  BY <1>11, ListTagsInv
<1>12. CASE ListCategories
  BY <1>12, ListCategoriesInv
<1>13. CASE AttachTags
  BY <1>13, AttachTagsInv
<1>14. CASE AttachCategories
  BY <1>14, AttachCategoriesInv
<1> QED BY <1>1, <1>2, <1>3, <1>4, <1>5, <1>6, <1>7, <1>8, <1>9, <1>10, <1>11, <1>12,
           <1>13, <1>14 DEF Next

-----------------------------------------------------------------------------
(* The theorems.                                                           *)

(* Every part of an answer, and of a search under way, is right as the     *)
(* handler goes from query to query (api_v1_Posts.cc), whatever is written *)
(* between them.                                                           *)
THEOREM AnswersAreRight == Spec => []IInv
<1> QED BY InitInv, NextInv, PTL DEF Spec

(* The tables hold rows of theirs, and every handler's answer is an array  *)
(* of what it lists (api_v1_Posts.cc, api_v1_Tags.cc, api_v1_Categories.cc).*)
THEOREM TypeCorrect == Spec => []TypeOK
<1>1. IInv => TypeOK
  <2> SUFFICES ASSUME IInv PROVE TypeOK
    OBVIOUS
  <2>1. Answers(request.handler) =
          CASE request.handler = "listTitles" -> Seq({p.name : p \in PostRow})
            [] request.handler = "listTags" -> Seq(TagRow)
            [] request.handler = "listCategories" -> Seq(CategoryRow)
            [] OTHER -> Seq(Entry)
    BY DEF Answers
  <2> QED BY <2>1 DEF IInv, TypeOK, TablesOK, ReaderOK, Places
<1> QED BY <1>1, AnswersAreRight, PTL

(* get, list and the two searches give each post with its own tags and     *)
(* categories, no older than the client's first query and no newer than    *)
(* the tables, although they read them by later queries.                   *)
THEOREM EachWithItsOwn == Spec => []EachPostWithItsOwnMetadata
<1>1. IInv => EachPostWithItsOwnMetadata
  BY DEF IInv, EachPostWithItsOwnMetadata, Answered, AnswerOK, Completing, Searching,
     ChosenOK, TagsOK, CategoriesOK
<1> QED BY <1>1, AnswersAreRight, PTL

(* getByTags and getByCategories answer no post without a name that was    *)
(* searched for among the tags, or categories, that come with it.          *)
THEOREM SearchesShowTheMatch == Spec => []FoundPostsShowTheMatch
<1>1. IInv => FoundPostsShowTheMatch
  BY DEF IInv, FoundPostsShowTheMatch, Answered, AnswerOK, Completing, Searching,
     TagsOK, CategoriesOK, Shows
<1> QED BY <1>1, AnswersAreRight, PTL

(* The MATCHING filter answers a post only if no other post has any of the *)
(* names: the count it compares with is that of the rows matched.          *)
THEOREM MatchingExcludes == Spec => []MatchingIsExclusive
<1>1. IInv => MatchingIsExclusive
  BY DEF IInv, MatchingIsExclusive, Answered, AnswerOK, Completing, Searching, ChosenOK,
     IdsOK
<1> QED BY <1>1, AnswersAreRight, PTL

(* The 404 of get and of the searches, when no query has failed, says that *)
(* nothing was there when the client began to ask, or, to MATCHING, that   *)
(* the rows there are belong to two posts.                                 *)
THEOREM NotFoundIsTrue == Spec => []NotFoundMeansAbsent
<1>1. IInv => NotFoundMeansAbsent
  <2> SUFFICES ASSUME IInv, reader.at = "done", reader.status = "Not Found"
               PROVE  NotFoundMeansAbsent
    BY DEF NotFoundMeansAbsent
  <2> DEFINE now == Matched(SearchedTable(Tables))
             before == Matched(SearchedTable(session.seen))
  <2>1. CASE request.handler = "get"
    BY <2>1 DEF NotFoundMeansAbsent, IInv, NotFoundOK, Searching
  <2>2. CASE request.handler # "get" /\ before = {}
    BY <2>2 DEF NotFoundMeansAbsent
  <2>3. CASE request.handler # "get" /\ before # {}
    <3>1. /\ request.filter_type = "MATCHING" /\ request.handler \in Searching
          /\ \E a, b \in now : a.post # b.post
      BY <2>3 DEF IInv, NotFoundOK
    <3>2. Cardinality({ row.post : row \in now }) # 1
      <4> DEFINE ids == { row.post : row \in now }
      <4>1. PICK a, b \in ids : a # b
        BY <3>1
      <4>2. IsFiniteSet(ids)
        BY <3>1, SearchedProps, PostsOfProps
      <4>3. Cardinality(ids) # 1
        <5> HIDE DEF ids
        <5> SUFFICES ASSUME Cardinality(ids) = 1 PROVE FALSE
          OBVIOUS
        <5>1. PICK x : ids = {x}
          BY <4>2, FS_Singleton
        <5> QED BY <4>1, <5>1
      <4> QED BY <4>3
    <3> HIDE DEF now
    <3> QED BY <2>3, <3>1, <3>2 DEF NotFoundMeansAbsent, now
  <2> QED BY <2>1, <2>2, <2>3
<1> QED BY <1>1, AnswersAreRight, PTL

-----------------------------------------------------------------------------
(* Nothing is missed between the pages.                                    *)

(* The requests whose pages a client may turn to the end.                  *)
Skimming ==
  /\ request.handler \in Paging
  /\ request.handler \in Searching => request.filter_type # "MATCHING"

(* The rows the pages are cut from, now, and the page about to be read.    *)
Pool == CASE request.handler = "list"           -> Posts
          [] request.handler = "listTags"       -> Tags
          [] request.handler = "listCategories" -> Categories
          [] OTHER -> { p \in Posts : \E row \in Matched(SearchedTable(Tables)) :
                                        row.post = p.post_id }

Offered == IF reader.at = "page" /\ request.handler \in Searching
           THEN WithIds(reader.ids) ELSE Pool

(* The place that a row has among the rows of a pool.                      *)
UpTo(x, pool) == { y \in pool : InOrder(y, x, request) }
PlaceIn(x, pool) == Cardinality(UpTo(x, pool))

(* What the page holds, completed or yet to be.                            *)
Chosen == { reader.todo[i] : i \in DOMAIN reader.todo } \cup
          { Identity(reader.answer[i]) : i \in DOMAIN reader.answer }

PageRead == \/ reader.at \in {"tags", "categories"}
            \/ reader.at = "done" /\ reader.status = "OK"

(* A row that the client has not read comes after the pages it has turned, *)
(* is on the page at hand, or comes after that one, which is then full.    *)
PagesOK ==
  Skimming /\ Distinct(Listed) =>
    \A x \in Due \ session.read :
      /\ reader.at \in Querying =>
           x \in Offered /\ PlaceIn(x, Offered) > (Page(request) - 1) * Limit(request)
      /\ PageRead => \/ x \in Chosen
                     \/ Chosen # {} /\ PlaceIn(x, Pool) > Page(request) * Limit(request)

NoMoreToDo == reader.at = "done" => reader.todo = <<>>

PInv == IInv /\ PagesOK /\ NoMoreToDo

(* No two rows are in order both ways when the keys differ.                *)
LEMMA KeyInt ==
  ASSUME IInv, request.handler \in Paging, NEW x \in Listed
  PROVE  Key(x, SortField(request)) \in Int
<1> DEFINE field == SortField(request)
<1>1. field \in Columns(request.handler)
  BY DEF SortField, Columns
<1>2. CASE field \in {"created", "updated"}
  <2>1. x.created \in Int
    BY RankAssumption DEF Listed, IInv, TablesOK, Sortable
  <2> QED BY <1>2, <2>1 DEF Key
<1>3. CASE field \notin {"created", "updated"}
  <2>1. rank[x[field]] \in Int
    <3>1. CASE request.handler = "listTags"
      <4>1. field \in {"tag_id", "name", "post"} /\ x \in TagRow
        BY <1>1, <1>3, <3>1 DEF Columns, Listed, IInv, TablesOK
      <4> HIDE DEF field
      <4> QED BY <4>1, RankAssumption DEF Sortable
    <3>2. CASE request.handler = "listCategories"
      <4>1. field \in {"category_id", "name", "post"} /\ x \in CategoryRow
        BY <1>1, <1>3, <3>2 DEF Columns, Listed, IInv, TablesOK
      <4> HIDE DEF field
      <4> QED BY <4>1, RankAssumption DEF Sortable
    <3>3. CASE request.handler \notin {"listTags", "listCategories"}
      <4>1. field \in {"post_id", "name", "body"} /\ x \in PostRow
        BY <1>1, <1>3, <3>3 DEF Columns, Listed, IInv, TablesOK
      <4> HIDE DEF field
      <4> QED BY <4>1, RankAssumption DEF Sortable
    <3> QED BY <3>1, <3>2, <3>3
  <2> QED BY <1>3, <2>1 DEF Key
<1> QED BY <1>2, <1>3

LEMMA InOrderProps ==
  ASSUME IInv, request.handler \in Paging, NEW x \in Listed
  PROVE  /\ InOrder(x, x, request)
         /\ Distinct(Listed) =>
              \A y \in Listed : InOrder(x, y, request) /\ InOrder(y, x, request) => x = y
<1>1. \A y \in Listed : Key(y, SortField(request)) \in Int
  BY KeyInt
<1>2. InOrder(x, x, request)
  BY <1>1 DEF InOrder
<1>3. ASSUME Distinct(Listed), NEW y \in Listed,
             InOrder(x, y, request), InOrder(y, x, request)
      PROVE  x = y
  <2>1. Key(x, SortField(request)) = Key(y, SortField(request))
    BY <1>1, <1>3 DEF InOrder
  <2> QED BY <1>3, <2>1 DEF Distinct
<1> QED BY <1>2, <1>3

(* A row's place in a pool is its place in the order of the rows.          *)
LEMMA PlaceProps ==
  ASSUME IInv, request.handler \in Paging, Distinct(Listed),
         NEW pool, IsFiniteSet(pool), pool \subseteq Listed,
         NEW s \in Ordered(pool, request), NEW i \in 1 .. Len(s)
  PROVE  PlaceIn(s[i], pool) = i
<1>1. /\ Len(s) \in Nat
      /\ \A j \in 1 .. Len(s) : s[j] \in pool
      /\ \A j, k \in 1 .. Len(s) : s[j] = s[k] => j = k
      /\ \A j, k \in 1 .. Len(s) : j < k => InOrder(s[j], s[k], request)
      /\ \A row \in pool : \E j \in 1 .. Len(s) : s[j] = row
  BY OrderedProps
<1> DEFINE upto == UpTo(s[i], pool)
           f == [j \in 1 .. i |-> s[j]]
<1>2. i \in Nat /\ 1 .. i \subseteq 1 .. Len(s)
  BY <1>1
<1>3. \A j \in 1 .. i : s[j] \in upto
  <2> SUFFICES ASSUME NEW j \in 1 .. i PROVE InOrder(s[j], s[i], request) /\ s[j] \in pool
    BY DEF UpTo
  <2>1. s[j] \in pool /\ s[i] \in Listed
    BY <1>1, <1>2
  <2>2. j = i \/ j < i
    BY <1>2
  <2> QED BY <1>1, <1>2, <2>1, <2>2, InOrderProps
<1>4. \A y \in upto : \E j \in 1 .. i : s[j] = y
  <2> SUFFICES ASSUME NEW y \in upto PROVE \E j \in 1 .. i : s[j] = y
    OBVIOUS
  <2>1. y \in pool /\ InOrder(y, s[i], request)
    BY DEF UpTo
  <2>2. PICK j \in 1 .. Len(s) : s[j] = y
    BY <1>1, <2>1
  <2>3. CASE j <= i
    BY <1>2, <2>2, <2>3
  <2>4. CASE i < j
    <3>1. InOrder(s[i], y, request) /\ s[i] \in Listed /\ y \in Listed
      BY <1>1, <2>1, <2>2, <2>4
    <3>2. s[i] = y
      BY <2>1, <3>1, InOrderProps
    <3>3. i = j
      BY <1>1, <2>2, <3>2
    <3> QED BY <1>2, <2>4, <3>3
  <2> QED BY <1>2, <2>2, <2>3, <2>4
<1>5. f \in Bijection(1 .. i, upto)
  <2> HIDE DEF upto
  <2>1. f \in [1 .. i -> upto]
    BY <1>3
  <2>2. \A j, k \in 1 .. i : f[j] = f[k] => j = k
    BY <1>1, <1>2
  <2>3. f \in Injection(1 .. i, upto)
    BY <2>1, <2>2 DEF Injection, IsInjective
  <2>4. f \in Surjection(1 .. i, upto)
    BY <1>4, <2>1 DEF Surjection
  <2> QED BY <2>3, <2>4 DEF Bijection
<1>6. Cardinality(1 .. i) = i /\ IsFiniteSet(1 .. i)
  BY <1>2, FS_Interval
<1>7. Cardinality(upto) = Cardinality(1 .. i)
  <2>1. ExistsBijection(1 .. i, upto)
    BY <1>5 DEF ExistsBijection
  <2> HIDE DEF upto, f
  <2> QED BY <1>6, <2>1, FS_Bijection
<1> QED BY <1>6, <1>7 DEF PlaceIn

LEMMA PlaceGrows ==
  ASSUME NEW pool, NEW more, pool \subseteq more, IsFiniteSet(more), NEW x
  PROVE  /\ PlaceIn(x, pool) \in Nat /\ PlaceIn(x, more) \in Nat
         /\ PlaceIn(x, pool) <= PlaceIn(x, more)
<1>1. UpTo(x, pool) \subseteq UpTo(x, more) /\ UpTo(x, more) \subseteq more
  BY DEF UpTo
<1>2. IsFiniteSet(UpTo(x, more))
  BY <1>1, FS_Subset
<1>3. /\ IsFiniteSet(UpTo(x, pool))
      /\ Cardinality(UpTo(x, pool)) <= Cardinality(UpTo(x, more))
  BY <1>1, <1>2, FS_Subset
<1> QED BY <1>2, <1>3, FS_CardinalityType DEF PlaceIn

(* The page of a row that comes after the pages before.                    *)
LEMMA OnThePageOrLater ==
  ASSUME IInv, request.handler \in Paging, Distinct(Listed),
         NEW pool, IsFiniteSet(pool), pool \subseteq Listed,
         NEW s \in Pages(pool, request), NEW x \in pool,
         PlaceIn(x, pool) > (Page(request) - 1) * Limit(request)
  PROVE  \/ \E j \in DOMAIN s : s[j] = x
         \/ s # <<>> /\ PlaceIn(x, pool) > Page(request) * Limit(request)
<1> DEFINE page == Page(request)
           limit == Limit(request)
<1>1. PICK t \in Ordered(pool, request) : s = paginate(t, page, limit)
  BY DEF Pages
<1>2. page \in Nat \ {0} /\ limit \in Nat \ {0}
  BY PageAndLimit DEF IInv
<1> HIDE DEF page, limit
<1>3. /\ t \in Seq(pool) /\ Len(t) \in Nat
      /\ \E i \in 1 .. Len(t) : t[i] = x
  BY <1>1, OrderedProps
<1>4. PICK i \in 1 .. Len(t) : t[i] = x
  BY <1>3
<1>5. PlaceIn(x, pool) = i
  BY <1>1, <1>4, PlaceProps
<1>6. /\ (page - 1) * limit \in Nat /\ page * limit = (page - 1) * limit + limit
      /\ \A k \in 1 .. Len(t) : (page - 1) * limit < k /\ k <= page * limit =>
           \E j \in DOMAIN s : s[j] = t[k]
  <2>1. /\ (page - 1) * limit \in Nat /\ page * limit = (page - 1) * limit + limit
        /\ \A k \in 1 .. Len(t) : (page - 1) * limit < k /\ k <= page * limit =>
             \E j \in DOMAIN paginate(t, page, limit) : paginate(t, page, limit)[j] = t[k]
    <3>1. t \in Seq(pool)
      BY <1>3
    <3> QED BY <1>2, <3>1, PaginateProps
  <2> QED BY <1>1, <2>1
<1>7. (page - 1) * limit < i
  BY <1>5, <1>6 DEF page, limit
<1>8. CASE i <= page * limit
  BY <1>4, <1>6, <1>7, <1>8
<1>9. CASE page * limit < i
  <2> DEFINE m == (page - 1) * limit
  <2>1. m \in Nat /\ page * limit = m + limit
    BY <1>6
  <2> HIDE DEF m
  <2>2. m + 1 \in 1 .. Len(t) /\ m < m + 1 /\ m + 1 <= page * limit
    BY <1>2, <1>3, <1>9, <2>1
  <2>3. PICK j \in DOMAIN s : TRUE
    BY <1>6, <2>2 DEF m
  <2>4. s # <<>>
    BY <2>3, Nothing
  <2> QED BY <1>5, <1>9, <2>4 DEF page, limit
<1>10. i \in Nat /\ page * limit \in Nat
  BY <1>2, <1>6
<1> QED BY <1>8, <1>9, <1>10

(* What a page is cut from.                                                *)
LEMMA OfferedProps ==
  ASSUME IInv, request.handler \in Paging
  PROVE  /\ Pool \subseteq Listed /\ IsFiniteSet(Pool)
         /\ Offered \subseteq Pool /\ IsFiniteSet(Offered) /\ Due \subseteq Pool
<1>1. Pool \subseteq Listed /\ IsFiniteSet(Listed)
  BY DEF Pool, Listed, IInv, TablesOK
<1>2. IsFiniteSet(Pool)
  BY <1>1, FS_Subset
<1>3. Offered \subseteq Pool
  <2>1. CASE reader.at = "page" /\ request.handler \in Searching
    <3>1. \A id \in reader.ids : \E row \in Matched(SearchedTable(Tables)) : row.post = id
      BY <2>1 DEF IInv, IdsOK
    <3>2. Pool = { p \in Posts : \E row \in Matched(SearchedTable(Tables)) :
                                   row.post = p.post_id }
      BY <2>1 DEF Pool, Searching
    <3> QED BY <2>1, <3>1, <3>2 DEF Offered, WithIds
  <2>2. CASE ~(reader.at = "page" /\ request.handler \in Searching)
    BY <2>2 DEF Offered
  <2> QED BY <2>1, <2>2
<1>4. IsFiniteSet(Offered)
  BY <1>2, <1>3, FS_Subset
<1>5. Due \subseteq Pool
  <2>1. CASE request.handler \in Searching
    <3>1. /\ Due = { p \in session.seen.posts :
                       \E row \in Matched(SearchedTable(session.seen)) :
                         row.post = p.post_id }
          /\ Pool = { p \in Posts : \E row \in Matched(SearchedTable(Tables)) :
                                      row.post = p.post_id }
      BY <2>1 DEF Due, Pool, Searching
    <3>2. Matched(SearchedTable(session.seen)) \subseteq Matched(SearchedTable(Tables))
      BY <2>1, SearchedProps
    <3> QED BY <3>1, <3>2 DEF IInv, SeenOK
  <2>2. CASE request.handler \in {"list", "listTags", "listCategories"}
    BY <2>2 DEF Due, Pool, IInv, SeenOK
  <2> QED BY <2>1, <2>2 DEF Paging
<1> QED BY <1>1, <1>2, <1>3, <1>4, <1>5

LEMMA PoolsAreFinite ==
  IInv /\ request.handler \in Paging => IsFiniteSet(Pool) /\ IsFiniteSet(Offered)
BY OfferedProps

(* A step within a request: the page stays what it is, and the tables can  *)
(* only grow.                                                              *)
LEMMA Keep ==
  ASSUME PInv, IInv', UNCHANGED <<request, session>>,
         Posts \subseteq Posts', Tags \subseteq Tags', Categories \subseteq Categories',
         reader'.at \in Querying => reader.at \in Querying /\ Offered \subseteq Offered',
         PageRead' => PageRead /\ Chosen \subseteq Chosen'
  PROVE  PagesOK'
<1> SUFFICES ASSUME Skimming', Distinct(Listed)', NEW x \in Due' \ session'.read
             PROVE  /\ reader'.at \in Querying =>
                         /\ x \in Offered'
                         /\ PlaceIn(x, Offered)' > (Page(request') - 1) * Limit(request')
                    /\ PageRead' =>
                         \/ x \in Chosen'
                         \/ /\ Chosen' # {}
                            /\ PlaceIn(x, Pool)' > Page(request') * Limit(request')
  BY DEF PagesOK
<1>1. request' = request /\ session' = session /\ request.handler \in Paging
  BY DEF Skimming
<1>2. Skimming
  BY <1>1 DEF Skimming
<1>3. Listed \subseteq Listed'
  BY <1>1 DEF Listed
<1>4. Distinct(Listed)
  BY <1>1, <1>3 DEF Distinct
<1>5. Due' = Due
  BY <1>1 DEF Due, Matched, SearchedTable
<1>6. x \in Due \ session.read
  BY <1>1, <1>5
<1>7. \A pool : PlaceIn(x, pool)' = PlaceIn(x, pool)
  BY <1>1 DEF PlaceIn, UpTo
<1>8. Pool \subseteq Pool'
  <2>1. Matched(SearchedTable(Tables)) \subseteq Matched(SearchedTable(Tables))'
    BY <1>1 DEF Matched, SearchedTable, Tables
  <2> QED BY <1>1, <2>1 DEF Pool
<1>9. IsFiniteSet(Pool)' /\ IsFiniteSet(Offered)'
  <2>1. (IInv /\ request.handler \in Paging => IsFiniteSet(Pool) /\ IsFiniteSet(Offered))'
    BY PoolsAreFinite, PTL
  <2> QED BY <1>1, <2>1
<1> DEFINE page == Page(request)
           limit == Limit(request)
<1>10. page \in Nat \ {0} /\ limit \in Nat \ {0}
  BY PageAndLimit DEF PInv, IInv
<1>11. /\ reader.at \in Querying =>
            x \in Offered /\ PlaceIn(x, Offered) > (page - 1) * limit
       /\ PageRead => \/ x \in Chosen
                      \/ Chosen # {} /\ PlaceIn(x, Pool) > page * limit
  BY <1>2, <1>4, <1>6 DEF PInv, PagesOK
<1>12. (page - 1) * limit \in Int /\ page * limit \in Int
  <2> HIDE DEF page, limit
  <2>1. page - 1 \in Int /\ \A a, b \in Int : a * b \in Int
    BY <1>10
  <2> QED BY <1>10, <2>1
<1>13. /\ PlaceIn(x, Pool)' = PlaceIn(x, Pool')
       /\ PlaceIn(x, Offered)' = PlaceIn(x, Offered')
  BY <1>1 DEF PlaceIn, UpTo
<1>14. Page(request') = page /\ Limit(request') = limit
  BY <1>1
<1>15. ASSUME reader'.at \in Querying
       PROVE  x \in Offered' /\ PlaceIn(x, Offered)' > (page - 1) * limit
  <2>1. /\ Offered \subseteq Offered' /\ x \in Offered
        /\ PlaceIn(x, Offered) > (page - 1) * limit
    BY <1>11, <1>15
  <2>2. /\ PlaceIn(x, Offered) \in Nat /\ PlaceIn(x, Offered') \in Nat
        /\ PlaceIn(x, Offered) <= PlaceIn(x, Offered')
    BY <1>9, <2>1, PlaceGrows
  <2> HIDE DEF page, limit
  <2> QED BY <1>12, <1>13, <2>1, <2>2
<1>16. ASSUME PageRead'
       PROVE  \/ x \in Chosen'
              \/ Chosen' # {} /\ PlaceIn(x, Pool)' > page * limit
  <2>1. Chosen \subseteq Chosen' /\ PageRead
    BY <1>16
  <2>2. /\ PlaceIn(x, Pool) \in Nat /\ PlaceIn(x, Pool') \in Nat
        /\ PlaceIn(x, Pool) <= PlaceIn(x, Pool')
    BY <1>8, <1>9, PlaceGrows
  <2> HIDE DEF page, limit
  <2>3. PlaceIn(x, Pool) > page * limit => PlaceIn(x, Pool)' > page * limit
    BY <1>12, <1>13, <2>2
  <2> QED BY <1>11, <2>1, <2>3
<1> QED BY <1>14, <1>15, <1>16

(* The query of a page: what it finds is what the page holds.              *)
LEMMA PageQuery ==
  ASSUME PInv, Still, reader.at \in Querying, reader'.at \notin Querying,
         NEW s \in Pages(Offered, request),
         Skimming => Chosen' = { s[i] : i \in DOMAIN s }
  PROVE  PagesOK'
<1> SUFFICES ASSUME Skimming', Distinct(Listed)', NEW x \in Due' \ session'.read
             PROVE  \/ x \in Chosen'
                    \/ /\ Chosen' # {}
                       /\ PlaceIn(x, Pool)' > Page(request') * Limit(request')
  BY DEF PagesOK
<1>1. UNCHANGED <<Posts, Tags, Categories, request, session>>
  BY DEF Still, tables
<1>2. Skimming /\ Distinct(Listed) /\ x \in Due \ session.read
  BY <1>1 DEF Skimming, Listed, Distinct, Due, Matched, SearchedTable
<1>3. request.handler \in Paging /\ IInv
  BY <1>2 DEF Skimming, PInv
<1>4. x \in Offered /\ PlaceIn(x, Offered) > (Page(request) - 1) * Limit(request)
  BY <1>2 DEF PInv, PagesOK
<1>5. /\ Offered \subseteq Listed /\ IsFiniteSet(Offered)
      /\ Offered \subseteq Pool /\ IsFiniteSet(Pool)
  BY <1>3, OfferedProps
<1>6. \/ \E j \in DOMAIN s : s[j] = x
      \/ s # <<>> /\ PlaceIn(x, Offered) > Page(request) * Limit(request)
  BY <1>2, <1>3, <1>4, <1>5, OnThePageOrLater
<1>7. Chosen' = { s[i] : i \in DOMAIN s }
  BY <1>2
<1>8. CASE \E j \in DOMAIN s : s[j] = x
  BY <1>7, <1>8
<1>9. CASE s # <<>> /\ PlaceIn(x, Offered) > Page(request) * Limit(request)
  <2>1. s \in Seq(Offered)
    BY <1>3, <1>5, PagesProps DEF IInv
  <2>2. Chosen' # {}
    BY <1>7, <1>9, <2>1, HeadTail
  <2>3. PlaceIn(x, Pool)' = PlaceIn(x, Pool)
    BY <1>1 DEF PlaceIn, UpTo, Pool, Matched, SearchedTable, Tables
  <2>4. /\ PlaceIn(x, Offered) \in Nat /\ PlaceIn(x, Pool) \in Nat
        /\ PlaceIn(x, Offered) <= PlaceIn(x, Pool)
    BY <1>5, PlaceGrows
  <2>5. Page(request) * Limit(request) \in Int
    <3>1. Page(request) \in Int /\ Limit(request) \in Int
      BY <1>3, PageAndLimit DEF IInv
    <3>2. \A a, b \in Int : a * b \in Int
      OBVIOUS
    <3> QED BY <3>1, <3>2
  <2>6. \A a, b, c \in Int : a > c /\ a <= b => b > c
    OBVIOUS
  <2>7. PlaceIn(x, Pool) > Page(request) * Limit(request)
    BY <1>9, <2>4, <2>5, <2>6
  <2> QED BY <1>1, <2>2, <2>3, <2>7
<1> QED BY <1>6, <1>8, <1>9

LEMMA FindPages ==
  ASSUME PInv, FindPage \/ FindMatchedPage
  PROVE  PagesOK' /\ NoMoreToDo'
<1>1. PICK s \in Pages(Offered, request) : Attach(s)
  BY DEF FindPage, FindMatchedPage, Offered, Pool, PInv, IInv, PlaceOK, Searching
<1>2. /\ Still /\ reader.at = "page" /\ reader.at \in Querying /\ IInv
      /\ request.handler \in {"list"} \cup Searching
  BY DEF FindPage, FindMatchedPage, Querying, PInv, IInv, PlaceOK
<1>3. reader.todo = <<>> /\ reader.answer = <<>>
  BY <1>2 DEF IInv, PlaceOK
<1>4. \/ reader' = [reader EXCEPT !.at = "done", !.status = "OK"] /\ s = <<>>
      \/ reader' = [reader EXCEPT !.at = "tags", !.todo = s] /\ s # <<>>
  BY <1>1 DEF Attach, Reply
<1>5. /\ reader'.todo = s /\ reader'.answer = <<>> /\ reader'.at \in {"done", "tags"}
      /\ reader'.at = "done" => s = <<>>
  BY <1>2, <1>3, <1>4 DEF IInv, ReaderOK
<1>6. Chosen' = { s[i] : i \in DOMAIN s }
  <2>1. DOMAIN reader'.answer = {}
    BY <1>5, Nothing
  <2>2. { Identity(reader.answer[i]) : i \in DOMAIN reader.answer }' = {}
    BY <2>1
  <2> QED BY <1>5, <2>2 DEF Chosen
<1>7. NoMoreToDo'
  BY <1>5 DEF NoMoreToDo
<1>8. reader'.at \notin Querying
  BY <1>5 DEF Querying
<1> QED BY <1>1, <1>2, <1>6, <1>7, <1>8, PageQuery

LEMMA ListPages ==
  ASSUME PInv, ListTags \/ ListCategories
  PROVE  PagesOK' /\ NoMoreToDo'
<1>1. PICK s \in Pages(Offered, request) : ListRows(s)
  BY DEF ListTags, ListCategories, Offered, Pool
<1>2. /\ Still /\ reader.at = "rows" /\ reader.at \in Querying /\ IInv
      /\ request.handler \in {"listTags", "listCategories"}
  BY DEF ListTags, ListCategories, Querying, PInv
<1>3. reader.todo = <<>>
  BY <1>2 DEF IInv, PlaceOK
<1>4. reader'.todo = <<>> /\ reader'.answer = s /\ reader'.at = "done"
  BY <1>1, <1>3 DEF ListRows, IInv, PInv, ReaderOK
<1>5. Chosen' = { s[i] : i \in DOMAIN s }
  <2>1. DOMAIN reader'.todo = {}
    BY <1>4, Nothing
  <2>2. { Identity(reader.answer[i]) : i \in DOMAIN reader.answer }'
          = { s[i] : i \in DOMAIN s }
    BY <1>2, <1>4 DEF Identity, Still
  <2> QED BY <2>1, <2>2 DEF Chosen
<1>6. NoMoreToDo'
  BY <1>4 DEF NoMoreToDo
<1>7. reader'.at \notin Querying
  BY <1>4 DEF Querying
<1> QED BY <1>1, <1>2, <1>5, <1>6, <1>7, PageQuery

(* The client begins, and turns a page.                                    *)
FromTheFirstPage == \A r \in Request : r.page <= 1

LEMMA Begun ==
  ASSUME IInv, reader.at \in Querying, reader.todo = <<>>, Page(request) = 1,
         reader = Entering(request), session = [seen |-> Tables, read |-> {}]
  PROVE  PagesOK /\ NoMoreToDo
<1>1. ~PageRead /\ NoMoreToDo
  BY DEF PageRead, Querying, NoMoreToDo
<1>2. ASSUME Skimming, NEW x \in Due
      PROVE  x \in Offered /\ PlaceIn(x, Offered) > (Page(request) - 1) * Limit(request)
  <2>1. request.handler \in Paging
    BY <1>2 DEF Skimming
  <2>2. x \in Pool /\ Pool \subseteq Listed /\ IsFiniteSet(Pool)
    BY <1>2, <2>1, OfferedProps
  <2>3. Offered = Pool
    BY <2>1 DEF Offered, Entering, FirstQuery, Searching, Paging
  <2>4. x \in UpTo(x, Pool)
    BY <2>1, <2>2, InOrderProps DEF UpTo
  <2>5. IsFiniteSet(UpTo(x, Pool))
    <3>1. UpTo(x, Pool) \subseteq Pool
      BY DEF UpTo
    <3> QED BY <2>2, <3>1, FS_Subset
  <2>6. PlaceIn(x, Pool) \in Nat /\ PlaceIn(x, Pool) # 0
    BY <2>4, <2>5, FS_CardinalityType, FS_EmptySet DEF PlaceIn
  <2>7. (Page(request) - 1) * Limit(request) = 0
    <3>1. Limit(request) \in Int
      BY PageAndLimit DEF IInv
    <3>2. \A b \in Int : (1 - 1) * b = 0
      OBVIOUS
    <3> QED BY <3>1, <3>2
  <2> QED BY <2>2, <2>3, <2>6, <2>7
<1> QED BY <1>1, <1>2 DEF PagesOK

LEMMA Turned ==
  ASSUME PInv, IInv', TurnPage
  PROVE  PagesOK' /\ NoMoreToDo'
<1>1. /\ reader.at = "done" /\ reader.status = "OK" /\ reader.answer # <<>>
      /\ reader' = Entering(request) /\ session'.seen = session.seen
      /\ session'.read = session.read \cup
           { Identity(reader.answer[i]) : i \in DOMAIN reader.answer }
      /\ request' = [request EXCEPT !.page = request.page + 1]
      /\ UNCHANGED <<Posts, Tags, Categories>> /\ IInv
  BY DEF TurnPage, tables, PInv, IInv, SeenOK
<1>2. /\ request'.handler = request.handler /\ request'.arg = request.arg
      /\ request'.filter_type = request.filter_type /\ request'.sort_by = request.sort_by
      /\ request'.sort_order = request.sort_order /\ request'.limit = request.limit
      /\ request'.page = request.page + 1
  BY <1>1 DEF IInv, RequestOK, RequestFields
<1>3. NoMoreToDo' /\ ~PageRead'
  BY <1>1 DEF NoMoreToDo, Entering, PageRead, FirstQuery, IInv, RequestOK, Handler
<1>4. ASSUME Skimming', Distinct(Listed)', NEW x \in Due' \ session'.read
      PROVE  /\ x \in Offered'
             /\ PlaceIn(x, Offered)' > (Page(request') - 1) * Limit(request')
  <2>1. SortField(request') = SortField(request)
    BY <1>2 DEF SortField
  <2>2. Skimming /\ Distinct(Listed) /\ x \in Due
    BY <1>1, <1>2, <1>4, <2>1
       DEF Skimming, Listed, Distinct, Due, Matched, SearchedTable, Searching
  <2>3. x \notin session.read
    BY <1>1, <1>4
  <2>4. x \notin Chosen
    <3>1. DOMAIN reader.todo = {}
      BY <1>1, Nothing DEF PInv, NoMoreToDo
    <3> QED BY <1>1, <1>4, <3>1 DEF Chosen
  <2>5. PlaceIn(x, Pool) > Page(request) * Limit(request)
    BY <1>1, <2>2, <2>3, <2>4 DEF PInv, PagesOK, PageRead
  <2>6. request.handler \in Paging
    BY <2>2 DEF Skimming
  <2>7. x \in Pool /\ Pool' = Pool /\ Offered' = Pool'
    <3>1. x \in Pool
      BY <1>1, <2>2, <2>6, OfferedProps
    <3>2. Pool' = Pool
      BY <1>1, <1>2 DEF Pool, Matched, SearchedTable, Tables
    <3>3. reader'.at = "page" => request'.handler \notin Searching
      BY <1>1, <1>2, <2>6 DEF Entering, FirstQuery, Paging, Searching
    <3> QED BY <3>1, <3>2, <3>3 DEF Offered
  <2>8. PlaceIn(x, Offered)' = PlaceIn(x, Pool)
    <3>1. \A y : InOrder(y, x, request') <=> InOrder(y, x, request)
      BY <1>2, <2>1 DEF InOrder
    <3> QED BY <2>7, <3>1 DEF PlaceIn, UpTo
  <2>9. (Page(request') - 1) * Limit(request') <= Page(request) * Limit(request)
    <3>1. /\ Limit(request') = Limit(request)
          /\ Page(request') - 1 \in Nat /\ Page(request') - 1 <= Page(request)
          /\ Page(request) \in Nat /\ Limit(request) \in Nat
      BY <1>1, <1>2 DEF Limit, Page, IInv, RequestOK
    <3>2. \A a, b, c \in Nat : a <= b => a * c <= b * c
      OBVIOUS
    <3> QED BY <3>1, <3>2
  <2>10. /\ (Page(request') - 1) * Limit(request') \in Int
         /\ Page(request) * Limit(request) \in Int /\ PlaceIn(x, Pool) \in Int
    <3>1. /\ Page(request') - 1 \in Int /\ Limit(request') \in Int
          /\ Page(request) \in Int /\ Limit(request) \in Int
      BY <1>1, <1>2 DEF Limit, Page, IInv, RequestOK
    <3>2. \A a, b \in Int : a * b \in Int
      OBVIOUS
    <3>3. PlaceIn(x, Pool) \in Nat
      BY <1>1, <2>6, OfferedProps, PlaceGrows
    <3> QED BY <3>1, <3>2, <3>3
  <2>11. \A a, b, c \in Int : a > b /\ c <= b => a > c
    OBVIOUS
  <2> QED BY <2>5, <2>7, <2>8, <2>9, <2>10, <2>11
<1> QED BY <1>3, <1>4 DEF PagesOK

Beginning == /\ reader = Entering(request) /\ session = [seen |-> Tables, read |-> {}]
             /\ request \in Request

LEMMA BegunAtOnce ==
  ASSUME FromTheFirstPage, IInv, Beginning PROVE PagesOK /\ NoMoreToDo
<1>1. Page(request) = 1
  BY RequestAssumption DEF FromTheFirstPage, Beginning, Page
<1>2. reader.at \in Querying /\ reader.todo = <<>>
  BY RequestAssumption DEF Beginning, Entering, FirstQuery, Querying, Handler
<1> QED BY <1>1, <1>2, Begun DEF Beginning

LEMMA BegunByAsking ==
  FromTheFirstPage /\ IInv' /\ Beginning' => PagesOK' /\ NoMoreToDo'
<1>1. FromTheFirstPage /\ IInv /\ Beginning => PagesOK /\ NoMoreToDo
  BY BegunAtOnce
<1>2. (FromTheFirstPage /\ IInv /\ Beginning => PagesOK /\ NoMoreToDo)'
  BY <1>1, PTL
<1> QED BY <1>2 DEF FromTheFirstPage

LEMMA InitPInv == FromTheFirstPage /\ Init => PInv
BY InitInv, BegunAtOnce DEF PInv, Beginning, Init

(* The steps that neither read a page nor turn one.                        *)
LEMMA WithinThePage ==
  ASSUME PInv, IInv',
         \/ UNCHANGED vars \/ Write \/ QueryFails \/ MatchTags \/ MatchCategories
         \/ FindPost \/ ListTitles
  PROVE  PagesOK' /\ NoMoreToDo'
<1>0. IInv /\ NoMoreToDo
  BY DEF PInv
<1>1. CASE UNCHANGED vars \/ Write
  <2>1. /\ UNCHANGED <<request, session, reader>>
        /\ Posts \subseteq Posts' /\ Tags \subseteq Tags' /\ Categories \subseteq Categories'
    BY <1>1 DEF vars, Write, Ledger!Publish, Ledger!Tag, Ledger!Categorise
  <2>2. NoMoreToDo'
    BY <1>0, <2>1 DEF NoMoreToDo
  <2>3. Offered \subseteq Offered'
    <3>1. Matched(SearchedTable(Tables)) \subseteq Matched(SearchedTable(Tables))'
      BY <2>1 DEF Matched, SearchedTable, Tables
    <3> QED BY <2>1, <3>1 DEF Offered, Pool, WithIds
  <2>4. PageRead' = PageRead /\ Chosen' = Chosen
    BY <2>1 DEF PageRead, Chosen, Identity
  <2> QED BY <2>1, <2>2, <2>3, <2>4, Keep
<1>2. CASE QueryFails
  <2>1. /\ UNCHANGED <<Posts, Tags, Categories, request, session>>
        /\ reader'.at = "done" /\ reader'.status = "failed" /\ reader'.todo = reader.todo
        /\ reader.at \in Querying
    BY <1>0, <1>2 DEF QueryFails, Reply, Still, tables, IInv, ReaderOK, Querying
  <2>2. NoMoreToDo' /\ reader'.at \notin Querying /\ ~PageRead'
    BY <1>0, <2>1 DEF NoMoreToDo, IInv, PlaceOK, PageRead, Querying
  <2> QED BY <2>1, <2>2, Keep
<1>3. CASE FindPost \/ ListTitles
  <2>1. /\ UNCHANGED <<request, session>> /\ request.handler \in {"get", "listTitles"}
        /\ reader.todo = <<>>
        /\ reader'.at = "done" => reader'.todo = reader.todo
    BY <1>0, <1>3 DEF FindPost, ListTitles, Still, Attach, Reply, ListRows, IInv, PlaceOK,
       ReaderOK, Querying
  <2>2. ~Skimming'
    BY <2>1 DEF Skimming, Paging, Searching
  <2> QED BY <2>1, <2>2 DEF PagesOK, NoMoreToDo
<1>4. CASE MatchTags \/ MatchCategories
  <2> DEFINE ids == Filtered(Matched(SearchedTable(Tables)))
  <2>1. /\ UNCHANGED <<Posts, Tags, Categories, request, session>>
        /\ reader.at = "match" /\ request.handler \in Searching /\ reader.todo = <<>>
        /\ IF ids = {} THEN Reply("Not Found")
           ELSE reader' = [reader EXCEPT !.at = "page", !.ids = ids]
    BY <1>0, <1>4 DEF MatchTags, MatchCategories, MatchIn, Still, tables, Searching,
       SearchedTable, Tables, IInv, PlaceOK, Querying
  <2>2. CASE ids = {}
    <3>1. reader'.at = "done" /\ reader'.status = "Not Found" /\ reader'.todo = reader.todo
      BY <1>0, <2>1, <2>2 DEF Reply, IInv, ReaderOK
    <3>2. NoMoreToDo' /\ reader'.at \notin Querying /\ ~PageRead'
      BY <2>1, <3>1 DEF NoMoreToDo, PageRead, Querying
    <3> QED BY <2>1, <3>2, Keep
  <2>3. CASE ids # {}
    <3>1. reader'.at = "page" /\ reader'.ids = ids
      <4> HIDE DEF ids
      <4> QED BY <1>0, <2>1, <2>3 DEF IInv, ReaderOK
    <3>2. NoMoreToDo' /\ ~PageRead'
      BY <3>1 DEF NoMoreToDo, PageRead
    <3>3. CASE request.filter_type = "MATCHING"
      BY <2>1, <3>2, <3>3 DEF PagesOK, Skimming
    <3>4. CASE request.filter_type # "MATCHING"
      <4>1. ids = { row.post : row \in Matched(SearchedTable(Tables)) }
        BY <3>4 DEF Filtered
      <4>2. Offered = { p \in Posts : p.post_id \in ids }
        BY <2>1, <4>1 DEF Offered, Pool, Searching
      <4>3. Offered' = { p \in Posts : p.post_id \in ids }
        <5> HIDE DEF ids
        <5> QED BY <2>1, <3>1 DEF Offered, WithIds
      <4>4. Offered \subseteq Offered' /\ reader.at \in Querying
        BY <2>1, <4>2, <4>3 DEF Querying
      <4> QED BY <2>1, <3>2, <4>4, Keep
    <3> QED BY <3>3, <3>4
  <2> QED BY <2>2, <2>3
<1> QED BY <1>1, <1>2, <1>3, <1>4

(* The posts of the page are completed, and remain the page's.             *)
LEMMA Completed ==
  ASSUME PInv, IInv', AttachTags \/ AttachCategories
  PROVE  PagesOK' /\ NoMoreToDo'
<1>1. /\ UNCHANGED <<Posts, Tags, Categories, request, session>> /\ IInv
      /\ reader.at \in {"tags", "categories"} /\ request.handler \in Completing
  BY DEF AttachTags, AttachCategories, Still, tables, PInv, IInv, PlaceOK
<1>2. /\ reader.todo \in Seq(PostRow) /\ reader.todo # <<>> /\ reader.answer \in Seq(Entry)
      /\ \A item : Identity(item) = item.post
  BY <1>1 DEF IInv, ReaderOK, PlaceOK, Answers, Completing, Identity
<1>3. \A item : Identity(item)' = Identity(item)
  BY <1>1 DEF Identity
<1>4. CASE AttachTags
  <2> DEFINE e(found) == [post |-> Current, tags |-> found, categories |-> {}]
  <2>1. PICK found : /\ reader'.at = "categories" /\ reader'.todo = reader.todo
                     /\ reader'.answer = Append(reader.answer, e(found))
    BY <1>1, <1>4 DEF AttachTags, IInv, ReaderOK
  <2>2. \A i \in DOMAIN reader.answer :
          i \in DOMAIN reader'.answer /\ reader'.answer[i] = reader.answer[i]
    <3>1. DOMAIN reader.answer = 1 .. Len(reader.answer) /\ Len(reader.answer) \in Nat
      BY <1>2, Items
    <3> HIDE DEF e
    <3> QED BY <1>2, <2>1, <3>1
  <2>3. Chosen \subseteq Chosen'
    BY <1>1, <2>1, <2>2 DEF Chosen, Identity
  <2>4. NoMoreToDo' /\ reader'.at \notin Querying /\ PageRead
    BY <1>1, <2>1 DEF NoMoreToDo, Querying, PageRead
  <2> QED BY <1>1, <2>3, <2>4, Keep
<1>5. CASE AttachCategories
  <2> DEFINE n == Len(reader.answer)
  <2>1. PICK found : /\ reader'.at = IF Len(reader.todo) = 1 THEN "done" ELSE "tags"
                     /\ reader'.todo = Tail(reader.todo)
                     /\ reader'.answer = [reader.answer EXCEPT ![n].categories = found]
    BY <1>1, <1>5 DEF AttachCategories, IInv, ReaderOK
  <2>2. /\ n \in DOMAIN reader.answer /\ DOMAIN reader'.answer = DOMAIN reader.answer
        /\ reader.answer[n].post = Current
    <3>1. reader.answer # <<>> /\ reader.answer[n].post = Current
      BY <1>1, <1>5 DEF AttachCategories, IInv, PlaceOK, AnswerOK
    <3>2. n \in DOMAIN reader.answer
      BY <1>2, <3>1, HeadTail
    <3> QED BY <2>1, <3>1, <3>2
  <2>3. \A i \in DOMAIN reader.answer : reader'.answer[i].post = reader.answer[i].post
    <3>1. \A i \in DOMAIN reader.answer : reader.answer[i] \in Entry
      BY <1>2, Items
    <3> HIDE DEF n
    <3> QED BY <2>1, <2>2, <3>1 DEF Entry
  <2>4. /\ Current = reader.todo[1] /\ Len(reader.todo) \in Nat \ {0}
        /\ DOMAIN reader.todo = 1 .. Len(reader.todo)
        /\ DOMAIN Tail(reader.todo) = 1 .. (Len(reader.todo) - 1)
        /\ \A i \in DOMAIN Tail(reader.todo) : Tail(reader.todo)[i] = reader.todo[i + 1]
    BY <1>2, HeadTail, HeadTailProperties, LenProperties DEF Current
  <2>5. \A i \in DOMAIN reader.todo :
          \/ reader.todo[i] = Current
          \/ \E j \in DOMAIN reader'.todo : reader'.todo[j] = reader.todo[i]
    <3> SUFFICES ASSUME NEW i \in DOMAIN reader.todo, i # 1
                 PROVE  \E j \in DOMAIN reader'.todo : reader'.todo[j] = reader.todo[i]
      BY <2>4
    <3>1. i - 1 \in DOMAIN Tail(reader.todo) /\ (i - 1) + 1 = i
      BY <2>4
    <3>2. Tail(reader.todo)[i - 1] = reader.todo[i]
      BY <2>4, <3>1
    <3> QED BY <2>1, <3>1, <3>2
  <2>6. Chosen \subseteq Chosen'
    <3>1. Current \in Chosen'
      BY <1>1, <1>2, <1>3, <2>2, <2>3 DEF Chosen
    <3>2. \A i \in DOMAIN reader.answer : Identity(reader.answer[i]) \in Chosen'
      BY <1>1, <1>2, <1>3, <2>2, <2>3 DEF Chosen
    <3>3. \A i \in DOMAIN reader.todo : reader.todo[i] \in Chosen'
      BY <2>5, <3>1 DEF Chosen
    <3> QED BY <3>2, <3>3 DEF Chosen
  <2>7. NoMoreToDo'
    <3> SUFFICES ASSUME Len(reader.todo) = 1 PROVE Tail(reader.todo) = <<>>
      BY <2>1 DEF NoMoreToDo
    <3>1. Tail(reader.todo) \in Seq(PostRow) /\ Len(Tail(reader.todo)) = 0
      BY <1>2, HeadTailProperties
    <3> QED BY <3>1, EmptySeq
  <2>8. reader'.at \notin Querying /\ PageRead
    BY <1>1, <2>1 DEF Querying, PageRead
  <2> QED BY <1>1, <2>6, <2>7, <2>8, Keep
<1> QED BY <1>4, <1>5

LEMMA NextPInv == FromTheFirstPage /\ PInv /\ [Next]_vars => PInv'
<1> SUFFICES ASSUME FromTheFirstPage, PInv, [Next]_vars PROVE PInv'
  OBVIOUS
<1>1. IInv'
  BY NextInv DEF PInv
<1>2. CASE Ask
  <2>1. Beginning'
    BY <1>2 DEF Ask, Beginning, tables, Tables
  <2> QED BY <1>1, <2>1, BegunByAsking DEF PInv
<1>3. CASE TurnPage
  BY <1>1, <1>3, Turned DEF PInv
<1>4. CASE FindPage \/ FindMatchedPage
  BY <1>1, <1>4, FindPages DEF PInv
<1>5. CASE ListTags \/ ListCategories
  BY <1>1, <1>5, ListPages DEF PInv
<1>6. CASE AttachTags \/ AttachCategories
  BY <1>1, <1>6, Completed DEF PInv
<1>7. CASE \/ UNCHANGED vars \/ Write \/ QueryFails \/ MatchTags \/ MatchCategories
           \/ FindPost \/ ListTitles
  BY <1>1, <1>7, WithinThePage DEF PInv
<1> QED BY <1>2, <1>3, <1>4, <1>5, <1>6, <1>7 DEF Next

(* list, listTags, listCategories and the searches (without MATCHING) show *)
(* a client that turns their pages to the end, from the first one and by a *)
(* column without equal values, every row there was when it began, however *)
(* many rows are written meanwhile (OFFSET counts from the front).         *)
THEOREM PagesAreComplete ==
  ASSUME FromTheFirstPage PROVE Spec => []PagesMissNothing
<1>1. PInv => PagesMissNothing
  <2> SUFFICES ASSUME PInv, ReadToTheEnd, Distinct(Listed), NEW x \in Due,
                      x \notin session.read
               PROVE  FALSE
    BY DEF PagesMissNothing
  <2>1. /\ Skimming /\ PageRead /\ reader.todo = <<>> /\ reader.answer = <<>>
    BY DEF ReadToTheEnd, Answered, Skimming, PageRead, PInv, NoMoreToDo
  <2>2. Chosen = {}
    BY <2>1, Nothing DEF Chosen
  <2> QED BY <2>1, <2>2 DEF PInv, PagesOK
<1>2. Init => PInv
  BY InitPInv
<1>3. PInv /\ [Next]_vars => PInv'
  BY NextPInv
<1> QED BY <1>1, <1>2, <1>3, PTL DEF Spec
=============================================================================
