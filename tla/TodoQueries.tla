---------------------------- MODULE TodoQueries ----------------------------
(***************************************************************************)
(* GET /todos with its filters, sort and pages, over a table that changes  *)
(* and a cache that keeps the pages, and the bodies of POST and PATCH.     *)
(* Clients of one user walk the pages of a query: each asks for the next   *)
(* page until meta says that there is none.                                *)
(*                                                                         *)
(* A page is cached under its query.  It may be gone at any time (its 30   *)
(* seconds, an outage), and no commit touches it: update and remove delete *)
(* the key of one todo, and the delByPattern of create finds nothing (see  *)
(* TodoCache).                                                             *)
(*                                                                         *)
(* Todos are numbered in the order of their creation, no two of which fall *)
(* in one millisecond.  A text is a number, its place in the alphabet, and *)
(* contains only itself.                                                   *)
(***************************************************************************)
EXTENDS Naturals, Sequences, SequencesExt, FiniteSets, FiniteSetsExt

CONSTANTS
  Clients,        \* clients of the user
  MaxTodos,       \* bound on the todos ever created
  Titles,         \* titles and search terms
  Descriptions,   \* descriptions and search terms
  Unset,          \* undefined, and null in the database
  Queries,        \* the query strings clients send
  DefaultLimit,   \* defaultLimit, 10
  MaxMutations,   \* bound on the commits
  MaxWalks        \* bound on the walks

ASSUME SizesAssumption ==
  /\ MaxTodos \in Nat /\ MaxMutations \in Nat /\ MaxWalks \in Nat /\ DefaultLimit \in Nat \ {0}
  /\ Titles \subseteq Nat /\ Descriptions \subseteq Nat

VARIABLES
  row,        \* the table: Ids -> a todo, Unset when there is none
  created,    \* todos ever created
  mutations,  \* commits
  walks,      \* walks begun
  cache,      \* the pages in Redis
  walker      \* Clients -> the walk of the client

table == <<row, created, mutations>>
vars == <<table, walks, cache, walker>>

Ids == 1 .. MaxTodos
Fields == {"title", "description", "completed"}
Todo == [title : Titles, description : Descriptions \cup {Unset}, completed : BOOLEAN]
PatchBodies ==
  [title : Titles \cup {Unset}, description : Descriptions \cup {Unset},
   completed : BOOLEAN \cup {Unset}]
ASSUME UnsetAssumption ==
  /\ Unset \notin Nat \cup Fields \cup {"createdAt", "asc", "desc"}
  /\ Unset \notin BOOLEAN /\ Unset \notin Todo

(* A query string as class-transformer types it, valid or not.             *)
TodosQueryDto ==
  [completed : BOOLEAN \cup {Unset}, search : Titles \cup Descriptions \cup {Unset},
   searchField : {"title", "description", Unset},
   sortBy : {"title", "createdAt", "completed", Unset}, order : {"asc", "desc", Unset},
   limit : Nat \cup {Unset}, offset : Nat \cup {Unset}]
ASSUME QueriesAssumption == Queries # {} /\ Queries \subseteq TodosQueryDto

Live == {i \in Ids : row[i] # Unset}

Or(value, default) == IF value = Unset THEN default ELSE value

-----------------------------------------------------------------------------
(* TodosQueryDto: what the validation pipe lets through.                   *)
Valid(q) == q.limit # 0     \* Min(1); offset has Min(0), which Nat is

(* getFilterQuery                                                          *)
FilterQuery(q) ==
  {i \in Live :
     /\ q.completed # Unset => row[i].completed = q.completed
     /\ q.search # Unset => row[i][Or(q.searchField, "title")] = q.search}

(* getPaginationQuery: 0 and no offset are the first page.                 *)
Page(q) == Max({Or(q.offset, 0), 1})
Limit(q) == Or(q.limit, DefaultLimit)

(* getSortQuery: by title, descending, unless the client says.             *)
SortKey(q, i) ==
  LET by == Or(q.sortBy, "title") IN
    IF by = "createdAt" THEN i
    ELSE IF by = "completed" THEN (IF row[i].completed THEN 1 ELSE 0)
    ELSE row[i].title

Before(q, i, j) ==
  IF Or(q.order, "desc") = "asc" THEN SortKey(q, i) < SortKey(q, j)
                                 ELSE SortKey(q, i) > SortKey(q, j)

(* The database orders equal keys as it likes, anew for each query.        *)
Ordered(q) ==
  {s \in SetToSeqs(FilterQuery(q)) : \A a, b \in DOMAIN s : a < b => ~Before(q, s[b], s[a])}

Skip(q) == (Page(q) - 1) * Limit(q)
FindMany(q) == {SubSeq(s, Skip(q) + 1, Min({Skip(q) + Limit(q), Len(s)})) : s \in Ordered(q)}

(* Mutant: count without the filter.                                       *)
CountAll(q) == Cardinality(Live)
Count(q) == Cardinality(FilterQuery(q))

-----------------------------------------------------------------------------
(* A page as findAll returns and caches it.  History: the query it answers *)
(* and the todos that matched when it was read, whether no commit fell     *)
(* between its items and its total, and whether one has since moved todos. *)
Pages ==
  [items : Seq(Ids), meta : [limit : Nat \ {0}, offset : Nat, total : Nat],
   query : TodosQueryDto, matched : SUBSET Ids, settled : BOOLEAN, moved : BOOLEAN]

(* The walk of a client: where its request is, the query it asks and the   *)
(* page it reads.  History: how often its pages showed each todo (2 for    *)
(* more), the first page it asked for, the todos that matched when it      *)
(* began and when each of its pages was read, and whether a commit since   *)
(* the oldest of these pages may have moved todos between pages.           *)
Walking == {"get", "find", "count", "set", "answered"}
Walks ==
  [stage : Walking \cup {"idle", "refused"}, query : TodosQueryDto, page : Pages,
   shown : [Ids -> 0 .. 2], first : Nat \ {0}, steady : SUBSET Ids, shifted : BOOLEAN]

PageOf(q, found) ==
  [items |-> found, meta |-> [limit |-> 1, offset |-> 0, total |-> 0],
   query |-> q, matched |-> FilterQuery(q), settled |-> TRUE, moved |-> FALSE]

WalkOf(q) ==
  [stage |-> IF Valid(q) THEN "get" ELSE "refused", query |-> q, page |-> PageOf(q, <<>>),
   shown |-> [i \in Ids |-> 0], first |-> Page(q), steady |-> FilterQuery(q), shifted |-> FALSE]

Init ==
  /\ created \in 0 .. MaxTodos
  /\ row \in {r \in [Ids -> Todo \cup {Unset}] : \A i \in Ids : r[i] = Unset <=> i > created}
  /\ mutations = 0 /\ walks = 0
  /\ cache = {}
  /\ walker = [c \in Clients |-> [WalkOf(CHOOSE q \in Queries : TRUE) EXCEPT !.stage = "idle"]]

Becomes(c, w) == walker' = [walker EXCEPT ![c] = w]

HasNext(w) == w.page.meta.offset * w.page.meta.limit < w.page.meta.total
Ended(w) == w.stage = "answered" /\ ~HasNext(w)

(* A client sends the first query of a walk; an invalid one is answered    *)
(* 422.                                                                    *)
Begin(c) ==
  /\ walks < MaxWalks
  /\ walks' = walks + 1
  /\ walker[c].stage \in {"idle", "refused"} \/ Ended(walker[c])
  /\ \E q \in Queries : Becomes(c, WalkOf(q))
  /\ UNCHANGED <<table, cache>>

Times(i, found) == Cardinality({n \in DOMAIN found : found[n] = i})

(* The client is shown a page.                                             *)
Answered(w, p) ==
  [w EXCEPT !.stage = "answered", !.page = p,
            !.shown = [i \in Ids |-> Min({@[i] + Times(i, p.items), 2})],
            !.steady = @ \cap p.matched, !.shifted = @ \/ p.moved]

(* TodosCacheKeys.todos.  Mutant: the page asked for is not in the key.    *)
KeyOfAllPages(q) == [q EXCEPT !.offset = Unset]
Key(q) == q
Hits(q) == {p \in cache : Key(p.query) = Key(q)}

(* findAll answers from the cache, or goes on when it gets nothing: the    *)
(* page is not there, has expired or cannot be had.                        *)
GetPage(c) ==
  LET w == walker[c] IN
    /\ w.stage = "get"
    /\ \/ \E p \in Hits(w.query) : Becomes(c, Answered(w, p))
       \/ Becomes(c, [w EXCEPT !.stage = "find"])
    /\ UNCHANGED <<table, walks, cache>>

(* The two statements of prisma.$transaction: READ COMMITTED gives each a  *)
(* snapshot of its own.                                                    *)
FindItems(c) ==
  LET w == walker[c] IN
    /\ w.stage = "find"
    /\ \E found \in FindMany(w.query) :
         Becomes(c, [w EXCEPT !.stage = "count", !.page = PageOf(w.query, found)])
    /\ UNCHANGED <<table, walks, cache>>

Meta(q) == [limit |-> Limit(q), offset |-> Page(q), total |-> Count(q)]

CountTotal(c) ==
  LET w == walker[c] IN
    /\ w.stage = "count"
    /\ Becomes(c, [w EXCEPT !.stage = "set", !.page = [@ EXCEPT !.meta = Meta(w.query)]])
    /\ UNCHANGED <<table, walks, cache>>

(* The page is kept, if Redis takes it, and answered.                      *)
SetPage(c) ==
  LET w == walker[c] IN
    /\ w.stage = "set"
    /\ cache' \in {cache, (cache \ Hits(w.query)) \cup {w.page}}
    /\ Becomes(c, Answered(w, w.page))
    /\ UNCHANGED <<table, walks>>

NextPage(c) ==
  LET w == walker[c] IN
    /\ w.stage = "answered"
    /\ HasNext(w)
    /\ Becomes(c, [w EXCEPT !.stage = "get", !.query = [@ EXCEPT !.offset = w.page.meta.offset + 1]])
    /\ UNCHANGED <<table, walks, cache>>

-----------------------------------------------------------------------------
(* Mutations, by these or any other clients.  New todos come last in a     *)
(* list sorted by creation, and move nothing.                              *)
Appends(q) == q.sortBy = "createdAt" /\ q.order = "asc"

MovedBy(p, add) == [p EXCEPT !.moved = @ \/ ~(add /\ Appends(p.query))]
ShiftedBy(w, add) ==
  [w EXCEPT !.page = [MovedBy(w.page, add) EXCEPT !.settled = w.page.settled /\ w.stage # "count"],
            !.shifted = @ \/ ~(add /\ Appends(w.query))]

Mutate(add) ==
  /\ mutations < MaxMutations
  /\ mutations' = mutations + 1
  /\ walks' = walks
  /\ cache' = {MovedBy(p, add) : p \in cache}
  /\ walker' = [c \in Clients |-> ShiftedBy(walker[c], add)]

CreateTodo ==
  /\ created < MaxTodos
  /\ \E title \in Titles, description \in Descriptions \cup {Unset}, completed \in BOOLEAN \cup {Unset} :
       row' = [row EXCEPT ![created + 1] =
                 [title |-> title, description |-> description, completed |-> Or(completed, FALSE)]]
  /\ created' = created + 1
  /\ Mutate(TRUE)

RemoveTodo(i) ==
  /\ i \in Live
  /\ row' = [row EXCEPT ![i] = Unset]
  /\ Mutate(FALSE)
  /\ UNCHANGED created

(* UpdateTodoDto has the fields sent, and the default that PartialType     *)
(* takes over from CreateTodoDto: completed is false unless it is sent.    *)
UpdateDto(sent) == [sent EXCEPT !.completed = Or(@, FALSE)]

(* Mutant: fields that are not sent are written as null.                    *)
OverwrittenBy(todo, sent) == UpdateDto(sent)
UpdatedBy(todo, sent) == [f \in Fields |-> Or(UpdateDto(sent)[f], todo[f])]

UpdateTodo(i) ==
  /\ i \in Live
  /\ \E sent \in PatchBodies : row' = [row EXCEPT ![i] = UpdatedBy(row[i], sent)]
  /\ Mutate(FALSE)
  /\ UNCHANGED created

Next ==
  \/ \E c \in Clients :
       Begin(c) \/ GetPage(c) \/ FindItems(c) \/ CountTotal(c) \/ SetPage(c) \/ NextPage(c)
  \/ CreateTodo \/ \E i \in Ids : RemoveTodo(i) \/ UpdateTodo(i)

Spec == Init /\ [][Next]_vars

(* The database answers, the client asks for the next page, and Redis      *)
(* answers or refuses (HangsOnlyAtRedis is about when it does neither).     *)
FairSpec ==
  /\ Spec
  /\ \A c \in Clients :
       WF_vars(GetPage(c) \/ FindItems(c) \/ CountTotal(c) \/ SetPage(c) \/ NextPage(c))

-----------------------------------------------------------------------------
TypeOK ==
  /\ row \in [Ids -> Todo \cup {Unset}]
  /\ created \in 0 .. MaxTodos
  /\ mutations \in 0 .. MaxMutations
  /\ walks \in 0 .. MaxWalks
  /\ cache \subseteq Pages
  /\ walker \in [Clients -> Walks]

(* The page and meta of one answer belong together, if no commit fell      *)
(* between the two statements that read them: the page is full unless it   *)
(* is the last.  So they do when the answer comes from the cache.          *)
MetaFits(p) ==
  LET before == (p.meta.offset - 1) * p.meta.limit IN
    p.settled => Len(p.items) = IF p.meta.total <= before THEN 0
                                ELSE Min({p.meta.limit, p.meta.total - before})
MetaMatchesItems ==
  /\ \A p \in cache : MetaFits(p)
  /\ \A c \in Clients : walker[c].stage = "answered" => MetaFits(walker[c].page)

TellsApart(q) == \A i, j \in FilterQuery(q) : i # j => Before(q, i, j) \/ Before(q, j, i)

(* A walk from the first page to the last shows each todo that matched     *)
(* when it began and when its pages were read exactly once, cached pages   *)
(* included, when the sort key tells all matching todos apart and no       *)
(* commit has moved them since the oldest of the pages was read: none at   *)
(* all, or only new todos in a walk by creation time.                      *)
WalkIsComplete ==
  \A c \in Clients :
    LET w == walker[c] IN
      Ended(w) /\ ~w.shifted /\ TellsApart(w.query) =>
        /\ \A i \in Ids : w.shown[i] <= 1
        /\ w.first = 1 => \A i \in w.steady : w.shown[i] = 1

(* A walk ends when the commits stop.                                      *)
WalkEnds == \A c \in Clients : walker[c].stage = "get" ~> Ended(walker[c])

(* update-todo.dto.ts: UpdateTodoDto is the partial type of the create     *)
(* body.  A PATCH leaves the fields it does not send as they were.         *)
UnsentFieldsKept ==
  \A i \in Live, sent \in PatchBodies : \A f \in Fields :
    sent[f] = Unset => UpdatedBy(row[i], sent)[f] = row[i][f]
=============================================================================
