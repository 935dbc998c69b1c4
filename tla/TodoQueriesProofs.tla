------------------------- MODULE TodoQueriesProofs --------------------------
(***************************************************************************)
(* Theorems about TodoQueries: its types, meta and items of one answer,    *)
(* and what a walk over the pages shows.                                   *)
(*                                                                         *)
(* The walk is followed by places: the place of a todo is one more than    *)
(* the number of matching todos that sort before it.  When the sort key    *)
(* tells the matching todos apart, every order the database may take puts  *)
(* each todo at its place (RankIsPlace), so that the pages of separate     *)
(* queries are slices of one list.                                         *)
(***************************************************************************)
EXTENDS TodoQueries, FiniteSetTheorems, SequenceTheorems, TLAPS

USE SizesAssumption, UnsetAssumption, QueriesAssumption

(* Min of a pair.                                                          *)
LEMMA MinPair ==
  ASSUME NEW a \in Int, NEW b \in Int
  PROVE  Min({a, b}) = IF a <= b THEN a ELSE b
  BY DEF Min

(* Max of a pair.                                                          *)
LEMMA MaxPair ==
  ASSUME NEW a \in Int, NEW b \in Int
  PROVE  Max({a, b}) = IF a >= b THEN a ELSE b
  BY DEF Max

(* The page asked for, counted from one, and its size.                     *)
LEMMA PageFacts ==
  ASSUME NEW q \in TodosQueryDto
  PROVE  /\ Page(q) \in Nat \ {0}
         /\ Limit(q) \in Nat /\ (Valid(q) => Limit(q) # 0)
         /\ Skip(q) \in Nat
<1>1. q.limit \in Nat \cup {Unset} /\ q.offset \in Nat \cup {Unset}
  BY DEF TodosQueryDto
<1>2. Page(q) \in Nat \ {0}
  BY <1>1, MaxPair DEF Page, Or
<1>3. Limit(q) \in Nat /\ (Valid(q) => Limit(q) # 0)
  BY <1>1 DEF Limit, Or, Valid
<1>4. Skip(q) \in Nat
  <2>1. \A m, n \in Nat : m * n \in Nat
    OBVIOUS
  <2> QED
    BY <1>2, <1>3, <2>1 DEF Skip
<1> QED
  BY <1>2, <1>3, <1>4

(* The todos that match are rows of the table, and finitely many.          *)
LEMMA FilterFacts ==
  ASSUME NEW q
  PROVE  /\ FilterQuery(q) \subseteq Live
         /\ FilterQuery(q) \subseteq Ids
         /\ IsFiniteSet(FilterQuery(q))
         /\ Count(q) \in Nat
<1>1. FilterQuery(q) \subseteq Live /\ FilterQuery(q) \subseteq Ids
  BY DEF FilterQuery, Live
<1>2. IsFiniteSet(Ids)
  BY FS_Interval DEF Ids
<1> QED
  BY <1>1, <1>2, FS_Subset, FS_CardinalityType DEF Count

(* An order of the matching todos is a sequence that lists each once.      *)
LEMMA OrderedFacts ==
  ASSUME NEW q, NEW s \in Ordered(q)
  PROVE  /\ s \in Seq(FilterQuery(q)) /\ Len(s) = Count(q)
         /\ \A a, b \in 1 .. Count(q) : a # b => s[a] # s[b]
         /\ \A i \in FilterQuery(q) : \E a \in 1 .. Count(q) : s[a] = i
         /\ \A a, b \in 1 .. Count(q) : a < b => ~Before(q, s[b], s[a])
<1> DEFINE F == FilterQuery(q)
           D == 1 .. Cardinality(F)
<1>1. Cardinality(F) \in Nat /\ IsFiniteSet(F)
  BY FilterFacts DEF Count
<1>2. s \in [D -> F] /\ \A a, b \in D : a # b => s[a] # s[b]
  BY DEF Ordered, SetToSeqs
<1>3. s \in Seq(F) /\ Len(s) = Cardinality(F)
  BY <1>1, <1>2
<1>4. \A i \in F : \E a \in D : s[a] = i
  <2>1. s \in Injection(D, F)
    BY <1>2 DEF Injection, IsInjective
  <2>2. IsFiniteSet(D) /\ Cardinality(D) = Cardinality(F)
    BY <1>1, FS_Interval
  <2>3. s \in Surjection(D, F)
    BY <1>1, <2>1, <2>2, FS_Injection
  <2> QED
    BY <2>3 DEF Surjection
<1> QED
  BY <1>2, <1>3, <1>4 DEF Ordered, Count

(* How many items the page of a query has.                                 *)
PageLen(q) == IF Count(q) <= Skip(q) THEN 0 ELSE Min({Limit(q), Count(q) - Skip(q)})

(* A page is the slice of one such order.                                  *)
LEMMA FindManyFacts ==
  ASSUME NEW q \in TodosQueryDto, NEW page \in FindMany(q)
  PROVE  \E s \in Ordered(q) :
           /\ page \in Seq(FilterQuery(q))
           /\ Len(page) = PageLen(q)
           /\ \A n \in 1 .. Len(page) : page[n] = s[Skip(q) + n]
           /\ \A n \in 1 .. Len(page) : Skip(q) + n \in 1 .. Count(q) /\ n <= Limit(q)
           /\ \A a \in 1 .. Count(q) :
                a > Skip(q) /\ a <= Skip(q) + Limit(q) => a - Skip(q) \in 1 .. Len(page)
<1>1. PICK s \in Ordered(q) : page = SubSeq(s, Skip(q) + 1, Min({Skip(q) + Limit(q), Len(s)}))
  BY DEF FindMany
<1>2. Skip(q) \in Nat /\ Limit(q) \in Nat /\ Count(q) \in Nat
  BY PageFacts, FilterFacts
<1>3. s \in Seq(FilterQuery(q)) /\ Len(s) = Count(q)
  BY OrderedFacts
<1> DEFINE lo == Skip(q)
           top == IF lo + Limit(q) <= Count(q) THEN lo + Limit(q) ELSE Count(q)
<1> HIDE DEF lo, top
<1>4. page = SubSeq(s, lo + 1, top) /\ top \in 0 .. Count(q) /\ lo \in Nat
  <2>1. Min({lo + Limit(q), Count(q)}) = top
    BY <1>2, MinPair DEF lo, top
  <2>2. top \in 0 .. Count(q) /\ lo \in Nat
    BY <1>2 DEF lo, top
  <2>3. page = SubSeq(s, lo + 1, Min({lo + Limit(q), Count(q)}))
    BY <1>1, <1>3 DEF lo
  <2> QED
    BY <2>1, <2>2, <2>3
<1>5. \A n \in lo + 1 .. top : s[n] \in FilterQuery(q)
  BY <1>2, <1>3, <1>4, ElementOfSeq
<1>6. /\ page \in Seq(FilterQuery(q))
      /\ Len(page) = IF lo + 1 <= top THEN top - lo ELSE 0
      /\ \A n \in 1 .. top - lo : page[n] = s[lo + n]
  <2>1. lo + 1 \in Int /\ top \in Int
    BY <1>2, <1>4
  <2>2. /\ SubSeq(s, lo + 1, top) \in Seq(FilterQuery(q))
        /\ Len(SubSeq(s, lo + 1, top)) = IF lo + 1 <= top THEN top - (lo + 1) + 1 ELSE 0
        /\ \A i \in 1 .. top - (lo + 1) + 1 : SubSeq(s, lo + 1, top)[i] = s[(lo + 1) + i - 1]
    BY <1>5, <2>1, SubSeqProperties
  <2>3. top - (lo + 1) + 1 = top - lo
    BY <2>1, <1>4
  <2>4. Len(page) = IF lo + 1 <= top THEN top - lo ELSE 0
    BY <1>4, <2>2, <2>3
  <2>5. ASSUME NEW n \in 1 .. top - lo PROVE page[n] = s[lo + n]
    <3>1. page[n] = s[(lo + 1) + n - 1]
      BY <1>4, <2>2, <2>3
    <3>2. (lo + 1) + n - 1 = lo + n
      BY <1>4
    <3> QED
      BY <3>1, <3>2
  <2> QED
    BY <1>4, <2>2, <2>4, <2>5
<1>7. Len(page) = PageLen(q)
  <2>1. Min({Limit(q), Count(q) - lo})
          = IF Limit(q) <= Count(q) - lo THEN Limit(q) ELSE Count(q) - lo
    BY <1>2, <1>4, MinPair
  <2> QED
    BY <1>2, <1>4, <1>6, <2>1 DEF PageLen, lo, top
<1>t. /\ top <= lo + Limit(q) /\ top <= Count(q)
      /\ \A a \in 1 .. Count(q) : a <= lo + Limit(q) => a <= top
  BY <1>2, <1>4 DEF top
<1>8. ASSUME NEW n \in 1 .. Len(page)
      PROVE  n \in 1 .. top - lo /\ lo + n \in 1 .. Count(q) /\ n <= Limit(q)
  <2>1. Len(page) = IF lo + 1 <= top THEN top - lo ELSE 0
    BY <1>6
  <2>2. n \in Nat /\ n >= 1 /\ n <= top - lo
    BY <1>4, <2>1
  <2> QED
    BY <1>2, <1>4, <1>t, <2>2
<1>9. \A a \in 1 .. Count(q) : a > lo /\ a <= lo + Limit(q) => a - lo \in 1 .. Len(page)
  <2>1. Len(page) = IF lo + 1 <= top THEN top - lo ELSE 0
    BY <1>6
  <2> QED
    BY <1>2, <1>4, <1>t, <2>1
<1> QED
  BY <1>6, <1>7, <1>8, <1>9 DEF lo

(* Every sort key is a number: a title, a creation time or a flag.         *)
LEMMA SortKeyType ==
  ASSUME row \in [Ids -> Todo \cup {Unset}], NEW q, NEW i \in Live
  PROVE  SortKey(q, i) \in Nat
<1>1. i \in Nat /\ row[i] \in Todo
  BY DEF Live, Ids
<1>2. row[i].title \in Nat
  BY <1>1, SizesAssumption DEF Todo
<1>3. \A by : (IF by = "createdAt" THEN i
              ELSE IF by = "completed" THEN (IF row[i].completed THEN 1 ELSE 0)
              ELSE row[i].title) \in Nat
  <2> DEFINE flag == IF row[i].completed THEN 1 ELSE 0
  <2>1. flag \in Nat
    <3>1. flag = 1 \/ flag = 0
      OBVIOUS
    <3> QED
      BY <3>1
  <2> HIDE DEF flag
  <2>2. \A by : (IF by = "createdAt" THEN i
              ELSE IF by = "completed" THEN flag
              ELSE row[i].title) \in Nat
    BY <1>1, <1>2, <2>1
  <2> QED
    BY <2>2 DEF flag
<1> QED
  BY <1>3 DEF SortKey

(* No todo comes before itself.                                            *)
LEMMA BeforeIsStrict ==
  ASSUME row \in [Ids -> Todo \cup {Unset}], NEW q, NEW i \in Live
  PROVE  ~Before(q, i, i)
  BY SortKeyType DEF Before

(* The place of a todo among those that match, by the sort key.            *)
Rank(q, i) == Cardinality({j \in FilterQuery(q) : Before(q, j, i)}) + 1

(* Places are counted from one to the number of matching todos.            *)
LEMMA RankBounds ==
  ASSUME row \in [Ids -> Todo \cup {Unset}], NEW q, NEW i \in FilterQuery(q)
  PROVE  Rank(q, i) \in 1 .. Count(q)
<1> DEFINE F == FilterQuery(q)
           B == {j \in F : Before(q, j, i)}
<1>1. IsFiniteSet(F) /\ Count(q) \in Nat /\ i \in Live
  BY FilterFacts
<1>2. i \notin B /\ B \in SUBSET F /\ B \in SUBSET (F \ {i})
  BY <1>1, BeforeIsStrict
<1>3. IsFiniteSet(F \ {i}) /\ Cardinality(F \ {i}) = Count(q) - 1
  BY <1>1, FS_RemoveElement DEF Count
<1>4. Cardinality(B) <= Count(q) - 1 /\ Cardinality(B) \in Nat
  BY <1>2, <1>3, FS_Subset, FS_CardinalityType
<1> QED
  BY <1>1, <1>4 DEF Rank

(* Whatever order the database takes, it puts a todo at its place.         *)
LEMMA RankIsPlace ==
  ASSUME row \in [Ids -> Todo \cup {Unset}], NEW q, TellsApart(q), NEW s \in Ordered(q),
         NEW a \in 1 .. Count(q)
  PROVE  Rank(q, s[a]) = a
<1> DEFINE F == FilterQuery(q)
           B == {j \in F : Before(q, j, s[a])}
           D == 1 .. a - 1
<1>1. /\ s \in Seq(F) /\ Len(s) = Count(q) /\ Count(q) \in Nat
      /\ \A b, c \in 1 .. Count(q) : b # c => s[b] # s[c]
      /\ \A i \in F : \E b \in 1 .. Count(q) : s[b] = i
      /\ \A b, c \in 1 .. Count(q) : b < c => ~Before(q, s[c], s[b])
  BY OrderedFacts, FilterFacts
<1>2. \A b \in 1 .. Count(q) : s[b] \in F
  BY <1>1, ElementOfSeq
<1>3. s[a] \in F /\ ~Before(q, s[a], s[a])
  BY <1>2, FilterFacts, BeforeIsStrict
<1>4. \A b \in D : b \in 1 .. Count(q) /\ b < a
  BY <1>1
<1>5. \A b \in D : s[b] \in B
  <2> SUFFICES ASSUME NEW b \in D PROVE Before(q, s[b], s[a])
    BY <1>2, <1>4
  <2>1. s[b] # s[a] /\ ~Before(q, s[a], s[b]) /\ s[b] \in F
    BY <1>1, <1>2, <1>4
  <2> QED
    BY <1>3, <2>1 DEF TellsApart
<1>6. \A j \in B : \E b \in D : s[b] = j
  <2> SUFFICES ASSUME NEW j \in B PROVE \E b \in D : s[b] = j
    OBVIOUS
  <2>1. PICK b \in 1 .. Count(q) : s[b] = j
    BY <1>1
  <2>0. Before(q, s[b], s[a])
    BY <2>1
  <2>2. b # a /\ ~(a < b)
    BY <1>1, <1>3, <2>0
  <2>3. b \in D
    BY <1>1, <2>2
  <2> QED
    BY <2>1, <2>3
<1> DEFINE f == [b \in D |-> s[b]]
<1>7. f \in [D -> B] /\ \A b, c \in D : f[b] = f[c] => b = c
  BY <1>1, <1>4, <1>5
<1>8. f \in Bijection(D, B)
  BY <1>6, <1>7 DEF Bijection, Injection, Surjection, IsInjective
<1>9. Cardinality(B) = a - 1
  <2>1. IsFiniteSet(D) /\ Cardinality(D) = a - 1
    <3>1. a \in Int /\ a - 1 \in Int /\ 1 \in Int /\ a >= 1
      BY FilterFacts
    <3>2. /\ IsFiniteSet(1 .. a - 1)
          /\ Cardinality(1 .. a - 1) = IF 1 > a - 1 THEN 0 ELSE (a - 1) - 1 + 1
      BY <3>1, FS_Interval, Zenon
    <3>3. (a - 1) - 1 + 1 = a - 1 /\ (1 > a - 1 => a - 1 = 0)
      BY <3>1
    <3> QED
      BY <3>2, <3>3, Zenon
  <2>2. ExistsBijection(D, B)
    BY <1>8 DEF ExistsBijection
  <2> QED
    BY <2>1, <2>2, FS_Bijection
<1> QED
  BY <1>9 DEF Rank

-----------------------------------------------------------------------------
(* The invariant                                                           *)

(* A page that no commit has moved, of a list whose todos the sort key     *)
(* tells apart, holds the todos of its places, and all of them that        *)
(* matched when it was read.                                               *)
Unmoved(p) == ~p.moved /\ TellsApart(p.query)
Placed(p) ==
  /\ p.matched \subseteq FilterQuery(p.query)
  /\ \A n \in 1 .. Len(p.items) : /\ p.items[n] \in FilterQuery(p.query)
                                  /\ Rank(p.query, p.items[n]) = Skip(p.query) + n
                                  /\ n <= Limit(p.query)
  /\ \A i \in p.matched :
       Rank(p.query, i) > Skip(p.query) /\ Rank(p.query, i) <= Skip(p.query) + Limit(p.query)
         => \E n \in 1 .. Len(p.items) : p.items[n] = i

(* A page between its two statements, and one that has its meta.           *)
Reading(p) ==
  /\ p \in Pages /\ Valid(p.query)
  /\ p.settled => Len(p.items) = PageLen(p.query)
  /\ Unmoved(p) => Placed(p)
Complete(p) ==
  /\ p \in Pages /\ Valid(p.query)
  /\ p.meta.limit = Limit(p.query) /\ p.meta.offset = Page(p.query)
  /\ MetaFits(p)
  /\ Unmoved(p) => Placed(p) /\ \A i \in p.matched : Rank(p.query, i) <= p.meta.total

(* The places of the list that the answered pages cover.  The todos that   *)
(* matched all along still do; no todo was shown twice, and one shown has  *)
(* its place among those covered; in a walk from the first page every      *)
(* place covered was shown.                                                *)
Walked(w) == IF w.stage = "answered" THEN Skip(w.query) + Limit(w.query) ELSE Skip(w.query)
ShownOnce(w) ==
  \A i \in Ids :
    \/ w.shown[i] = 0
    \/ w.shown[i] = 1 /\ i \in FilterQuery(w.query) /\ Rank(w.query, i) <= Walked(w)
ShownAll(w) ==
  w.first = 1 => \A i \in w.steady : Rank(w.query, i) <= Walked(w) => w.shown[i] = 1
WalkShape(w) == w.steady \subseteq FilterQuery(w.query) /\ ShownOnce(w) /\ ShownAll(w)

Shaped(w) == w.stage \in Walking /\ ~w.shifted /\ TellsApart(w.query) => WalkShape(w)
Shown(w) ==
  /\ w.page.query = w.query /\ Complete(w.page)
  /\ w.steady \subseteq w.page.matched /\ (w.page.moved => w.shifted)
Good(w) ==
  /\ w \in Walks
  /\ w.stage \in Walking => Valid(w.query)
  /\ w.stage = "count" => w.page.query = w.query /\ Reading(w.page)
  /\ w.stage = "set" => w.page.query = w.query /\ Complete(w.page)
  /\ w.stage = "answered" => Shown(w)
  /\ Shaped(w)

Table ==
  /\ row \in [Ids -> Todo \cup {Unset}]
  /\ created \in 0 .. MaxTodos /\ mutations \in 0 .. MaxMutations
  /\ \A i \in Live : i <= created
Held == {walker[c] : c \in Clients}
Inv ==
  /\ Table
  /\ walks \in 0 .. MaxWalks
  /\ \A p \in cache : Complete(p)
  /\ walker \in [Clients -> Walks]
  /\ \A w \in Held : Good(w)

(* What is said of pages and walks depends on nothing but the rows.        *)
LEMMA SameRows ==
  ASSUME row' = row
  PROVE  /\ \A p : Complete(p)' <=> Complete(p)
         /\ \A w : Good(w)' <=> Good(w)
<1>1. Live' = Live
  BY DEF Live, Ids
<1>2. ASSUME NEW q
      PROVE  /\ FilterQuery(q)' = FilterQuery(q)
             /\ Skip(q)' = Skip(q) /\ Limit(q)' = Limit(q) /\ Page(q)' = Page(q)
             /\ Valid(q)' <=> Valid(q)
             /\ \A i, j : Before(q, i, j)' <=> Before(q, i, j)
  <2>1. FilterQuery(q)' = FilterQuery(q)
    BY <1>1 DEF FilterQuery, Or
  <2>2. \A i, j : Before(q, i, j)' <=> Before(q, i, j)
    BY DEF Before, SortKey, Or
  <2> QED
    BY <2>1, <2>2 DEF Skip, Limit, Page, Or, Valid
<1>3. ASSUME NEW q
      PROVE  /\ \A i : Rank(q, i)' = Rank(q, i)
             /\ TellsApart(q)' <=> TellsApart(q)
             /\ PageLen(q)' = PageLen(q)
  <2>1. ASSUME NEW i PROVE Rank(q, i)' = Rank(q, i)
    <3>1. {j \in FilterQuery(q) : Before(q, j, i)}' = {j \in FilterQuery(q) : Before(q, j, i)}
      BY <1>2
    <3> QED
      BY <3>1 DEF Rank
  <2> QED
    BY <1>2, <2>1 DEF TellsApart, PageLen, Count
<1>4. ASSUME NEW p
      PROVE  /\ Unmoved(p)' <=> Unmoved(p)
             /\ Placed(p)' <=> Placed(p)
             /\ MetaFits(p)' <=> MetaFits(p)
             /\ (p \in Pages)' <=> p \in Pages
  BY <1>2, <1>3 DEF Unmoved, Placed, MetaFits, Pages, Ids
<1>5. ASSUME NEW p PROVE (Reading(p)' <=> Reading(p)) /\ (Complete(p)' <=> Complete(p))
  BY <1>2, <1>3, <1>4 DEF Reading, Complete
<1>6. ASSUME NEW w
      PROVE  /\ Walked(w)' = Walked(w)
             /\ (w \in Walks)' <=> w \in Walks
             /\ Walking' = Walking
  BY <1>2 DEF Walked, Walks, Walking, Pages, Ids
<1>7. ASSUME NEW w PROVE WalkShape(w)' <=> WalkShape(w)
  BY <1>2, <1>3, <1>6 DEF WalkShape, ShownOnce, ShownAll, Ids
<1>8. ASSUME NEW w PROVE Good(w)' <=> Good(w)
  BY <1>2, <1>3, <1>5, <1>6, <1>7 DEF Good, Shaped, Shown
<1> QED
  BY <1>5, <1>8

(* A step of one client: its walk becomes a good one, and the cache holds  *)
(* nothing new but a complete page.                                        *)
LEMMA ClientStep ==
  ASSUME Inv, UNCHANGED table, walks' \in 0 .. MaxWalks, NEW c \in Clients,
         NEW v, Good(v), Becomes(c, v), \A p \in cache' : p \in cache \/ Complete(p)
  PROVE  Inv'
<1>1. row' = row /\ created' = created /\ mutations' = mutations
  BY DEF table
<1>2. /\ \A p : Complete(p)' <=> Complete(p)
      /\ \A w : Good(w)' <=> Good(w)
  BY <1>1, SameRows
<1>3. walker' = [walker EXCEPT ![c] = v] /\ v \in Walks /\ walker \in [Clients -> Walks]
  BY DEF Becomes, Good, Inv
<1>4. Walks' = Walks
  BY DEF Walks, Walking, Pages, Ids
<1>5. walker' \in [Clients -> Walks]
  BY <1>3
<1>6. \A w \in Held' : w = v \/ w \in Held
  BY <1>3 DEF Held
<1>7. (\A w \in Held : Good(w))'
  BY <1>2, <1>6 DEF Inv
<1>8. (\A p \in cache : Complete(p))'
  BY <1>2 DEF Inv
<1>9. Table'
  BY <1>1 DEF Inv, Table, Live, Ids
<1> QED
  BY <1>4, <1>5, <1>7, <1>8, <1>9 DEF Inv

LEMMA HeldGood == ASSUME Inv, NEW c \in Clients PROVE Good(walker[c])
  BY DEF Inv, Held

(* A sequence over a subset is one over the set.                           *)
LEMMA SeqOfSubset ==
  ASSUME NEW S, NEW T, S \subseteq T, NEW s \in Seq(S)
  PROVE  s \in Seq(T)
  OBVIOUS

(* The todos that match have ids.                                          *)
LEMMA FilterTypes ==
  ASSUME NEW q
  PROVE  FilterQuery(q) \in SUBSET Ids
  BY FilterFacts

LEMMA PageOfType ==
  ASSUME NEW q \in TodosQueryDto, NEW found \in Seq(Ids)
  PROVE  PageOf(q, found) \in Pages
  BY FilterTypes DEF PageOf, Pages

(* A walk that begins has shown nothing, and no place of page one is       *)
(* covered.                                                                *)
LEMMA WalkOfGood ==
  ASSUME row \in [Ids -> Todo \cup {Unset}], NEW q \in TodosQueryDto
  PROVE  Good(WalkOf(q))
<1> DEFINE w == WalkOf(q)
<1>1. <<>> \in Seq(Ids) /\ Page(q) \in Nat \ {0}
  BY PageFacts
<1>2. /\ w.stage = (IF Valid(q) THEN "get" ELSE "refused") /\ w.query = q
      /\ w.shown = [i \in Ids |-> 0] /\ w.first = Page(q) /\ w.steady = FilterQuery(q)
  BY DEF WalkOf
<1>3. w.stage \in {"get", "refused"} /\ (w.stage = "get" => Valid(q))
  BY <1>2
<1>4. w \in Walks
  <2>1. PageOf(q, <<>>) \in Pages
    BY <1>1, PageOfType
  <2>2. [i \in Ids |-> 0] \in [Ids -> 0 .. 2]
    OBVIOUS
  <2>3. (IF Valid(q) THEN "get" ELSE "refused") \in Walking \cup {"idle", "refused"}
    BY DEF Walking
  <2> QED
    BY <1>1, <2>1, <2>2, <2>3, FilterTypes DEF Walks, WalkOf
<1> HIDE DEF w
<1>5. WalkShape(w)
  <2>1. ShownOnce(w)
    BY <1>2 DEF ShownOnce
  <2>2. ShownAll(w)
    <3> SUFFICES ASSUME Page(q) = 1, NEW i \in FilterQuery(q) PROVE ~(Rank(q, i) <= Skip(q))
      BY <1>2, <1>3 DEF ShownAll, Walked
    <3>1. Skip(q) = 0
      BY PageFacts DEF Skip
    <3>2. Rank(q, i) >= 1 /\ Rank(q, i) \in Nat
      BY RankBounds, FilterFacts
    <3> QED
      BY <3>1, <3>2
  <2> QED
    BY <1>2, <2>1, <2>2 DEF WalkShape
<1>6. Good(w)
  BY <1>2, <1>3, <1>4, <1>5 DEF Good, Shaped, Walking
<1> QED
  BY <1>6 DEF w

(* A page without repetition shows a todo once or not at all.              *)
LEMMA TimesOnPage ==
  ASSUME NEW i, NEW page \in Seq(Ids),
         \A m, n \in 1 .. Len(page) : page[m] = page[n] => m = n
  PROVE  Times(i, page) = IF \E n \in 1 .. Len(page) : page[n] = i THEN 1 ELSE 0
<1> DEFINE D == {n \in DOMAIN page : page[n] = i}
<1>1. DOMAIN page = 1 .. Len(page)
  OBVIOUS
<1>2. CASE \E n \in 1 .. Len(page) : page[n] = i
  <2>1. PICK n \in 1 .. Len(page) : page[n] = i
    BY <1>2
  <2>2. D = {n}
    BY <1>1, <2>1
  <2> QED
    BY <1>2, <2>2, FS_Singleton DEF Times
<1>3. CASE ~\E n \in 1 .. Len(page) : page[n] = i
  <2>1. D = {}
    BY <1>1, <1>3
  <2> QED
    BY <1>3, <2>1, FS_EmptySet DEF Times
<1> QED
  BY <1>2, <1>3

(* A client that is shown a complete page: its todos lie beyond the places *)
(* covered so far, so they had not been shown.                             *)
LEMMA AnsweredGood ==
  ASSUME row \in [Ids -> Todo \cup {Unset}], NEW w, Good(w), w.stage \in {"get", "set"},
         NEW p, Complete(p), p.query = w.query
  PROVE  Good(Answered(w, p))
<1> DEFINE v == Answered(w, p)
           q == w.query
<1>1. w \in Walks /\ p \in Pages /\ Valid(q)
  BY DEF Good, Complete, Walking
<1>2. /\ v.stage = "answered" /\ v.page = p /\ v.query = q /\ v.first = w.first
      /\ v.shown = [i \in Ids |-> Min({w.shown[i] + Times(i, p.items), 2})]
      /\ v.steady = w.steady \cap p.matched /\ v.shifted = (w.shifted \/ p.moved)
  BY <1>1 DEF Answered, Walks
<1>3. ASSUME NEW i \in Ids PROVE w.shown[i] \in 0 .. 2 /\ Times(i, p.items) \in Nat
  <2> DEFINE D == {n \in DOMAIN p.items : p.items[n] = i}
  <2>1. p.items \in Seq(Ids)
    BY <1>1 DEF Pages
  <2>2. Len(p.items) \in Nat /\ DOMAIN p.items = 1 .. Len(p.items)
    BY <2>1
  <2>3. IsFiniteSet(1 .. Len(p.items)) /\ D \in SUBSET (1 .. Len(p.items))
    BY <2>2, FS_Interval
  <2>4. Times(i, p.items) \in Nat
    BY <2>3, FS_Subset, FS_CardinalityType DEF Times
  <2> QED
    BY <1>1, <2>4 DEF Walks
<1>4. v.shown \in [Ids -> 0 .. 2]
  <2> SUFFICES ASSUME NEW i \in Ids PROVE Min({w.shown[i] + Times(i, p.items), 2}) \in 0 .. 2
    BY <1>2
  <2>1. w.shown[i] + Times(i, p.items) \in Nat
    BY <1>3
  <2> QED
    BY <2>1, MinPair
<1>5. v \in Walks
  <2>1. (w.shifted \/ p.moved) \in BOOLEAN
    OBVIOUS
  <2>2. "answered" \in Walking \cup {"idle", "refused"} /\ w.steady \cap p.matched \in SUBSET Ids
    BY <1>1 DEF Walking, Walks
  <2>3. [i \in Ids |-> Min({w.shown[i] + Times(i, p.items), 2})] \in [Ids -> 0 .. 2]
    BY <1>2, <1>4
  <2>4. Answered(w, p) =
          [w EXCEPT !.stage = "answered", !.page = p,
                    !.shown = [i \in Ids |-> Min({w.shown[i] + Times(i, p.items), 2})],
                    !.steady = w.steady \cap p.matched, !.shifted = (w.shifted \/ p.moved)]
    BY <1>1 DEF Answered, Walks
  <2> QED
    BY <1>1, <2>1, <2>2, <2>3, <2>4 DEF Walks
<1> HIDE DEF v
<1>6. Shown(v)
  BY <1>2 DEF Shown
<1>7. ASSUME ~v.shifted, TellsApart(q) PROVE WalkShape(v)
  <2> DEFINE lo == Skip(q)
             max == Limit(q)
             F == FilterQuery(q)
             here(i) == \E n \in 1 .. Len(p.items) : p.items[n] = i
  <2>1. ~w.shifted /\ ~p.moved
    BY <1>2, <1>7
  <2>2. WalkShape(w) /\ Placed(p) /\ \A i \in p.matched : Rank(q, i) <= p.meta.total
    BY <1>7, <2>1 DEF Good, Shaped, Walking, Complete, Unmoved
  <2>3. q \in TodosQueryDto /\ lo \in Nat /\ max \in Nat
    BY <1>1, PageFacts DEF Walks
  <2>4. Walked(w) = lo /\ Walked(v) = lo + max
    BY <1>2 DEF Walked
  <2>5. \A i \in F : Rank(q, i) \in Nat
    BY RankBounds, FilterFacts
  <2>6. \A n \in 1 .. Len(p.items) : /\ p.items[n] \in F
                                     /\ Rank(q, p.items[n]) = lo + n
                                     /\ n <= max
    BY <2>2 DEF Placed
  <2>7. \A m, n \in 1 .. Len(p.items) : p.items[m] = p.items[n] => m = n
    <3> SUFFICES ASSUME NEW m \in 1 .. Len(p.items), NEW n \in 1 .. Len(p.items),
                        p.items[m] = p.items[n]
                 PROVE  m = n
      OBVIOUS
    <3>1. lo + m = lo + n
      BY <2>6
    <3> QED
      BY <2>3, <3>1
  <2>8. \A i \in Ids : Times(i, p.items) = IF here(i) THEN 1 ELSE 0
    <3>1. p.items \in Seq(Ids)
      BY <1>1 DEF Pages
    <3> QED
      BY <2>7, <3>1, TimesOnPage
  <2>9. ASSUME NEW i \in Ids, here(i)
        PROVE  v.shown[i] = 1 /\ i \in F /\ Rank(q, i) <= lo + max
    <3>1. PICK n \in 1 .. Len(p.items) : p.items[n] = i
      BY <2>9
    <3>2. i \in F /\ Rank(q, i) = lo + n /\ n <= max
      BY <2>6, <3>1
    <3>3. n \in Nat /\ n >= 1
      OBVIOUS
    <3>4. Rank(q, i) > lo /\ Rank(q, i) <= lo + max
      BY <2>3, <3>2, <3>3
    <3>5. w.shown[i] = 0
      <4>1. ~(Rank(q, i) <= lo)
        BY <2>3, <3>2, <3>3
      <4> QED
        BY <2>2, <2>4, <4>1 DEF WalkShape, ShownOnce
    <3>6. Times(i, p.items) = 1
      BY <2>8, <2>9
    <3>7. v.shown[i] = Min({w.shown[i] + Times(i, p.items), 2})
      BY <1>2
    <3>8. w.shown[i] + Times(i, p.items) = 1
      BY <3>5, <3>6
    <3>9. v.shown[i] = Min({1, 2})
      BY <3>7, <3>8, Zenon
    <3>10. v.shown[i] = 1
      BY <3>9, MinPair
    <3> QED
      BY <3>2, <3>4, <3>10
  <2>10. ASSUME NEW i \in Ids, ~here(i) PROVE v.shown[i] = w.shown[i]
    <3>1. Times(i, p.items) = 0
      BY <2>8, <2>10
    <3>2. v.shown[i] = Min({w.shown[i] + 0, 2})
      BY <1>2, <3>1
    <3>3. w.shown[i] \in Int /\ w.shown[i] <= 2 /\ w.shown[i] + 0 = w.shown[i]
      BY <1>3
    <3>4. v.shown[i] = Min({w.shown[i], 2})
      BY <3>2, <3>3, Zenon
    <3>5. Min({w.shown[i], 2}) = IF w.shown[i] <= 2 THEN w.shown[i] ELSE 2
      BY <3>3, MinPair
    <3> QED
      BY <3>3, <3>4, <3>5
  <2>11. ShownOnce(v)
    <3> SUFFICES ASSUME NEW i \in Ids
                 PROVE  \/ v.shown[i] = 0
                        \/ v.shown[i] = 1 /\ i \in F /\ Rank(q, i) <= lo + max
      BY <1>2, <2>4 DEF ShownOnce
    <3>1. CASE here(i)
      BY <2>9, <3>1
    <3>2. CASE ~here(i)
      <4>1. \/ w.shown[i] = 0
            \/ w.shown[i] = 1 /\ i \in F /\ Rank(q, i) <= lo
        BY <2>2, <2>4 DEF WalkShape, ShownOnce
      <4>2. i \in F /\ Rank(q, i) <= lo => Rank(q, i) <= lo + max
        BY <2>3, <2>5
      <4> QED
        BY <2>10, <3>2, <4>1, <4>2
    <3> QED
      BY <3>1, <3>2
  <2>12. ShownAll(v)
    <3> SUFFICES ASSUME w.first = 1, NEW i \in w.steady, i \in p.matched, Rank(q, i) <= lo + max
                 PROVE  v.shown[i] = 1
      BY <1>2, <2>4 DEF ShownAll
    <3>1. i \in Ids /\ i \in F
      BY <2>2, FilterTypes DEF WalkShape
    <3>2. CASE here(i)
      BY <2>9, <3>1, <3>2
    <3>3. CASE ~here(i)
      <4>1. ~(Rank(q, i) > lo)
        BY <2>2, <3>3 DEF Placed
      <4>2. Rank(q, i) <= lo
        BY <2>3, <2>5, <3>1, <4>1
      <4>3. w.shown[i] = 1
        BY <2>2, <2>4, <4>2 DEF WalkShape, ShownAll
      <4> QED
        BY <2>10, <3>1, <3>3, <4>3
    <3> QED
      BY <3>2, <3>3
  <2>13. v.steady \subseteq FilterQuery(v.query)
    BY <1>2, <2>2 DEF WalkShape
  <2> QED
    BY <2>11, <2>12, <2>13 DEF WalkShape
<1>8. Good(v)
  BY <1>1, <1>2, <1>5, <1>6, <1>7 DEF Good, Shaped
<1> QED
  BY <1>8 DEF v

-----------------------------------------------------------------------------
(* The steps of a client                                                   *)

LEMMA InvInit == Init => Inv
<1> SUFFICES ASSUME Init PROVE Inv
  OBVIOUS
<1> DEFINE q == CHOOSE k \in Queries : TRUE
           w == [WalkOf(q) EXCEPT !.stage = "idle"]
<1>1. q \in TodosQueryDto /\ row \in [Ids -> Todo \cup {Unset}]
  BY DEF Init
<1> HIDE DEF q
<1>2. Good(WalkOf(q))
  BY <1>1, WalkOfGood
<1>3. Good(w)
  <2>1. w \in Walks /\ w.stage = "idle"
    BY <1>2 DEF Good, Walks
  <2> QED
    BY <2>1 DEF Good, Shaped, Walking
<1>4. walker = [c \in Clients |-> w] /\ cache = {}
  BY DEF Init, q
<1> HIDE DEF w
<1>5. walker \in [Clients -> Walks] /\ \A v \in Held : v = w
  BY <1>3, <1>4 DEF Held, Good
<1>6. Table
  BY <1>1 DEF Init, Table, Live, Ids
<1>7. walks \in 0 .. MaxWalks
  BY DEF Init
<1> QED
  BY <1>3, <1>4, <1>5, <1>6, <1>7 DEF Inv

LEMMA BeginStep == ASSUME Inv, NEW c \in Clients, Begin(c) PROVE Inv'
<1>1. PICK q \in Queries : Becomes(c, WalkOf(q))
  BY DEF Begin
<1>2. Good(WalkOf(q))
  BY WalkOfGood DEF Inv, Table
<1>3. UNCHANGED <<table, cache>> /\ walks' \in 0 .. MaxWalks
  BY DEF Begin, Inv
<1> QED
  BY <1>1, <1>2, <1>3, ClientStep

(* A page found under a query is a page of that query.                     *)
LEMMA GetPageStep == ASSUME Inv, NEW c \in Clients, GetPage(c) PROVE Inv'
<1> DEFINE w == walker[c]
<1>1. /\ w.stage = "get" /\ UNCHANGED <<table, cache>> /\ walks' \in 0 .. MaxWalks
      /\ Good(w) /\ row \in [Ids -> Todo \cup {Unset}]
  BY HeldGood DEF GetPage, Inv, Table
<1>2. ASSUME NEW p \in Hits(w.query), Becomes(c, Answered(w, p)) PROVE Inv'
  <2>1. Complete(p) /\ p.query = w.query
    BY <1>2 DEF Hits, Key, Inv
  <2>2. Good(Answered(w, p))
    BY <1>1, <2>1, AnsweredGood
  <2> QED
    BY <1>1, <1>2, <2>2, ClientStep
<1>3. ASSUME Becomes(c, [w EXCEPT !.stage = "find"]) PROVE Inv'
  <2> DEFINE v == [w EXCEPT !.stage = "find"]
  <2>1. /\ v \in Walks /\ v.stage = "find" /\ v.query = w.query /\ v.shown = w.shown
        /\ v.first = w.first /\ v.steady = w.steady /\ v.shifted = w.shifted
    BY <1>1 DEF Good, Walks, Walking
  <2>2. Becomes(c, v)
    BY <1>3
  <2> HIDE DEF v
  <2>3. Good(v)
    BY <1>1, <2>1 DEF Good, Shaped, Walking, WalkShape, ShownOnce, ShownAll, Walked
  <2> QED
    BY <1>1, <2>2, <2>3, ClientStep
<1> QED
  BY <1>2, <1>3 DEF GetPage

(* Whatever order the database takes, equal keys being excluded, the page  *)
(* holds the todos of its places.                                          *)
LEMMA PageOfReading ==
  ASSUME row \in [Ids -> Todo \cup {Unset}], NEW q \in TodosQueryDto, Valid(q),
         NEW found \in FindMany(q)
  PROVE  Reading(PageOf(q, found))
<1> DEFINE p == PageOf(q, found)
           lo == Skip(q)
           max == Limit(q)
           F == FilterQuery(q)
<1>1. PICK s \in Ordered(q) :
        /\ found \in Seq(F)
        /\ Len(found) = PageLen(q)
        /\ \A n \in 1 .. Len(found) : found[n] = s[lo + n]
        /\ \A n \in 1 .. Len(found) : lo + n \in 1 .. Count(q) /\ n <= max
        /\ \A a \in 1 .. Count(q) : a > lo /\ a <= lo + max => a - lo \in 1 .. Len(found)
  BY FindManyFacts
<1>2. /\ p.items = found /\ p.query = q /\ p.matched = F
  BY DEF PageOf
<1>3. p \in Pages
  <2>1. found \in Seq(Ids)
    BY <1>1, FilterTypes, SeqOfSubset
  <2> QED
    BY <2>1, PageOfType
<1>4. ASSUME TellsApart(q) PROVE Placed(p)
  <2>1. \A a \in 1 .. Count(q) : Rank(q, s[a]) = a
    BY <1>4, RankIsPlace
  <2>2. lo \in Nat /\ max \in Nat /\ Count(q) \in Nat
    BY PageFacts, FilterFacts
  <2>3. ASSUME NEW n \in 1 .. Len(found)
        PROVE  found[n] \in F /\ Rank(q, found[n]) = lo + n /\ n <= max
    <3>1. found[n] \in F
      BY <1>1, ElementOfSeq
    <3> QED
      BY <1>1, <2>1, <3>1
  <2>4. ASSUME NEW i \in F, Rank(q, i) > lo, Rank(q, i) <= lo + max
        PROVE  \E n \in 1 .. Len(found) : found[n] = i
    <3>1. PICK a \in 1 .. Count(q) : s[a] = i
      BY OrderedFacts
    <3>2. Rank(q, i) = a
      BY <2>1, <3>1
    <3>3. a - lo \in 1 .. Len(found)
      BY <1>1, <2>4, <3>2
    <3>4. found[a - lo] = s[lo + (a - lo)]
      BY <1>1, <3>3
    <3>5. lo + (a - lo) = a
      BY <2>2
    <3> QED
      BY <3>1, <3>3, <3>4, <3>5
  <2> QED
    BY <1>2, <2>3, <2>4 DEF Placed
<1> HIDE DEF p
<1>5. Reading(p)
  BY <1>1, <1>2, <1>3, <1>4 DEF Reading, Unmoved
<1> QED
  BY <1>5 DEF p

LEMMA FindItemsStep == ASSUME Inv, NEW c \in Clients, FindItems(c) PROVE Inv'
<1> DEFINE w == walker[c]
<1>1. /\ w.stage = "find" /\ UNCHANGED <<table, cache>> /\ walks' \in 0 .. MaxWalks
      /\ Good(w) /\ row \in [Ids -> Todo \cup {Unset}]
  BY HeldGood DEF FindItems, Inv, Table
<1>2. PICK found \in FindMany(w.query) :
        Becomes(c, [w EXCEPT !.stage = "count", !.page = PageOf(w.query, found)])
  BY DEF FindItems
<1> DEFINE p == PageOf(w.query, found)
           v == [w EXCEPT !.stage = "count", !.page = p]
<1>3. w.query \in TodosQueryDto /\ Valid(w.query)
  BY <1>1 DEF Good, Walks, Walking
<1>4. Reading(p) /\ p.query = w.query
  BY <1>1, <1>3, PageOfReading DEF PageOf
<1>5. Becomes(c, v)
  BY <1>2
<1> HIDE DEF p
<1>6. /\ v \in Walks /\ v.stage = "count" /\ v.page = p /\ v.query = w.query
      /\ v.shown = w.shown /\ v.first = w.first /\ v.steady = w.steady /\ v.shifted = w.shifted
  BY <1>1, <1>4 DEF Good, Walks, Walking, Reading
<1> HIDE DEF v
<1>7. Good(v)
  BY <1>1, <1>3, <1>4, <1>6 DEF Good, Shaped, Walking, WalkShape, ShownOnce, ShownAll, Walked
<1> QED
  BY <1>1, <1>5, <1>7, ClientStep

(* With no commit since the items were read the total is of the list they  *)
(* are a slice of; and it counts every todo that had matched and still     *)
(* does.                                                                   *)
LEMMA MetaOfComplete ==
  ASSUME row \in [Ids -> Todo \cup {Unset}], NEW p, Reading(p)
  PROVE  Complete([p EXCEPT !.meta = Meta(p.query)])
<1> DEFINE r == [p EXCEPT !.meta = Meta(p.query)]
           q == p.query
<1>1. p \in Pages /\ q \in TodosQueryDto /\ Valid(q)
  BY DEF Reading, Pages
<1>2. /\ Limit(q) \in Nat \ {0} /\ Page(q) \in Nat \ {0} /\ Count(q) \in Nat
      /\ Skip(q) = (Page(q) - 1) * Limit(q)
  BY <1>1, PageFacts, FilterFacts DEF Skip
<1>3. /\ r.meta = Meta(q) /\ r.items = p.items /\ r.query = q /\ r.matched = p.matched
      /\ r.settled = p.settled /\ r.moved = p.moved /\ r \in Pages
  BY <1>1, <1>2 DEF Pages, Meta
<1>4. r.meta.limit = Limit(q) /\ r.meta.offset = Page(q) /\ r.meta.total = Count(q)
  BY <1>3 DEF Meta
<1> HIDE DEF r
<1>5. MetaFits(r)
  <2> SUFFICES ASSUME p.settled
               PROVE  Len(p.items) = IF Count(q) <= Skip(q) THEN 0
                                     ELSE Min({Limit(q), Count(q) - Skip(q)})
    BY <1>2, <1>3, <1>4 DEF MetaFits
  <2> QED
    BY DEF Reading, PageLen
<1>6. ASSUME Unmoved(r) PROVE Placed(r) /\ \A i \in r.matched : Rank(r.query, i) <= r.meta.total
  <2>1. Placed(p)
    BY <1>3, <1>6 DEF Unmoved, Reading
  <2>2. Placed(r)
    BY <1>3, <2>1 DEF Placed
  <2>3. ASSUME NEW i \in p.matched PROVE Rank(q, i) <= Count(q)
    <3>1. i \in FilterQuery(q)
      BY <2>1 DEF Placed
    <3>2. Rank(q, i) \in 1 .. Count(q)
      BY <3>1, RankBounds
    <3> QED
      BY <1>2, <3>2
  <2> QED
    BY <1>3, <1>4, <2>2, <2>3
<1>7. Complete(r)
  BY <1>1, <1>3, <1>4, <1>5, <1>6 DEF Complete
<1> QED
  BY <1>7 DEF r

LEMMA CountTotalStep == ASSUME Inv, NEW c \in Clients, CountTotal(c) PROVE Inv'
<1> DEFINE w == walker[c]
           p == [w.page EXCEPT !.meta = Meta(w.query)]
           v == [w EXCEPT !.stage = "set", !.page = p]
<1>1. /\ w.stage = "count" /\ UNCHANGED <<table, cache>> /\ walks' \in 0 .. MaxWalks
      /\ Good(w) /\ row \in [Ids -> Todo \cup {Unset}]
  BY HeldGood DEF CountTotal, Inv, Table
<1>2. Becomes(c, v)
  <2>1. w \in Walks
    BY <1>1 DEF Good
  <2> QED
    BY <2>1 DEF CountTotal, Walks
<1>3. w.page.query = w.query /\ Reading(w.page)
  BY <1>1 DEF Good
<1>4. Complete(p) /\ p.query = w.query
  <2>1. w.page \in Pages
    BY <1>3 DEF Reading
  <2> QED
    BY <1>1, <1>3, <2>1, MetaOfComplete DEF Pages
<1> HIDE DEF p
<1>5. /\ v \in Walks /\ v.stage = "set" /\ v.page = p /\ v.query = w.query
      /\ v.shown = w.shown /\ v.first = w.first /\ v.steady = w.steady /\ v.shifted = w.shifted
  BY <1>1, <1>4 DEF Good, Walks, Walking, Complete
<1> HIDE DEF v
<1>6. Good(v)
  BY <1>1, <1>4, <1>5 DEF Good, Shaped, Walking, WalkShape, ShownOnce, ShownAll, Walked
<1> QED
  BY <1>1, <1>2, <1>6, ClientStep

LEMMA SetPageStep == ASSUME Inv, NEW c \in Clients, SetPage(c) PROVE Inv'
<1> DEFINE w == walker[c]
<1>1. /\ w.stage = "set" /\ UNCHANGED table /\ walks' \in 0 .. MaxWalks
      /\ Good(w) /\ row \in [Ids -> Todo \cup {Unset}] /\ Becomes(c, Answered(w, w.page))
      /\ \A p \in cache' : p \in cache \/ p = w.page
  BY HeldGood DEF SetPage, Inv, Table
<1>2. w.page.query = w.query /\ Complete(w.page)
  BY <1>1 DEF Good
<1>3. Good(Answered(w, w.page))
  BY <1>1, <1>2, AnsweredGood
<1> QED
  BY <1>1, <1>2, <1>3, ClientStep

(* The next query asks for the page after this one, of the same size.      *)
LEMMA NextQuery ==
  ASSUME NEW q \in TodosQueryDto, Valid(q), NEW n \in TodosQueryDto,
         n = [q EXCEPT !.offset = Page(q) + 1]
  PROVE  Valid(n) /\ Page(n) = Page(q) + 1 /\ Limit(n) = Limit(q)
<1>1. n.offset = Page(q) + 1 /\ n.limit = q.limit
  BY DEF TodosQueryDto
<1>2. Page(q) \in Nat \ {0}
  BY PageFacts
<1>3. Or(n.offset, 0) = Page(q) + 1
  BY <1>1, <1>2 DEF Or
<1>4. Page(n) = Page(q) + 1
  <2>1. Page(q) + 1 \in Int /\ Page(q) + 1 >= 1
    BY <1>2
  <2>2. Page(n) = Max({Or(n.offset, 0), 1})
    BY DEF Page
  <2>3. Page(n) = Max({Page(q) + 1, 1})
    BY <1>3, <2>2
  <2> QED
    BY <2>1, <2>3, MaxPair
<1> QED
  BY <1>1, <1>4 DEF Valid, Limit

(* The new offset skips exactly the places covered, and changes neither    *)
(* the filter nor the order.                                               *)
LEMMA NextPageStep == ASSUME Inv, NEW c \in Clients, NextPage(c) PROVE Inv'
<1> DEFINE w == walker[c]
           q == w.query
           n == [q EXCEPT !.offset = Page(q) + 1]
           v == [w EXCEPT !.stage = "get", !.query = n]
<1>1. /\ w.stage = "answered" /\ UNCHANGED <<table, cache>> /\ walks' \in 0 .. MaxWalks
      /\ Good(w) /\ row \in [Ids -> Todo \cup {Unset}]
  BY HeldGood DEF NextPage, Inv, Table
<1>2. /\ w \in Walks /\ q \in TodosQueryDto /\ Valid(q) /\ Shown(w)
      /\ w.page.meta.offset = Page(q)
  BY <1>1 DEF Good, Walks, Walking, Shown, Complete
<1>3. Page(q) \in Nat \ {0} /\ Limit(q) \in Nat
  BY <1>2, PageFacts
<1>4. n \in TodosQueryDto
  BY <1>2, <1>3 DEF TodosQueryDto
<1>5. Valid(n) /\ Page(n) = Page(q) + 1 /\ Limit(n) = Limit(q)
  BY <1>2, <1>4, NextQuery
<1>6. /\ n.completed = q.completed /\ n.search = q.search /\ n.searchField = q.searchField
      /\ n.sortBy = q.sortBy /\ n.order = q.order
  BY <1>2 DEF TodosQueryDto
<1>7. Becomes(c, v)
  BY <1>2 DEF NextPage, Walks
<1> HIDE DEF n
<1>8. /\ v \in Walks /\ v.stage = "get" /\ v.query = n
      /\ v.shown = w.shown /\ v.first = w.first /\ v.steady = w.steady /\ v.shifted = w.shifted
  BY <1>2, <1>4 DEF Walks, Walking
<1> HIDE DEF v
<1>9. /\ FilterQuery(n) = FilterQuery(q)
      /\ \A i, j : Before(n, i, j) <=> Before(q, i, j)
  BY <1>6 DEF FilterQuery, Before, SortKey
<1>10. /\ \A i : Rank(n, i) = Rank(q, i)
       /\ TellsApart(n) <=> TellsApart(q)
  <2>1. ASSUME NEW i PROVE Rank(n, i) = Rank(q, i)
    <3>1. {j \in FilterQuery(n) : Before(n, j, i)} = {j \in FilterQuery(q) : Before(q, j, i)}
      BY <1>9
    <3> QED
      BY <3>1 DEF Rank
  <2> QED
    BY <1>9, <2>1 DEF TellsApart
<1>11. Walked(v) = Walked(w)
  <2>1. Walked(v) = (Page(n) - 1) * Limit(n)
    BY <1>8 DEF Walked, Skip
  <2>2. Walked(w) = (Page(q) - 1) * Limit(q) + Limit(q)
    BY <1>1 DEF Walked, Skip
  <2>3. \A p, m \in Nat : ((p + 1) - 1) * m = (p - 1) * m + m
    OBVIOUS
  <2> QED
    BY <1>3, <1>5, <2>1, <2>2, <2>3
<1>12. ASSUME ~w.shifted, TellsApart(q) PROVE WalkShape(v)
  <2>1. WalkShape(w)
    BY <1>1, <1>12 DEF Good, Shaped, Walking
  <2> QED
    BY <1>8, <1>9, <1>10, <1>11, <2>1 DEF WalkShape, ShownOnce, ShownAll
<1>13. Good(v)
  BY <1>5, <1>8, <1>10, <1>12 DEF Good, Shaped
<1> QED
  BY <1>1, <1>7, <1>13, ClientStep

-----------------------------------------------------------------------------
(* The commits                                                             *)

(* A PATCH body turns a todo into a todo.                                  *)
LEMMA UpdatedIsTodo ==
  ASSUME NEW todo \in Todo, NEW sent \in PatchBodies
  PROVE  UpdatedBy(todo, sent) \in Todo
<1> DEFINE u == UpdatedBy(todo, sent)
<1>1. /\ u = [f \in Fields |-> Or(UpdateDto(sent)[f], todo[f])]
      /\ UpdateDto(sent).title = sent.title
      /\ UpdateDto(sent).description = sent.description
      /\ UpdateDto(sent).completed = Or(sent.completed, FALSE)
  BY DEF UpdatedBy, UpdateDto, PatchBodies
<1>2. /\ u.title = Or(sent.title, todo.title)
      /\ u.description = Or(sent.description, todo.description)
      /\ u.completed = Or(Or(sent.completed, FALSE), todo.completed)
  BY <1>1 DEF Fields
<1>3. u.title \in Titles /\ u.description \in Descriptions \cup {Unset}
  BY <1>2 DEF Or, Todo, PatchBodies
<1>4. u.completed \in BOOLEAN
  BY <1>2 DEF Or, Todo, PatchBodies
<1>5. u = [title |-> u.title, description |-> u.description, completed |-> u.completed]
  BY <1>1 DEF Fields
<1> QED
  BY <1>3, <1>4, <1>5 DEF Todo

(* A commit that leaves the todos of a list that matched at their places.  *)
Keeps(q) ==
  /\ TellsApart(q)
  /\ FilterQuery(q) \subseteq FilterQuery(q)'
  /\ \A i \in FilterQuery(q) : Rank(q, i)' = Rank(q, i)
Harmless(q, add) == add /\ Appends(q)

(* A page stays complete: a commit that may move its todos marks it.       *)
LEMMA PageKept ==
  ASSUME NEW p, NEW add, Complete(p), Harmless(p.query, add) => Keeps(p.query)
  PROVE  Complete(MovedBy(p, add))'
<1> DEFINE r == MovedBy(p, add)
           q == p.query
<1>1. p \in Pages /\ Valid(q) /\ MetaFits(p)
  BY DEF Complete
<1>2. /\ r \in Pages /\ r.items = p.items /\ r.meta = p.meta /\ r.query = q
      /\ r.matched = p.matched /\ r.settled = p.settled
      /\ r.moved = (p.moved \/ ~Harmless(q, add))
  <2>1. (p.moved \/ ~Harmless(q, add)) \in BOOLEAN
    OBVIOUS
  <2>2. r = [p EXCEPT !.moved = (p.moved \/ ~Harmless(q, add))]
    BY <1>1 DEF MovedBy, Pages, Harmless
  <2> QED
    BY <1>1, <2>1, <2>2 DEF Pages
<1> HIDE DEF r
<1>3. (r \in Pages)' /\ Valid(r.query)' /\ MetaFits(r)'
  BY <1>1, <1>2 DEF MetaFits, Valid, Pages, Ids
<1>4. (r.meta.limit = Limit(r.query) /\ r.meta.offset = Page(r.query))'
  BY <1>2 DEF Complete, Limit, Page, Or
<1>5. Skip(q)' = Skip(q) /\ Limit(q)' = Limit(q)
  BY DEF Skip, Page, Limit, Or
<1>6. ASSUME ~r.moved
      PROVE  (Placed(r) /\ \A i \in r.matched : Rank(r.query, i) <= r.meta.total)'
  <2>1. ~p.moved /\ Harmless(q, add) /\ Keeps(q)
    BY <1>2, <1>6
  <2>2. Placed(p) /\ \A i \in p.matched : Rank(q, i) <= p.meta.total
    BY <2>1 DEF Complete, Unmoved, Keeps
  <2> QED
    BY <1>2, <1>5, <2>1, <2>2 DEF Placed, Keeps
<1>7. Complete(r)'
  BY <1>3, <1>4, <1>6 DEF Complete, Unmoved
<1> QED
  BY <1>7 DEF r

(* So does the page a client reads; a commit between its two statements    *)
(* unsettles it.                                                           *)
LEMMA ReadingKept ==
  ASSUME NEW p, NEW add, Reading(p), Harmless(p.query, add) => Keeps(p.query)
  PROVE  Reading([MovedBy(p, add) EXCEPT !.settled = FALSE])'
<1> DEFINE r == [MovedBy(p, add) EXCEPT !.settled = FALSE]
           q == p.query
<1>1. p \in Pages /\ Valid(q)
  BY DEF Reading
<1>2. /\ r \in Pages /\ r.items = p.items /\ r.query = q
      /\ r.matched = p.matched /\ r.settled = FALSE
      /\ r.moved = (p.moved \/ ~Harmless(q, add))
  <2>1. (p.moved \/ ~Harmless(q, add)) \in BOOLEAN
    OBVIOUS
  <2>2. MovedBy(p, add) = [p EXCEPT !.moved = (p.moved \/ ~Harmless(q, add))]
    BY <1>1 DEF MovedBy, Pages, Harmless
  <2> QED
    BY <1>1, <2>1, <2>2 DEF Pages
<1> HIDE DEF r
<1>3. (r \in Pages)' /\ Valid(r.query)'
  BY <1>1, <1>2 DEF Valid, Pages, Ids
<1>4. Skip(q)' = Skip(q) /\ Limit(q)' = Limit(q)
  BY DEF Skip, Page, Limit, Or
<1>5. ASSUME ~r.moved PROVE Placed(r)'
  <2>1. ~p.moved /\ Harmless(q, add) /\ Keeps(q)
    BY <1>2, <1>5
  <2>2. Placed(p)
    BY <2>1 DEF Reading, Unmoved, Keeps
  <2> QED
    BY <1>2, <1>4, <2>1, <2>2 DEF Placed, Keeps
<1>6. Reading(r)'
  BY <1>2, <1>3, <1>5 DEF Reading, Unmoved
<1> QED
  BY <1>6 DEF r

LEMMA WalkKept ==
  ASSUME NEW w, NEW add, Good(w), Harmless(w.query, add) => Keeps(w.query)
  PROVE  Good(ShiftedBy(w, add))'
<1> DEFINE q == w.query
           p == [MovedBy(w.page, add) EXCEPT !.settled = w.page.settled /\ w.stage # "count"]
           v == ShiftedBy(w, add)
<1>1. w \in Walks /\ w.page \in Pages
  BY DEF Good, Walks
<1>2. /\ p \in Pages /\ p.query = w.page.query /\ p.matched = w.page.matched
      /\ p.moved = (w.page.moved \/ ~Harmless(w.page.query, add))
  <2>1. /\ (w.page.moved \/ ~Harmless(w.page.query, add)) \in BOOLEAN
        /\ (w.page.settled /\ w.stage # "count") \in BOOLEAN
    OBVIOUS
  <2>2. MovedBy(w.page, add) = [w.page EXCEPT !.moved = (w.page.moved \/ ~Harmless(w.page.query, add))]
    BY <1>1 DEF MovedBy, Pages, Harmless
  <2> QED
    BY <1>1, <2>1, <2>2 DEF Pages
<1>3. w.stage = "count" => p = [MovedBy(w.page, add) EXCEPT !.settled = FALSE]
  OBVIOUS
<1>4. w.stage # "count" => p = MovedBy(w.page, add)
  <2> SUFFICES ASSUME w.stage # "count" PROVE p = MovedBy(w.page, add)
    OBVIOUS
  <2>1. MovedBy(w.page, add) \in Pages
    <3>1. (w.page.moved \/ ~Harmless(w.page.query, add)) \in BOOLEAN
      OBVIOUS
    <3>2. MovedBy(w.page, add) = [w.page EXCEPT !.moved = (w.page.moved \/ ~Harmless(w.page.query, add))]
      BY <1>1 DEF MovedBy, Pages, Harmless
    <3> QED
      BY <1>1, <3>1, <3>2 DEF Pages
  <2>2. MovedBy(w.page, add).settled = w.page.settled
    BY <1>1 DEF MovedBy, Pages
  <2>3. p = [MovedBy(w.page, add) EXCEPT !.settled = MovedBy(w.page, add).settled]
    <3>1. w.page.settled \in BOOLEAN
      BY <1>1 DEF Pages
    <3>2. (w.page.settled /\ w.stage # "count") = w.page.settled
      BY <3>1
    <3> QED
      BY <2>2, <3>2
  <2> HIDE DEF p
  <2> QED
    BY <2>1, <2>3 DEF Pages
<1>5. /\ v.stage = w.stage /\ v.query = q /\ v.page = p /\ v.shown = w.shown
      /\ v.first = w.first /\ v.steady = w.steady
      /\ v.shifted = (w.shifted \/ ~Harmless(q, add))
  BY <1>1 DEF ShiftedBy, Walks, Harmless
<1>6. v \in Walks
  <2>1. (w.shifted \/ ~Harmless(q, add)) \in BOOLEAN
    OBVIOUS
  <2>2. v = [w EXCEPT !.page = p, !.shifted = (w.shifted \/ ~Harmless(q, add))]
    BY <1>1 DEF ShiftedBy, Walks, Harmless
  <2> HIDE DEF v, p
  <2> QED
    BY <1>1, <1>2, <2>1, <2>2 DEF Walks
<1>7. w.stage = "count" => p.query = q /\ Reading(p)'
  BY <1>2, <1>3, ReadingKept DEF Good
<1>8. w.stage = "set" => p.query = q /\ Complete(p)'
  BY <1>2, <1>4, PageKept DEF Good
<1>9. w.stage = "answered" => /\ p.query = q /\ Complete(p)' /\ w.steady \subseteq p.matched
                              /\ (p.moved => w.shifted \/ ~Harmless(q, add))
  <2> SUFFICES ASSUME w.stage = "answered"
               PROVE  /\ p.query = q /\ Complete(p)' /\ w.steady \subseteq p.matched
                      /\ (p.moved => w.shifted \/ ~Harmless(q, add))
    OBVIOUS
  <2>1. Shown(w)
    BY DEF Good
  <2>2. Complete(MovedBy(w.page, add))'
    BY <2>1, PageKept DEF Shown
  <2>3. p = MovedBy(w.page, add)
    BY <1>4
  <2> HIDE DEF p
  <2> QED
    BY <1>2, <2>1, <2>2, <2>3 DEF Shown
<1> HIDE DEF v, p
<1>10. /\ (v \in Walks)' /\ (v.stage \in Walking => Valid(v.query))'
       /\ v.stage \in Walking <=> w.stage \in Walking
  BY <1>5, <1>6 DEF Good, Walks, Walking, Pages, Ids, Valid
<1>11. (v.stage = "answered" => Shown(v))'
  BY <1>5, <1>9 DEF Shown
<1>12. Shaped(v)'
  <2> SUFFICES ASSUME w.stage \in Walking, ~v.shifted PROVE WalkShape(v)'
    BY <1>5 DEF Shaped, Walking
  <2>1. ~w.shifted /\ Harmless(q, add) /\ Keeps(q)
    BY <1>5
  <2>2. WalkShape(w)
    BY <2>1 DEF Good, Shaped, Keeps
  <2>3. Walked(v)' = Walked(w)
    BY <1>5 DEF Walked, Skip, Limit, Page, Or
  <2> QED
    BY <1>5, <2>1, <2>2, <2>3 DEF WalkShape, ShownOnce, ShownAll, Keeps, Ids
<1>13. Good(v)'
  BY <1>5, <1>7, <1>8, <1>10, <1>11, <1>12 DEF Good
<1> QED
  BY <1>13 DEF v

LEMMA MutateStep ==
  ASSUME Inv, NEW add, Mutate(add), \A q : Harmless(q, add) => Keeps(q),
         row' \in [Ids -> Todo \cup {Unset}], created' \in 0 .. MaxTodos,
         (\A i \in Live : i <= created)'
  PROVE  Inv'
<1>1. /\ mutations < MaxMutations /\ mutations' = mutations + 1 /\ walks' = walks
      /\ cache' = {MovedBy(p, add) : p \in cache}
      /\ walker' = [c \in Clients |-> ShiftedBy(walker[c], add)]
  BY DEF Mutate
<1>2. ASSUME NEW p \in cache' PROVE Complete(p)'
  <2>1. PICK r \in cache : p = MovedBy(r, add)
    BY <1>1
  <2>2. Complete(MovedBy(r, add))'
    BY PageKept DEF Inv
  <2> QED
    BY <2>1, <2>2
<1>3. ASSUME NEW v, v \in Held' PROVE Good(v)' /\ v \in Walks
  <2>1. PICK c \in Clients : v = walker'[c]
    BY <1>3 DEF Held
  <2>2. PICK w : w = walker[c]
    OBVIOUS
  <2>3. v = ShiftedBy(w, add)
    BY <1>1, <2>1, <2>2
  <2>4. Good(ShiftedBy(w, add))'
    BY <2>2, HeldGood, WalkKept
  <2>5. Good(v)'
    BY <2>3, <2>4
  <2> QED
    BY <2>5 DEF Good, Walks, Walking, Pages, Ids
<1>4. walker' \in [Clients -> Walks] /\ Walks' = Walks
  <2>1. walker' = [c \in Clients |-> walker'[c]]
    BY <1>1
  <2>2. \A c \in Clients : walker'[c] \in Walks
    BY <1>3 DEF Held
  <2> QED
    BY <2>1, <2>2 DEF Walks, Walking, Pages, Ids
<1>5. Table'
  BY <1>1, SizesAssumption DEF Table, Inv, Ids
<1>6. walks' \in 0 .. MaxWalks
  BY <1>1 DEF Inv
<1> QED
  BY <1>2, <1>3, <1>4, <1>5, <1>6 DEF Inv

(* Sorted by creation, ascending, todos are in the order of their ids.     *)
LEMMA ByCreation ==
  ASSUME NEW q, Appends(q)
  PROVE  \A i, j : (Before(q, i, j) <=> i < j) /\ (Before(q, i, j)' <=> i < j)
<1>1. Or(q.sortBy, "title") = "createdAt" /\ Or(q.order, "desc") = "asc"
  BY DEF Appends, Or
<1>2. \A i : SortKey(q, i) = i /\ SortKey(q, i)' = i
  BY <1>1 DEF SortKey, Or
<1>3. \A i, j : /\ Before(q, i, j) <=> SortKey(q, i) < SortKey(q, j)
                /\ Before(q, i, j)' <=> SortKey(q, i)' < SortKey(q, j)'
  BY <1>1 DEF Before, Or
<1> QED
  BY <1>2, <1>3

(* Then a new todo comes after all others, whose places stay.              *)
LEMMA AppendKeeps ==
  ASSUME Table, CreateTodo, NEW q, Appends(q)
  PROVE  Keeps(q)
<1> DEFINE new == created + 1
           F == FilterQuery(q)
           G == FilterQuery(q)'
<1>1. created < MaxTodos /\ \E todo : row' = [row EXCEPT ![new] = todo]
  BY DEF CreateTodo
<1>2. row \in [Ids -> Todo \cup {Unset}] /\ created \in Nat
  BY DEF Table
<1>3. \A i \in Ids : i # new => row'[i] = row[i]
  BY <1>1, <1>2
<1>4. \A i \in Live' : i \in Live \/ i = new
  BY <1>3 DEF Live
<1>5. \A i \in Live : i \in Nat /\ i <= created /\ i # new
  BY <1>2 DEF Table, Live, Ids
<1>6. \A i \in Live : i \in Live' /\ row'[i] = row[i]
  BY <1>3, <1>5 DEF Live, Ids
<1>7. F \subseteq Live /\ G \subseteq Live'
  BY DEF FilterQuery
<1>8. F \subseteq G /\ \A i \in G : i \in F \/ i = new
  <2>1. \A i \in Live : i \in G <=> i \in F
    BY <1>6 DEF FilterQuery, Or
  <2> QED
    BY <1>4, <1>7, <2>1
<1>9. TellsApart(q)
  <2> SUFFICES ASSUME NEW i \in F, NEW j \in F, i # j PROVE i < j \/ j < i
    BY ByCreation DEF TellsApart
  <2> QED
    BY <1>5, <1>7
<1>10. ASSUME NEW i \in F PROVE Rank(q, i)' = Rank(q, i)
  <2>1. \A j \in G : j < i => j \in F
    <3> SUFFICES ASSUME new < i PROVE FALSE
      BY <1>8
    <3> QED
      BY <1>2, <1>5, <1>7
  <2>2. {j \in FilterQuery(q) : j < i}' = {j \in FilterQuery(q) : j < i}
    BY <1>8, <2>1
  <2>3. /\ {j \in FilterQuery(q) : Before(q, j, i)} = {j \in FilterQuery(q) : j < i}
        /\ {j \in FilterQuery(q) : Before(q, j, i)}' = {j \in FilterQuery(q) : j < i}'
    BY ByCreation
  <2> QED
    BY <2>2, <2>3 DEF Rank
<1> QED
  BY <1>8, <1>9, <1>10 DEF Keeps

LEMMA CreateTodoStep == ASSUME Inv, CreateTodo PROVE Inv'
<1>1. Mutate(TRUE) /\ created < MaxTodos /\ created' = created + 1
  BY DEF CreateTodo
<1>2. PICK title \in Titles, description \in Descriptions \cup {Unset}, completed \in BOOLEAN \cup {Unset} :
        row' = [row EXCEPT ![created + 1] =
                  [title |-> title, description |-> description, completed |-> Or(completed, FALSE)]]
  BY DEF CreateTodo
<1>3. row \in [Ids -> Todo \cup {Unset}] /\ created \in Nat /\ Table
  BY DEF Inv, Table
<1>4. Or(completed, FALSE) \in BOOLEAN
  BY DEF Or
<1>5. row' \in [Ids -> Todo \cup {Unset}]
  BY <1>2, <1>3, <1>4 DEF Todo
<1>6. created' \in 0 .. MaxTodos
  BY <1>1, <1>3, SizesAssumption
<1>7. (\A i \in Live : i <= created)'
  <2> SUFFICES ASSUME NEW i \in Live' PROVE i <= created'
    OBVIOUS
  <2>1. CASE i = created + 1
    BY <1>1, <1>3, <2>1
  <2>2. CASE i # created + 1
    <3>1. i \in Ids /\ row[i] # Unset
      BY <1>2, <1>3, <2>2 DEF Live, Ids
    <3>2. i \in Nat /\ i <= created
      BY <1>3, <3>1 DEF Table, Live, Ids
    <3> QED
      BY <1>1, <1>3, <3>2
  <2> QED
    BY <2>1, <2>2
<1>8. \A q : Harmless(q, TRUE) => Keeps(q)
  BY <1>3, AppendKeeps DEF Harmless
<1> QED
  BY <1>1, <1>5, <1>6, <1>7, <1>8, MutateStep

(* A commit that adds nothing moves whatever it may.                       *)
LEMMA OtherCommitStep ==
  ASSUME Inv, Mutate(FALSE), created' = created, row' \in [Ids -> Todo \cup {Unset}],
         Live' \subseteq Live
  PROVE  Inv'
<1>1. created' \in 0 .. MaxTodos /\ (\A i \in Live : i <= created)'
  BY DEF Inv, Table
<1>2. \A q : Harmless(q, FALSE) => Keeps(q)
  BY DEF Harmless
<1> QED
  BY <1>1, <1>2, MutateStep

LEMMA RemoveTodoStep == ASSUME Inv, NEW i \in Ids, RemoveTodo(i) PROVE Inv'
<1>1. row' = [row EXCEPT ![i] = Unset] /\ row \in [Ids -> Todo \cup {Unset}]
  BY DEF RemoveTodo, Inv, Table
<1>2. row' \in [Ids -> Todo \cup {Unset}] /\ Live' \subseteq Live
  BY <1>1 DEF Live
<1> QED
  BY <1>2, OtherCommitStep DEF RemoveTodo

LEMMA UpdateTodoStep == ASSUME Inv, NEW i \in Ids, UpdateTodo(i) PROVE Inv'
<1>1. i \in Live /\ row \in [Ids -> Todo \cup {Unset}] /\ row[i] \in Todo
  BY DEF UpdateTodo, Inv, Table, Live
<1>2. PICK sent \in PatchBodies : row' = [row EXCEPT ![i] = UpdatedBy(row[i], sent)]
  BY DEF UpdateTodo
<1>3. UpdatedBy(row[i], sent) \in Todo
  BY <1>1, UpdatedIsTodo
<1>4. row' \in [Ids -> Todo \cup {Unset}] /\ Live' \subseteq Live
  BY <1>1, <1>2, <1>3 DEF Live
<1> QED
  BY <1>4, OtherCommitStep DEF UpdateTodo

LEMMA InvNext == Inv /\ [Next]_vars => Inv'
<1> SUFFICES ASSUME Inv, [Next]_vars PROVE Inv'
  OBVIOUS
<1>1. ASSUME NEW c \in Clients,
             Begin(c) \/ GetPage(c) \/ FindItems(c) \/ CountTotal(c) \/ SetPage(c) \/ NextPage(c)
      PROVE  Inv'
  BY <1>1, BeginStep, GetPageStep, FindItemsStep, CountTotalStep, SetPageStep, NextPageStep
<1>2. CASE CreateTodo
  BY <1>2, CreateTodoStep
<1>3. ASSUME NEW i \in Ids, RemoveTodo(i) \/ UpdateTodo(i) PROVE Inv'
  BY <1>3, RemoveTodoStep, UpdateTodoStep
<1>4. CASE UNCHANGED vars
  <2>1. row' = row /\ created' = created /\ mutations' = mutations /\ walks' = walks
        /\ cache' = cache /\ walker' = walker
    BY <1>4 DEF vars, table
  <2>2. /\ \A p : Complete(p)' <=> Complete(p)
        /\ \A w : Good(w)' <=> Good(w)
    BY <2>1, SameRows
  <2>3. Table' /\ Walks' = Walks /\ Held' = Held
    BY <2>1 DEF Inv, Table, Live, Ids, Walks, Walking, Pages, Held
  <2> QED
    BY <2>1, <2>2, <2>3 DEF Inv
<1> QED
  BY <1>1, <1>2, <1>3, <1>4 DEF Next

-----------------------------------------------------------------------------
(* The theorems                                                            *)

(* The table, the cached pages and the walks keep their types              *)
(* (todos.service.ts, todos.repository.ts).                                *)
THEOREM TypeCorrect == Spec => []TypeOK
<1>1. Inv => TypeOK
  BY DEF Inv, Table, Complete, TypeOK
<1> QED
  BY <1>1, InvInit, InvNext, PTL DEF Spec

(* For every table, query and page size: the items of one answer, cached   *)
(* or read, fill the page that its meta says, if no commit fell between    *)
(* the two statements that read them (TodosRepository.findAll).            *)
THEOREM MetaMatchesItemsHolds == Spec => []MetaMatchesItems
<1>1. Inv => MetaMatchesItems
  <2> SUFFICES ASSUME Inv PROVE MetaMatchesItems
    OBVIOUS
  <2>1. \A p \in cache : MetaFits(p)
    BY DEF Inv, Complete
  <2>2. ASSUME NEW c \in Clients, walker[c].stage = "answered" PROVE MetaFits(walker[c].page)
    BY <2>2, HeldGood DEF Good, Shown, Complete
  <2> QED
    BY <2>1, <2>2 DEF MetaMatchesItems
<1> QED
  BY <1>1, InvInit, InvNext, PTL DEF Spec

(* When meta says there is no next page, every place has been covered.     *)
LEMMA EndedIsComplete ==
  ASSUME row \in [Ids -> Todo \cup {Unset}], NEW w, Good(w), Ended(w), ~w.shifted,
         TellsApart(w.query)
  PROVE  /\ \A i \in Ids : w.shown[i] <= 1
         /\ w.first = 1 => \A i \in w.steady : w.shown[i] = 1
<1> DEFINE q == w.query
           p == w.page
<1>1. w.stage = "answered" /\ ~HasNext(w) /\ Shown(w)
  BY DEF Ended, Good
<1>2. WalkShape(w)
  BY <1>1 DEF Good, Shaped, Walking
<1>3. /\ q \in TodosQueryDto /\ p.query = q /\ p.meta.limit = Limit(q) /\ p.meta.offset = Page(q)
      /\ p.meta.total \in Nat
  BY <1>1 DEF Shown, Complete, Pages
<1>4. Page(q) \in Nat \ {0} /\ Limit(q) \in Nat
  BY <1>3, PageFacts
<1>5. Walked(w) = Page(q) * Limit(q)
  <2>1. \A n, m \in Nat : (n - 1) * m + m = n * m
    OBVIOUS
  <2> QED
    BY <1>1, <1>4, <2>1 DEF Walked, Skip
<1>6. Walked(w) \in Nat
  <2>1. \A n, m \in Nat : n * m \in Nat
    OBVIOUS
  <2> QED
    BY <1>4, <1>5, <2>1
<1>7. ~(Walked(w) < p.meta.total)
  BY <1>1, <1>3, <1>5 DEF HasNext
<1>8. ASSUME NEW i \in w.steady PROVE Rank(q, i) <= Walked(w)
  <2>1. i \in FilterQuery(q)
    BY <1>2 DEF WalkShape
  <2>2. Rank(q, i) \in Nat
    BY <2>1, RankBounds, FilterFacts
  <2>3. Rank(q, i) <= p.meta.total
    BY <1>1, <1>3 DEF Shown, Complete, Unmoved
  <2> QED
    BY <1>3, <1>6, <1>7, <2>2, <2>3
<1>9. w.first = 1 => \A i \in w.steady : w.shown[i] = 1
  BY <1>2, <1>8 DEF WalkShape, ShownAll
<1>10. \A i \in Ids : w.shown[i] <= 1
  BY <1>2 DEF WalkShape, ShownOnce
<1> QED
  BY <1>9, <1>10

(* For every table, query, page size and set of clients, with pages from   *)
(* the cache or the table: a walk that meta ends has shown every todo that *)
(* matched at its start and on each of its pages exactly once, if the sort *)
(* key tells the matching todos apart and the commits since the oldest of  *)
(* these pages was read only added todos behind them                       *)
(* (TodosService.findAll, getPaginationQuery, TodosRepository.findAll).    *)
THEOREM WalkIsCompleteHolds == Spec => []WalkIsComplete
<1>1. Inv => WalkIsComplete
  <2> SUFFICES ASSUME Inv, NEW c \in Clients, Ended(walker[c]), ~walker[c].shifted,
                      TellsApart(walker[c].query)
               PROVE  /\ \A i \in Ids : walker[c].shown[i] <= 1
                      /\ walker[c].first = 1 =>
                           \A i \in walker[c].steady : walker[c].shown[i] = 1
    BY DEF WalkIsComplete
  <2> QED
    BY HeldGood, EndedIsComplete DEF Inv, Table
<1> QED
  BY <1>1, InvInit, InvNext, PTL DEF Spec

-----------------------------------------------------------------------------
(* What a PATCH keeps: every field that is not sent, but for a completed   *)
(* that is true.                                                           *)
OnlyCompletedIsReset ==
  \A i \in Live, sent \in PatchBodies : \A f \in Fields :
    sent[f] = Unset =>
      \/ UpdatedBy(row[i], sent)[f] = row[i][f]
      \/ f = "completed" /\ row[i].completed /\ ~UpdatedBy(row[i], sent).completed

(* The initializer of CreateTodoDto reaches the PATCH body and no other    *)
(* field of the todo (update-todo.dto.ts, TodosRepository.update).         *)
THEOREM OnlyCompletedIsResetHolds == Spec => []OnlyCompletedIsReset
<1>1. Inv => OnlyCompletedIsReset
  <2> SUFFICES ASSUME Inv, NEW i \in Live, NEW sent \in PatchBodies, NEW f \in Fields,
                      sent[f] = Unset
               PROVE  \/ UpdatedBy(row[i], sent)[f] = row[i][f]
                      \/ f = "completed" /\ row[i].completed /\ ~UpdatedBy(row[i], sent).completed
    BY DEF OnlyCompletedIsReset
  <2>1. row[i] \in Todo
    BY DEF Inv, Table, Live
  <2>2. /\ UpdateDto(sent).title = sent.title
        /\ UpdateDto(sent).description = sent.description
        /\ UpdateDto(sent).completed = Or(sent.completed, FALSE)
    BY DEF UpdateDto, PatchBodies
  <2>3. \A g \in Fields : UpdatedBy(row[i], sent)[g] = Or(UpdateDto(sent)[g], row[i][g])
    BY DEF UpdatedBy
  <2>4. CASE f = "title" \/ f = "description"
    BY <2>2, <2>3, <2>4 DEF Or, Fields
  <2>5. CASE f = "completed"
    <3>1. Unset # FALSE /\ sent.completed = Unset
      BY <2>5
    <3>2. UpdatedBy(row[i], sent).completed = FALSE
      BY <2>2, <2>3, <3>1 DEF Or, Fields
    <3>3. row[i].completed \in BOOLEAN
      BY <2>1 DEF Todo
    <3> QED
      BY <2>5, <3>2, <3>3
  <2> QED
    BY <2>4, <2>5 DEF Fields
<1> QED
  BY <1>1, InvInit, InvNext, PTL DEF Spec
=============================================================================
