--------------------------- MODULE MCTodoQueries ---------------------------
(* An instance of TodoQueries for TLC: query strings that meet every       *)
(* branch of the filter, the sort and the pagination.                      *)
EXTENDS TodoQueries

CONSTANT c1

NoQuery ==
  [completed |-> Unset, search |-> Unset, searchField |-> Unset,
   sortBy |-> Unset, order |-> Unset, limit |-> Unset, offset |-> Unset]

Refused == [NoQuery EXCEPT !.limit = 0]

SomeQueries ==
  {Refused,
   NoQuery,
   [NoQuery EXCEPT !.limit = 1, !.offset = 0, !.sortBy = "createdAt", !.order = "asc"],
   [NoQuery EXCEPT !.limit = 1, !.completed = TRUE, !.search = 1, !.sortBy = "createdAt"],
   [NoQuery EXCEPT !.limit = 1, !.search = 2, !.searchField = "description", !.offset = 1],
   [NoQuery EXCEPT !.limit = 1, !.completed = TRUE, !.sortBy = "completed"],
   [NoQuery EXCEPT !.limit = 1, !.sortBy = "title", !.order = "asc", !.offset = 2]}
=============================================================================
