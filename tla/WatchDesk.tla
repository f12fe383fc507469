----------------------------- MODULE WatchDesk -----------------------------
(***************************************************************************)
(* The watch list page (app/watchlists/watchlist-view.tsx).  Selecting a   *)
(* list shows its cached quotes and asks for its items; one interval polls *)
(* quotes, and is started anew whenever the items on screen change, for    *)
(* the list that is selected at that moment.  Items and quotes of the list *)
(* selected before may arrive late.                                        *)
(*                                                                         *)
(* A list of items, a list of quotes is abstracted to the watch list it is *)
(* of.                                                                     *)
(***************************************************************************)
EXTENDS Browser

CONSTANTS
  Lists,      \* the user's watch lists
  FirstList   \* the one that is selected first

ASSUME ListsAssumption ==
  FirstList \in Lists /\ None \notin Lists

VARIABLES
  activeWl,    \* the selected list, None while the lists are loading
  items,       \* the list whose items are on screen
  listQuotes,  \* the list whose quotes are on screen
  listCache,   \* localStorage mts_wl_quotes_<id>
  refreshing,  \* the list the interval polls, None without an interval
  listReqs     \* requests in flight: [what, list, mount]

watchVars == <<activeWl, items, listQuotes, listCache, refreshing, listReqs>>

ListReqs == [what : {"lists", "items", "quotes", "edit", "select"}, list : Lists, mount : Mounts]
ListReq(w, l, m) == [what |-> w, list |-> l, mount |-> m]
WatchOpen == page = "watch" /\ route = "here"

WatchInit ==
  /\ activeWl = None /\ items = None /\ listQuotes = None
  /\ listCache = [l \in Lists |-> None]
  /\ refreshing = None
  /\ listReqs = {}

WatchOpens ==
  /\ page = "watch"
  /\ Opening
  /\ listReqs' = listReqs \cup {ListReq("lists", FirstList, mount')}
  /\ UNCHANGED <<activeWl, items, listQuotes, listCache, refreshing>>

\* The interval is cleared; requests go on.
WatchLeaves ==
  /\ page = "watch"
  /\ Closing
  /\ activeWl' = None /\ items' = None /\ listQuotes' = None
  /\ refreshing' = None
  /\ UNCHANGED <<listCache, listReqs>>

\* The effect on activeWl: its cached quotes, and its items.
Activate(l, reqs) ==
  /\ activeWl' = l
  /\ IF l = activeWl
       THEN UNCHANGED listQuotes /\ listReqs' = reqs
       ELSE listQuotes' = listCache[l] /\ listReqs' = reqs \cup {ListReq("items", l, mount)}
  /\ UNCHANGED <<items, listCache, refreshing>>

\* The component that sent it is gone.
Ignored(r) ==
  /\ listReqs' = listReqs \ {r}
  /\ UNCHANGED <<activeWl, items, listQuotes, listCache, refreshing>>

\* The lists arrive: the first one is selected.  Or a list was created or
\* deleted.
ListsArrive(r) ==
  /\ r \in listReqs
  /\ r.what \in {"lists", "select"}
  /\ IF Alive(r.mount) THEN Activate(r.list, listReqs \ {r}) ELSE Ignored(r)
  /\ UNCHANGED browserVars

SelectList(l) ==
  /\ page = "watch"
  /\ activeWl # None
  /\ Clicking
  /\ Activate(l, listReqs)

\* handleCreate, handleDeleteWl: once the server has answered, the new list, or
\* the first of those that were left at the click, is selected.  (The last
\* list is not deleted.)
ChangeLists(l) ==
  /\ page = "watch"
  /\ activeWl # None
  /\ Clicking
  /\ listReqs' = listReqs \cup {ListReq("select", l, mount)}
  /\ UNCHANGED <<activeWl, items, listQuotes, listCache, refreshing>>

\* Mutant: an interval that runs is left alone.
ItemsNowIntervalKept(l, reqs) ==
  /\ items' = l
  /\ \/ /\ activeWl # None
        /\ refreshing' = IF refreshing = None THEN activeWl ELSE refreshing
        /\ listReqs' = reqs \cup {ListReq("quotes", activeWl, mount)}
     \/ refreshing' = None /\ listReqs' = reqs
  /\ UNCHANGED <<activeWl, listQuotes, listCache>>

\* The effect on items: clear the interval, and unless they are empty load the
\* quotes of the list that is selected now and poll them.
ItemsNow(l, reqs) ==
  /\ items' = l
  /\ \/ /\ activeWl # None
        /\ refreshing' = activeWl
        /\ listReqs' = reqs \cup {ListReq("quotes", activeWl, mount)}
     \/ refreshing' = None /\ listReqs' = reqs
  /\ UNCHANGED <<activeWl, listQuotes, listCache>>

\* Items arrive, of whatever list they were asked for.
ItemsArrive(r) ==
  /\ r \in listReqs
  /\ r.what = "items"
  /\ IF Alive(r.mount) THEN ItemsNow(r.list, listReqs \ {r}) ELSE Ignored(r)
  /\ UNCHANGED browserVars

\* The refresh button.
Refresh ==
  /\ page = "watch"
  /\ activeWl # None
  /\ Clicking
  /\ listReqs' = listReqs \cup {ListReq("quotes", activeWl, mount)}
  /\ UNCHANGED <<activeWl, items, listQuotes, listCache, refreshing>>

\* handleAdd, handleRemove: sent for the selected list, once its tab is shown.
EditItems ==
  /\ page = "watch"
  /\ activeWl # None
  /\ Clicking
  /\ listReqs' = listReqs \cup {ListReq("edit", activeWl, mount)}
  /\ UNCHANGED <<activeWl, items, listQuotes, listCache, refreshing>>

\* The symbol joins or leaves the items on screen, and is the first of them when
\* it was added before any had arrived.
EditAnswered(r) ==
  /\ r \in listReqs
  /\ r.what = "edit"
  /\ IF Alive(r.mount)
       THEN ItemsNow(IF items = None THEN r.list ELSE items, listReqs \ {r})
       ELSE Ignored(r)
  /\ UNCHANGED browserVars

\* setInterval(loadQuotes, 30000), with the list it closed over.
WatchTick ==
  /\ WatchOpen
  /\ refreshing # None
  /\ ListReq("quotes", refreshing, mount) \notin listReqs
  /\ listReqs' = listReqs \cup {ListReq("quotes", refreshing, mount)}
  /\ UNCHANGED <<activeWl, items, listQuotes, listCache, refreshing, browserVars>>

\* Quotes arrive: shown, whatever list is selected by now, and cached under the
\* list of the closure that asked for them.
ListQuotesArrive(r) ==
  /\ r \in listReqs
  /\ r.what = "quotes"
  /\ listReqs' = listReqs \ {r}
  /\ listQuotes' = IF Alive(r.mount) THEN r.list ELSE listQuotes
  /\ listCache' = [listCache EXCEPT ![r.list] = r.list]
  /\ UNCHANGED <<activeWl, items, refreshing, browserVars>>

\* Any of them fails: what is on screen stays.
ListReqFails(r) ==
  /\ r \in listReqs
  /\ Fail
  /\ Ignored(r)

WatchNext ==
  \/ WatchOpens \/ WatchLeaves \/ WatchTick \/ EditItems \/ Refresh
  \/ \E l \in Lists : SelectList(l) \/ ChangeLists(l)
  \/ \E r \in listReqs :
       \/ ListsArrive(r) \/ ItemsArrive(r) \/ EditAnswered(r)
       \/ ListQuotesArrive(r) \/ ListReqFails(r)

\* The interval fires while the page is open; items and quotes that were asked for
\* are answered, or the request fails.
WatchFairness ==
  /\ WF_<<watchVars, browserVars>>(WatchTick)
  /\ \A r \in {q \in ListReqs : q.what \in {"items", "quotes"}} :
       WF_<<watchVars, browserVars>>(ItemsArrive(r) \/ ListQuotesArrive(r) \/ ListReqFails(r))

WatchTypeOK ==
  /\ activeWl \in Lists \cup {None}
  /\ items \in Lists \cup {None}
  /\ listQuotes \in Lists \cup {None}
  /\ listCache \in [Lists -> Lists \cup {None}]
  /\ refreshing \in Lists \cup {None}
  /\ listReqs \subseteq ListReqs

(***************************************************************************)
(* Properties.                                                             *)
(***************************************************************************)

\* While no request fails, the quotes of another list do not stay on screen under
\* the list that was selected last, although an interval outlives the selection it
\* was started for, items and quotes of either list arrive late, and late items
\* start an interval of their own.
ListQuotesSettle ==
  [](expired = {} /\ faults = 0) =>
    \A l \in Lists :
       <>[](WatchOpen /\ activeWl = l /\ refreshing # None) => <>[](listQuotes = l)
=============================================================================
