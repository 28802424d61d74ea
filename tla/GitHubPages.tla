----------------------------- MODULE GitHubPages -----------------------------
(***************************************************************************)
(* #readPages and collectPages of packages/runner/src/adapters/github.ts:  *)
(* a listing read page by page while GitHub changes it. Runs come newest   *)
(* first and leave the list when they end; the jobs of one attempt are     *)
(* only ever added, at the end.                                            *)
(***************************************************************************)
EXTENDS Naturals, Sequences, SequencesExt, FiniteSets

CONSTANTS
    PageSize,       \* per_page
    FirstItems,     \* bound: items listed when the reading begins
    MaxChanges      \* bound: items added or removed while it lasts

PagesAssumption == PageSize \in Nat \ {0} /\ FirstItems \in Nat /\ MaxChanges \in Nat

VARIABLES
    mode,       \* "runs" or "jobs"
    list,       \* the items GitHub lists now, as numbers
    steady,     \* history: items listed since the reading began
    pages,      \* the pages read so far
    done,       \* #readPages returned
    changes

vars == <<mode, list, steady, pages, done, changes>>

Init ==
    /\ mode \in {"runs", "jobs"}
    /\ \E n \in 0..FirstItems : list = [i \in 1..n |-> i]
    /\ steady = ToSet(list) /\ pages = <<>> /\ done = FALSE /\ changes = 0

NewItem == FirstItems + changes + 1

Add ==
    /\ changes < MaxChanges /\ ~done /\ changes' = changes + 1
    /\ list' = IF mode = "runs" THEN <<NewItem>> \o list ELSE Append(list, NewItem)
    /\ UNCHANGED <<mode, steady, pages, done>>

Leave ==
    /\ mode = "runs" /\ changes < MaxChanges /\ ~done /\ changes' = changes + 1
    /\ \E i \in DOMAIN list : list' = RemoveAt(list, i) /\ steady' = steady \ {list[i]}
    /\ UNCHANGED <<mode, pages, done>>

Slice(n) == SubSeq(list, (n - 1) * PageSize + 1, IF n * PageSize < Len(list) THEN n * PageSize ELSE Len(list))

\* nextPage: the Link header names a next page.
HasNext(n) == n * PageSize < Len(list)

\* One GET: items, total_count and a Link to the next page. The reading ends
\* with the last page, with an answer other than 200 and with a page that
\* does not parse; both leave an entry without items.
ReadPage ==
    /\ ~done
    /\ LET n == Len(pages) + 1
       IN  /\ pages' = Append(pages, [ok |-> TRUE, items |-> Slice(n), total |-> Len(list), next |-> HasNext(n)])
           /\ done' = ~HasNext(n)
    /\ UNCHANGED <<mode, list, steady, changes>>

FailPage ==
    /\ ~done /\ done' = TRUE
    /\ pages' = Append(pages, [ok |-> FALSE, items |-> <<>>, total |-> 0, next |-> FALSE])
    /\ UNCHANGED <<mode, list, steady, changes>>

Next == Add \/ Leave \/ ReadPage \/ FailPage
Spec == Init /\ [][Next]_vars
-----------------------------------------------------------------------------
Items == UNION {ToSet(pages[i].items) : i \in DOMAIN pages}

\* collectPages: every page was read, all agree on total_count, and that many
\* different items were seen.
Complete ==
    /\ pages # <<>> /\ \A i \in DOMAIN pages : pages[i].ok /\ pages[i].total = pages[1].total
    /\ Cardinality(Items) = pages[1].total

\* A complete listing has every item that was listed from the first page to
\* the last, however many items came and went between the pages.
CompleteMissesNothing == (done /\ Complete) => steady \subseteq Items
=============================================================================
