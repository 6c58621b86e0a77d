------------------------------- MODULE Screen -------------------------------
(***************************************************************************)
(* A page of the client, from the time it is mounted: its list, the loads  *)
(* that fill it, its dialogs, and the handlers that send changes to the    *)
(* server and load again.  Requests are answered in any order, refused or  *)
(* lost.  What differs between pages is in Design, a function from pages   *)
(* to the records of PageDesign.  The server is the set of changes it has  *)
(* made: a load answers with those that are made when it is served.        *)
(*                                                                         *)
(* While a dialog is open the page behind it takes no clicks.  Nobody else *)
(* changes the data, and the user does not leave the page: an answer for a *)
(* page that is gone is dropped by React.                                  *)
(***************************************************************************)
EXTENDS Naturals, Sequences, FiniteSets

CONSTANTS
  None,          \* neither a row nor a query; nor is "new" a row
  Design,        \* the pages
  Things,        \* the rows that controls are used on
  Queries,       \* the filters and page numbers that can be asked for
  Slots,         \* for the handlers in progress
  MaxRequests    \* loads, changes and fetches in a behaviour

VARIABLES
  page,          \* the page that is open
  ui,            \* its state
  loads,         \* the loads in flight, oldest first
  calls,         \* the handlers in progress
  fetches,       \* requests of dialogs for the thing they are opened for
  sent,          \* the requests so far
  committed,     \* the changes the server has made
  amiss,         \* why the rows may differ from the server's
  astray         \* what a request did to a dialog that is not its own

vars == <<page, ui, loads, calls, fetches, sent, committed, amiss, astray>>

Loader  == Design[page].load
Layout  == Design[page].view
Acts    == Design[page].acts
List    == Design[page].list
Keys    == Design[page].keys
Dialogs == Design[page].dialogs

Idle    == \A s \in Slots : calls[s] = None
Current == [query |-> ui.query, has |-> committed]
----------------------------------------------------------------------------
(* What the screen shows and offers.                                       *)

Flags == ui.busy \cup {f \in {"loading"} : ui.loading} \cup {f \in {"fetching"} : ui.fetching}

LoadingShown == /\ ui.loading
                /\ Layout.loading = "first" => ~ui.loaded
                /\ Layout.loading = "without rows" => ui.rows = None
PageShown    == LoadingShown => Layout.covers = "list"
ListShown    == ~LoadingShown /\ (Layout.failure = "instead" => ~ui.error)
FailureShown == ui.error /\ ~LoadingShown
Open         == {d \in DOMAIN Dialogs : ui.open[d] # None}

Free(unless) == Flags \cap unless = {}
Fetching(d)  == \E f \in fetches : f.dialog = d /\ f.mounted

\* A control of the page, of a row, and of a dialog.
PageOffers(c)      == PageShown /\ Open = {} /\ c \in DOMAIN Layout.offers /\ Free(Layout.offers[c])
ListOffers(c)      == PageShown /\ ListShown /\ Open = {} /\ ui.rows # None /\ c \in DOMAIN List /\ Free(List[c])
DialogOffers(d, c) ==
  /\ PageShown /\ d \in Open /\ c \in DOMAIN Dialogs[d].offers /\ Free(Dialogs[d].offers[c])
  /\ "offers" \in Dialogs[d].waits /\ ui.open[d] # "new" => ui.detail[d] # None
----------------------------------------------------------------------------
(* Loading.                                                                *)

\* A load raises "loading" or "fetching", or neither.
Loud(initial)  == Loader.raises = "always" \/ initial
Quiet(initial) == Loader.raises = "kind" /\ ~initial

\* Mutant: a load does not overtake those in flight.
LoadBeside(u, initial, query, slot) ==
  /\ sent < MaxRequests /\ sent' = sent + 1
  /\ ui' = [u EXCEPT !.loading = @ \/ Loud(initial), !.fetching = @ \/ Quiet(initial), !.error = FALSE]
  /\ loads' = Append(loads, [initial |-> initial, query |-> query, slot |-> slot,
                             overtaken |-> FALSE, behind |-> FALSE, data |-> None])

Load(u, initial, query, slot) ==
  /\ sent < MaxRequests /\ sent' = sent + 1
  /\ ui' = [u EXCEPT !.loading = @ \/ Loud(initial), !.fetching = @ \/ Quiet(initial), !.error = FALSE]
  /\ loads' = Append([i \in DOMAIN loads |-> [loads[i] EXCEPT !.overtaken = TRUE]],
                     [initial |-> initial, query |-> query, slot |-> slot,
                      overtaken |-> FALSE, behind |-> FALSE, data |-> None])

Served(i) ==
  /\ loads[i].data = None
  /\ loads' = [loads EXCEPT ![i].data = [has |-> committed]]
  /\ UNCHANGED <<page, ui, calls, fetches, sent, committed, amiss, astray>>

Failed(load) == load.data = None      \* refused, or the request or its answer is lost

Filled(u, load) ==
  [u EXCEPT !.rows = [query |-> load.query, has |-> load.data.has], !.loaded = TRUE,
            !.error = @ /\ ~Loader.absolves]

Disappointed(u, load) ==
  IF Loader.tells = "always" \/ load.initial \/ u.loaded
  THEN [u EXCEPT !.rows = IF Loader.failure = "empties" THEN None ELSE @, !.error = TRUE]
  ELSE u

\* Mutant: a flag is lowered after a success only.
LoweredOnSuccess(u, load) ==
  [u EXCEPT !.loading  = @ /\ ~(load.data # None /\ (Loud(load.initial) \/ Loader.lowers = "both")),
            !.fetching = @ /\ ~(load.data # None /\ (Quiet(load.initial) \/ Loader.lowers = "both"))]

Lowered(u, load) ==
  [u EXCEPT !.loading  = @ /\ ~(Loud(load.initial) \/ Loader.lowers = "both"),
            !.fetching = @ /\ ~(Quiet(load.initial) \/ Loader.lowers = "both")]

Finished(u, call) == IF call.act.local /\ call.own = {} THEN u ELSE [u EXCEPT !.busy = @ \ {call.act.flag}]

\* The answer, or the failure, of a load.  The handler that awaits it ends.
Settle(i) ==
  LET load    == loads[i]
      ignored == Loader.guarded /\ load.overtaken
      failed  == Failed(load) /\ ~ignored
      applied == ~Failed(load) /\ ~ignored
      after   == IF ignored THEN ui
                 ELSE Lowered(IF failed THEN Disappointed(ui, load) ELSE Filled(ui, load), load)
      reasons == {why \in {"out of order"} : applied /\ load.behind}
                   \cup {why \in {"old query"} : applied /\ load.query # ui.query}
                   \cup {why \in {"untold"} : failed /\ ~after.error}
                   \cup {why \in {"old failure"} : failed /\ after.error /\ load.overtaken}
  IN /\ ui' = IF load.slot = 0 THEN after ELSE Finished(after, calls[load.slot])
     /\ calls' = IF load.slot = 0 THEN calls ELSE [calls EXCEPT ![load.slot] = None]
     /\ loads' = [j \in 1..(Len(loads) - 1) |->
                    IF j < i THEN [loads[j] EXCEPT !.behind = @ \/ applied] ELSE loads[j + 1]]
     /\ amiss' = IF after.rows = Current /\ ~after.error /\ \A j \in DOMAIN loads \ {i} : loads[j].data = None
                 THEN {} ELSE amiss \cup reasons
     /\ UNCHANGED <<page, fetches, sent, committed, astray>>

\* A filter or a page number is changed: the effect that depends on it loads.  What was
\* typed into a search field is asked for 400 ms later, when a dialog may be open.
Ask(c) ==
  /\ PageOffers(c) \/ ListOffers(c) \/ (c = "search" /\ c \in DOMAIN Layout.offers)
  /\ \E q \in Queries \ {ui.query}, initial \in BOOLEAN :
       /\ Loader.asks = "once loaded" => initial = ~ui.loaded
       /\ Load([ui EXCEPT !.query = q], initial, q, 0)
  /\ UNCHANGED <<page, calls, fetches, committed, amiss, astray>>

\* "retry" beside a failure loads like the first time, "retry quietly" like a refresh.
Reload(c) ==
  /\ c \in {"retry", "retry quietly"} => FailureShown
  /\ PageOffers(c)
  /\ Load(ui, c = "retry", ui.query, 0)
  /\ UNCHANGED <<page, calls, fetches, committed, amiss, astray>>
----------------------------------------------------------------------------
(* Dialogs.                                                                *)

Resets(ds)   == UNION {Dialogs[d].resets : d \in ds}
Left(u, ds)  == [u EXCEPT !.open = [d \in DOMAIN @ |-> IF d \in ds THEN None ELSE @[d]],
                          !.busy = @ \ Resets(ds)]
Opened(u, d, x) == [u EXCEPT !.open[d] = x, !.detail[d] = None, !.busy = @ \ Resets({d})]

\* Requests that are open for a dialog when it is left go on.
Unmounted(ds) == {[f EXCEPT !.mounted = @ /\ f.dialog \notin ds] : f \in fetches}
Disowned(ds)  == [s \in Slots |-> IF calls[s] = None THEN None ELSE [calls[s] EXCEPT !.own = @ \ ds]]

\* Opening a dialog for a row fetches what it needs.
Fetch(d, x, before) ==
  IF Dialogs[d].fetches = "nothing" \/ x = "new" THEN fetches' = before /\ UNCHANGED sent
  ELSE /\ sent < MaxRequests /\ sent' = sent + 1
       /\ fetches' = before \cup {[dialog |-> d, thing |-> x, slot |-> 0, mounted |-> TRUE]}

OpenDialog(d, x) ==
  /\ IF x = "new" THEN PageOffers(d) ELSE ListOffers(d)
  /\ ui' = Opened(ui, d, x)
  /\ Fetch(d, x, fetches)
  /\ UNCHANGED <<page, loads, calls, committed, amiss, astray>>

\* A dialog gives way to another one for the same row.
Replace(d, e) ==
  /\ e \in DOMAIN Dialogs /\ DialogOffers(d, e)
  /\ ui' = Opened(Left(ui, {d}), e, ui.open[d])
  /\ Fetch(e, ui.open[d], Unmounted({d}))
  /\ calls' = Disowned({d})
  /\ UNCHANGED <<page, loads, committed, amiss, astray>>

Leave(ds) ==
  /\ ds # {}
  /\ ui' = Left(ui, ds)
  /\ fetches' = Unmounted(ds)
  /\ calls' = Disowned(ds)
  /\ UNCHANGED <<page, loads, sent, committed, amiss, astray>>

\* Mutant: the buttons of a dialog do not wait for what is in progress.
CloseAnyTime(d) ==
  /\ PageShown /\ d \in Open
  /\ "leave" \in Dialogs[d].waits => ~Fetching(d)
  /\ Leave({d})

CloseDialog(d) ==
  /\ PageShown /\ d \in Open /\ Free(Dialogs[d].leave)
  /\ "leave" \in Dialogs[d].waits => ~Fetching(d)
  /\ Leave({d})

Escape == Leave({d \in Open \cap DOMAIN Keys : Free(Keys[d])})

FetchAgain(d) ==
  /\ PageShown /\ d \in Open /\ ui.detail[d] = None /\ ~Fetching(d) /\ "fetch again" \in DOMAIN Dialogs[d].offers
  /\ Fetch(d, ui.open[d], fetches)
  /\ UNCHANGED <<page, ui, loads, calls, committed, amiss, astray>>

\* The answer, or a failure, for a dialog.  "unguarded": it is shown in the dialog
\* whatever that is open for by now.  "mounted": it is dropped with the dialog it was
\* for.  "whole": it replaces the dialog's state, the thing it is open for included.
\* A handler that awaited it loads the list.
Receive(f, answered) ==
  LET d     == f.dialog
      how   == Dialogs[d].fetches
      shown == [ui EXCEPT !.detail[d] = IF answered THEN f.thing ELSE None]
      after == CASE how = "whole"     -> [shown EXCEPT !.open[d] = f.thing]
                 [] how = "mounted"   -> IF f.mounted THEN shown ELSE ui
                 [] how = "unguarded" -> shown
  IN /\ fetches' = fetches \ {f}
     /\ IF f.slot = 0 THEN ui' = after /\ UNCHANGED <<loads, calls, sent>>
        ELSE /\ Load(after, FALSE, calls[f.slot].query, f.slot)
             /\ calls' = [calls EXCEPT ![f.slot].stage = "loading"]
     /\ astray' = astray \cup {what \in {"reopens"} : d \notin Open /\ after.open[d] # None}
                         \cup {what \in {"mixes"} : d \in Open /\ after.detail[d] \notin {None, after.open[d]}}
     /\ UNCHANGED <<page, committed, amiss>>
----------------------------------------------------------------------------
(* Handlers.                                                               *)

\* A handler keeps the query, and the thing its dialog is open for, of the moment it is
\* started.  A form may be sent twice where nothing disables it.
Start(act, from) ==
  LET chosen == Acts[act]
      own    == chosen.closes \cap from
  IN /\ sent < MaxRequests /\ sent' = sent + 1
     /\ \E s \in Slots :
          /\ calls[s] = None /\ \A t \in Slots : calls[t] = None => s <= t
          /\ calls' = [calls EXCEPT ![s] =
               [act |-> chosen, query |-> ui.query, own |-> own, stage |-> "sent", change |-> 0,
                thing |-> IF chosen.fetches \in Open THEN ui.open[chosen.fetches] ELSE None]]
     /\ ui' = [ui EXCEPT !.busy = @ \cup {chosen.flag}]
     /\ astray' = astray \cup {what \in {"twice"} : \E s \in Slots : calls[s] # None /\ calls[s].own \cap own # {}}
     /\ UNCHANGED <<page, loads, fetches, committed, amiss>>

\* The server makes the change; the answer may be lost on the way.
Commit(s) ==
  /\ calls[s] # None /\ calls[s].stage = "sent"
  /\ LET change == Cardinality(committed) + 1 IN
     /\ committed' = committed \cup {change}
     /\ \/ calls' = [calls EXCEPT ![s].stage = "done", ![s].change = change] /\ UNCHANGED amiss
        \/ calls' = [calls EXCEPT ![s].stage = "refused"] /\ amiss' = amiss \cup {"lost answer"}
  /\ UNCHANGED <<page, ui, loads, fetches, sent, astray>>

Refuse(s) ==
  /\ calls[s] # None /\ calls[s].stage = "sent"
  /\ calls' = [calls EXCEPT ![s].stage = "refused"]
  /\ UNCHANGED <<page, ui, loads, fetches, sent, committed, amiss, astray>>

\* The continuation of a handler after its request: dialogs close, whatever they are
\* open for by now, and the list is loaded with the query the handler was started with.
Answered(s) ==
  LET call   == calls[s]
      act    == call.act
      reset  == IF act.resets THEN Finished(ui, call) ELSE ui
      closed == Left(reset, act.closes)
      freed  == Finished(closed, call)
      others == [Disowned(act.closes) EXCEPT ![s] = None]
      wrong  == {d \in act.closes \cap Open : d \notin call.own}
  IN /\ call # None /\ call.stage = "done"
     /\ astray' = astray \cup {what \in {"closes"} : wrong # {}}
     /\ \/ /\ call.thing # None
           /\ ui' = closed
           /\ fetches' = fetches \cup {[dialog |-> act.fetches, thing |-> call.thing, slot |-> s, mounted |-> TRUE]}
           /\ calls' = [Disowned(act.closes) EXCEPT ![s].stage = "fetching"]
           /\ UNCHANGED <<loads, sent>>
        \/ /\ call.thing = None /\ "awaits load" \in act.then
           /\ Load(closed, FALSE, call.query, s)
           /\ calls' = [Disowned(act.closes) EXCEPT ![s].stage = "loading"]
           /\ fetches' = Unmounted(act.closes)
        \/ /\ "starts load" \in act.then
           /\ Load(freed, FALSE, call.query, 0)
           /\ calls' = others /\ fetches' = Unmounted(act.closes)
        \/ /\ "steps back" \in act.then
           /\ \E q \in Queries \ {call.query} : Load([freed EXCEPT !.query = q], ~ui.loaded, q, 0)
           /\ calls' = others /\ fetches' = Unmounted(act.closes)
     /\ UNCHANGED <<page, committed, amiss>>

\* A refused request, or a lost answer, is told; some handlers load again even then.
Refused(s) ==
  LET call == calls[s]
      act  == call.act
  IN /\ call # None /\ call.stage = "refused"
     /\ IF act.refused = "loads"
        THEN Load(ui, FALSE, call.query, s) /\ calls' = [calls EXCEPT ![s].stage = "loading"]
        ELSE ui' = Finished(ui, call) /\ calls' = [calls EXCEPT ![s] = None] /\ UNCHANGED <<loads, sent>>
     /\ UNCHANGED <<page, fetches, committed, amiss, astray>>
----------------------------------------------------------------------------
\* The page is mounted and its effect starts the first load.
Init ==
  /\ page \in DOMAIN Design
  /\ ui = [query |-> CHOOSE q \in Queries : TRUE, rows |-> None, loading |-> TRUE, fetching |-> FALSE,
           loaded |-> FALSE, error |-> FALSE, busy |-> {},
           open |-> [d \in DOMAIN Dialogs |-> None], detail |-> [d \in DOMAIN Dialogs |-> None]]
  /\ loads = << [initial |-> TRUE, query |-> ui.query, slot |-> 0,
                 overtaken |-> FALSE, behind |-> FALSE, data |-> None] >>
  /\ calls = [s \in Slots |-> None]
  /\ fetches = {} /\ sent = 1 /\ committed = {} /\ amiss = {} /\ astray = {}

Next ==
  \/ \E i \in DOMAIN loads : Served(i) \/ Settle(i)
  \/ \E c \in {"filter", "pager", "search"} : Ask(c)
  \/ \E c \in {"retry", "retry quietly", "refresh"} : Reload(c)
  \/ \E d \in DOMAIN Dialogs :
       \/ CloseDialog(d) \/ FetchAgain(d)
       \/ \E x \in Things \cup {"new"} : OpenDialog(d, x)
       \/ \E e \in DOMAIN Dialogs[d].offers : Replace(d, e)
  \/ Escape
  \/ \E f \in fetches, answered \in BOOLEAN : Receive(f, answered)
  \/ \E act \in DOMAIN Acts :
       \/ (PageOffers(act) \/ ListOffers(act)) /\ Start(act, {})
       \/ \E d \in Open : DialogOffers(d, act) /\ Start(act, {d})
  \/ \E s \in Slots : Commit(s) \/ Refuse(s) \/ Answered(s) \/ Refused(s)

Spec == Init /\ [][Next]_vars
=============================================================================
