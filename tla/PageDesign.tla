----------------------------- MODULE PageDesign -----------------------------
(***************************************************************************)
(* The vocabulary in which the pages of the client are described: what a   *)
(* page loads, what it shows, which controls it offers and what its        *)
(* handlers do.  Screen says how a page behaves that is described so.      *)
(* A flag is a piece of state that disables controls while it is up.       *)
(***************************************************************************)
EXTENDS TLC

AtAnyTime == {}
Nothing   == << >>

\* A loader that takes every answer that arrives.  A first load and a retry raise
\* "loading", the others "fetching", and each lowers its own flag when it ends.  A
\* failure keeps the rows; it is told unless nothing was ever shown and the load was
\* not a first one.  What a changed filter loads is a first load until one succeeds.
PlainLoad == [guarded |-> FALSE, raises |-> "kind", lowers |-> "own", failure |-> "keeps",
              tells |-> "once loaded", asks |-> "once loaded", absolves |-> FALSE]

\* A loader whose later loads raise no flag, and whose failures empty the rows.
QuietLoad == [PlainLoad EXCEPT !.raises = "first", !.failure = "empties"]

\* A loader that lowers both flags whenever a load ends and tells every failure.
LoudLoad == [PlainLoad EXCEPT !.lowers = "both", !.tells = "always"]

\* A loader that numbers its requests and ignores every answer but the newest one's,
\* the lowering of the flag included; a failure empties the rows.
NewestLoad == [PlainLoad EXCEPT !.guarded = TRUE, !.failure = "empties", !.tells = "always"]

\* A loader that keeps flag, rows and error in one record, which every answer replaces.
RecordLoad == [PlainLoad EXCEPT !.raises = "always", !.failure = "empties",
                                !.tells = "always", !.absolves = TRUE]

\* The loading screen is shown at the first load, without rows, or whenever "loading" is
\* up, and takes the place of the page or of the list; a failure is shown instead of the
\* list or beside it.  "offers" has the controls outside of list and dialogs, each with
\* the flags that disable it.
View(loading, covers, failure, offers) ==
  [loading |-> loading, covers |-> covers, failure |-> failure, offers |-> offers]

\* A handler raises its flag and sends one request.  When that succeeds it closes the
\* dialogs "closes" and does one of "then": awaits a load, starts one, steps back a page.
\* Some clear a form first, which lowers its flag, or fetch again for a dialog.  The flag
\* of a dialog that is a component of its own goes with it.  A refusal is told; some load
\* even then.
Handler(flag, closes, then) ==
  [flag |-> flag, closes |-> closes, then |-> then, resets |-> FALSE, fetches |-> "",
   local |-> FALSE, refused |-> "tells"]

\* A dialog is left by its buttons unless a flag of "leave" is up.  What it is opened for
\* is a row, unless it fetches it; what it offers, and leaving it, may have to wait for
\* that.  Opening or leaving it lowers the flags "resets".
Dialog(leave, offers) ==
  [leave |-> leave, offers |-> offers, fetches |-> "nothing", waits |-> {}, resets |-> {}]

\* "keys" has the dialogs the Escape key closes, each with the flags that prevent it.
Page(load, view, acts, list, keys, dialogs) ==
  [load |-> load, view |-> view, acts |-> acts, list |-> list, keys |-> keys, dialogs |-> dialogs]

\* A page, or a part of one, that only shows.
Display(load, view) == Page(load, view, Nothing, Nothing, Nothing, Nothing)

\* What most pages have: a question before a delete, whose buttons wait for the delete;
\* and row controls that raise no flag, or a flag that names their row, so that another
\* row's control is free.
Question  == Dialog({"deleting"}, [delete |-> {"deleting"}])
DeleteRow == Handler("deleting", {"confirm"}, {"awaits load"})
RowAct    == Handler("", {}, {"awaits load"})
=============================================================================
