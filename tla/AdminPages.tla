----------------------------- MODULE AdminPages -----------------------------
(***************************************************************************)
(* The pages of the administrator: users, audit log, challenges, system    *)
(* health and dashboard.                                                   *)
(***************************************************************************)
EXTENDS PageDesign

\* What the pages with a header offer at once, and where a failure is told.
Refreshes == [refresh |-> {"fetching", "loading"}] @@ ("retry quietly" :> AtAnyTime)
Filters   == [filter |-> AtAnyTime, search |-> AtAnyTime]

\* Users: the details of a user are fetched and replace whatever the panel shows; a
\* change of a user that the panel is open for fetches them again, then loads the list.
UsersLoad    == LoudLoad
UsersKeys    == [confirm |-> {"changing"}, detail |-> {"changing"}]
UsersChange  == [Handler("changing", {"confirm"}, {"awaits load"}) EXCEPT !.fetches = "detail"]
UsersActions == [confirm |-> {"changing"}]
UsersView    == View("first", "list", "instead", Refreshes @@ Filters)
UsersList    == [detail |-> {"changing"}]
UsersPager   == [pager |-> {"fetching"}]
UsersDetail  == [Dialog(AtAnyTime, Nothing) EXCEPT !.fetches = "whole", !.waits = {"leave"}]
UsersConfirm == Dialog({"changing"}, [change |-> {"changing"}])

Users == Page(UsersLoad, UsersView, [change |-> UsersChange], UsersActions @@ UsersList @@ UsersPager, UsersKeys,
              [detail |-> UsersDetail, confirm |-> UsersConfirm])
----------------------------------------------------------------------------
\* Audit log: the details are the row's.
AuditLoad   == LoudLoad
AuditKeys   == [detail |-> AtAnyTime]
AuditView   == View("first", "list", "instead", Refreshes @@ Filters)
AuditList   == [detail |-> AtAnyTime]
AuditPager  == [pager |-> {"fetching"}]
AuditDetail == Dialog(AtAnyTime, Nothing)

Audit == Page(AuditLoad, AuditView, Nothing, AuditList @@ AuditPager, AuditKeys, [detail |-> AuditDetail])
----------------------------------------------------------------------------
\* Challenges: three dialogs, each a component of its own that lives while it is open;
\* any change closes all of them and starts a load.
CatalogueLoad   == LoudLoad
CatalogueAfter  == {"form", "confirm", "detail"}
CatalogueView   == View("first", "list", "instead", Refreshes @@ Filters @@ [form |-> AtAnyTime])
CatalogueList   == [detail |-> AtAnyTime, form |-> AtAnyTime, confirm |-> AtAnyTime]
CataloguePager  == [pager |-> {"fetching"}]
CatalogueDetail == [Dialog(AtAnyTime, [form |-> AtAnyTime, confirm |-> AtAnyTime])
                      EXCEPT !.fetches = "mounted", !.waits = {"offers"}]
CatalogueForm   == [Dialog({"saving"}, [save |-> {"saving"}])
                      EXCEPT !.fetches = "mounted", !.waits = {"offers", "leave"}]
CatalogueSave   == Handler("saving", CatalogueAfter, {"starts load"})
CatalogueDelete == Handler("deleting", CatalogueAfter, {"starts load"})

Catalogue == Page(CatalogueLoad, CatalogueView, [save |-> CatalogueSave, delete |-> CatalogueDelete],
                  CatalogueList @@ CataloguePager, [detail |-> AtAnyTime],
                  [detail |-> CatalogueDetail, form |-> CatalogueForm, confirm |-> Question])
----------------------------------------------------------------------------
\* System health and the dashboard only show.
HealthLoad == LoudLoad
HealthView == View("first", "list", "instead", Refreshes)
Health     == Display(HealthLoad, HealthView)

OperationsLoad == RecordLoad
OperationsView == View("without rows", "list", "instead", [Refreshes EXCEPT !.refresh = {"loading"}])
Operations     == Display(OperationsLoad, OperationsView)
=============================================================================
