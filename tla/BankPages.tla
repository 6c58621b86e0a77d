------------------------------ MODULE BankPages ------------------------------
(***************************************************************************)
(* The pages of bank connections and of imported transactions, and the     *)
(* list of category rules, which is a part of the former with loads,       *)
(* dialogs and flags of its own.                                           *)
(***************************************************************************)
EXTENDS PageDesign

\* Imported transactions: a row is recategorised, unlinked or converted, a selection
\* recategorised.  Unlinking and converting ask alike, and share a flag, which is the only
\* one the Escape key waits for.
ImportedLoad    == PlainLoad
ImportedKeys    == [d \in {"category", "bulk", "confirm"} |-> {"changing"}]
ImportedView    == View("always", "list", "instead", [filter |-> AtAnyTime, retry |-> AtAnyTime])
ImportedBulkBar == [bulk |-> {"fetching"}]
ImportedList    == [category |-> AtAnyTime, confirm |-> AtAnyTime, pager |-> {"fetching"}]
ImportedUnlink  == Handler("changing", {"confirm"}, {"starts load"})
ImportedConvert == Handler("changing", {"confirm"}, {"starts load"})
ImportedConfirm == Dialog({"changing"}, [unlink |-> {"changing"}, convert |-> {"changing"}])

\* The dialogs for categories live while they are open, their flags with them.  The one
\* for a row fetches a preview of what the rules say.
CategoryDialog == [Dialog({"saving"}, [save |-> {"saving"}])
                     EXCEPT !.fetches = "mounted", !.resets = {"saving"}]
CategorySave   == [Handler("saving", {"category"}, {"starts load"}) EXCEPT !.local = TRUE]
BulkDialog     == [Dialog({"saving all"}, [saveAll |-> {"saving all"}]) EXCEPT !.resets = {"saving all"}]
BulkSave       == [Handler("saving all", {"bulk"}, {"starts load"}) EXCEPT !.local = TRUE]

Imported == Page(ImportedLoad, [ImportedView EXCEPT !.offers = @ @@ ImportedBulkBar],
                 [unlink |-> ImportedUnlink, convert |-> ImportedConvert, save |-> CategorySave, saveAll |-> BulkSave],
                 ImportedList, ImportedKeys,
                 [confirm |-> ImportedConfirm, category |-> CategoryDialog, bulk |-> BulkDialog])
----------------------------------------------------------------------------
\* Connections: a sync loads even when it is refused, since some of the accounts may have
\* been synchronised.  An account's card has a flag of its own.
ConnectionsLoad       == [QuietLoad EXCEPT !.failure = "keeps", !.tells = "always"]
ConnectionsConnect    == Handler("connecting", {"mock"}, {"awaits load"})
ConnectionsReconnect  == Handler("reconnecting", {}, {"awaits load"})
ConnectionsDisconnect == Handler("deleting", {"confirm"}, {"awaits load"})
ConnectionsSync       == [Handler("syncing", {}, {"awaits load"}) EXCEPT !.refused = "loads"]
ConnectionsSyncOne    == Handler("", {}, {"starts load"})
ConnectionsView       == View("always", "list", "beside", [mock |-> AtAnyTime, retry |-> AtAnyTime])
ConnectionsList       == [sync |-> {"syncing", "reconnecting"}, reconnect |-> {"syncing", "reconnecting"},
                          confirm |-> AtAnyTime, syncOne |-> AtAnyTime]
ConnectionsMock       == Dialog({"connecting"}, [connect |-> {"connecting"}])

Connections == Page(ConnectionsLoad, ConnectionsView,
                    [connect |-> ConnectionsConnect, reconnect |-> ConnectionsReconnect,
                     delete |-> ConnectionsDisconnect, sync |-> ConnectionsSync, syncOne |-> ConnectionsSyncOne],
                    ConnectionsList, Nothing, [mock |-> ConnectionsMock, confirm |-> Question])
----------------------------------------------------------------------------
RulesLoad   == [RecordLoad EXCEPT !.failure = "keeps", !.absolves = FALSE]
RulesDelete == DeleteRow
RulesView   == View("always", "list", "instead", [form |-> AtAnyTime] @@ ("retry quietly" :> AtAnyTime))
RulesList   == [form |-> AtAnyTime, confirm |-> AtAnyTime]
RulesForm   == Dialog({"saving"}, [save |-> {"saving"}])
RulesSave   == Handler("saving", {"form"}, {"starts load"})

CategoryRules == Page(RulesLoad, RulesView, [save |-> RulesSave, delete |-> RulesDelete], RulesList, Nothing,
                      [form |-> RulesForm, confirm |-> Question])
=============================================================================
