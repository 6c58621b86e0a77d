----------------------------- MODULE MoneyPages -----------------------------
(***************************************************************************)
(* The pages of bills, subscriptions, recurring transactions, budgets and  *)
(* transactions, in the vocabulary of PageDesign.  Categories and the      *)
(* currency, which they load aside, are left out.                          *)
(***************************************************************************)
EXTENDS PageDesign

\* A form over the page that every button and the Escape key leave even while it is being
\* saved; opening, leaving and saving it reset it.
LooseForm == [Dialog(AtAnyTime, [save |-> {"saving"}]) EXCEPT !.resets = {"saving"}]
SaveForm  == [Handler("saving", {"form"}, {"awaits load"}) EXCEPT !.resets = TRUE]
----------------------------------------------------------------------------
BillsLoad    == PlainLoad
BillsKeys    == [form |-> AtAnyTime, confirm |-> AtAnyTime]
BillsActs    == [save |-> SaveForm, pay |-> RowAct, delete |-> DeleteRow]
BillsView    == View("first", "page", "instead",
                     [form |-> AtAnyTime, filter |-> AtAnyTime, retry |-> AtAnyTime])
BillsList    == [pay |-> AtAnyTime, form |-> AtAnyTime, confirm |-> AtAnyTime]
BillsForm    == LooseForm
BillsConfirm == Question

Bills == Page(BillsLoad, BillsView, BillsActs, BillsList, BillsKeys,
              [form |-> BillsForm, confirm |-> BillsConfirm])
----------------------------------------------------------------------------
SubscriptionsLoad    == PlainLoad
SubscriptionsKeys    == [form |-> AtAnyTime, confirm |-> AtAnyTime]
SubscriptionsActs    == [save |-> SaveForm, renew |-> RowAct, delete |-> DeleteRow]
SubscriptionsView    == View("first", "page", "instead",
                             [form |-> AtAnyTime, filter |-> AtAnyTime, retry |-> AtAnyTime])
SubscriptionsList    == [renew |-> AtAnyTime, form |-> AtAnyTime, confirm |-> AtAnyTime]
SubscriptionsForm    == LooseForm
SubscriptionsConfirm == Question

Subscriptions == Page(SubscriptionsLoad, SubscriptionsView, SubscriptionsActs, SubscriptionsList,
                      SubscriptionsKeys, [form |-> SubscriptionsForm, confirm |-> SubscriptionsConfirm])
----------------------------------------------------------------------------
\* Recurring transactions have no filter.
RecurringLoad    == PlainLoad
RecurringKeys    == [form |-> AtAnyTime, confirm |-> AtAnyTime]
RecurringActs    == [save |-> SaveForm, toggle |-> RowAct, generate |-> RowAct, delete |-> DeleteRow]
RecurringView    == View("first", "page", "instead", [form |-> AtAnyTime, retry |-> AtAnyTime])
RecurringList    == [toggle |-> AtAnyTime, generate |-> AtAnyTime, form |-> AtAnyTime, confirm |-> AtAnyTime]
RecurringForm    == LooseForm
RecurringConfirm == Question

Recurring == Page(RecurringLoad, RecurringView, RecurringActs, RecurringList, RecurringKeys,
                  [form |-> RecurringForm, confirm |-> RecurringConfirm])
----------------------------------------------------------------------------
\* Budgets have pages, which are not turned while a load is under way.
BudgetsLoad    == PlainLoad
BudgetsKeys    == [form |-> AtAnyTime, confirm |-> AtAnyTime]
BudgetsActs    == [save |-> SaveForm, delete |-> DeleteRow]
BudgetsView    == View("first", "page", "instead", [form |-> AtAnyTime, retry |-> AtAnyTime])
BudgetsList    == [form |-> AtAnyTime, confirm |-> AtAnyTime, pager |-> {"fetching"}]
BudgetsForm    == LooseForm
BudgetsConfirm == Question

Budgets == Page(BudgetsLoad, BudgetsView, BudgetsActs, BudgetsList, BudgetsKeys,
                [form |-> BudgetsForm, confirm |-> BudgetsConfirm])
----------------------------------------------------------------------------
\* Transactions have filters, a search field and pages; the last row of a page that is
\* deleted asks for the page before it.  The Escape key listens for the form only.
TransactionsLoad    == PlainLoad
TransactionsKeys    == [form |-> AtAnyTime]
TransactionsActs    == [save   |-> SaveForm,
                        delete |-> [DeleteRow EXCEPT !.then = {"awaits load", "steps back"}]]
TransactionsView    == View("first", "page", "beside",
                            [form |-> AtAnyTime, filter |-> AtAnyTime, search |-> AtAnyTime, retry |-> AtAnyTime])
TransactionsList    == [form |-> AtAnyTime, confirm |-> AtAnyTime]
TransactionsPager   == [pager |-> {"fetching"}]
TransactionsForm    == LooseForm
TransactionsConfirm == Question

Transactions == Page(TransactionsLoad, TransactionsView, TransactionsActs, TransactionsList @@ TransactionsPager,
                     TransactionsKeys, [form |-> TransactionsForm, confirm |-> TransactionsConfirm])
=============================================================================
