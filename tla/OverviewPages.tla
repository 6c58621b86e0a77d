---------------------------- MODULE OverviewPages ----------------------------
(***************************************************************************)
(* The dashboard, the wealth analytics and the report.  Each section loads *)
(* and fails on its own, so that a section is a page here.                 *)
(***************************************************************************)
EXTENDS PageDesign

\* The dashboard's summary and its budgets are loaded for a month, with one effect and
\* one refresh button; whether a load of the budgets is a first one depends on whether
\* the summary has ever arrived.
Month            == [filter |-> AtAnyTime]
SummaryLoad      == [NewestLoad EXCEPT !.failure = "keeps"]
SummaryControls  == Month @@ [refresh |-> {"fetching"}]
SummaryFailure   == [retry |-> AtAnyTime]
SummaryView      == View("always", "page", "instead", SummaryControls @@ SummaryFailure)
DashboardSummary == Display(SummaryLoad, SummaryView)

BudgetsLoad      == [NewestLoad EXCEPT !.raises = "first", !.asks = "either"]
BudgetsView      == View("always", "list", "instead", Month @@ [refresh |-> AtAnyTime] @@ ("retry quietly" :> AtAnyTime))
DashboardBudgets == Display(BudgetsLoad, BudgetsView)

\* The other sections load once; the two about the bank can be tried again.
SectionLoad      == [NewestLoad EXCEPT !.raises = "always"]
ConnectionsLoad  == SectionLoad
ImportedLoad     == SectionLoad
RecurringLoad    == [SectionLoad EXCEPT !.raises = "first"]
BillsLoad        == SectionLoad
SubscriptionLoad == SectionLoad
UnreadLoad       == [SectionLoad EXCEPT !.failure = "keeps"]
HabitsLoad       == SectionLoad
ChallengesLoad   == SectionLoad
GoalsLoad        == SectionLoad
WealthLoad       == SectionLoad

Card             == View("always", "list", "instead", Nothing)
CardWithRetry    == View("always", "list", "instead", "retry quietly" :> AtAnyTime)
ConnectionsCard  == CardWithRetry
ImportedCard     == CardWithRetry
RecurringCard    == Card
BillsCard        == Card
SubscriptionCard == Card
UnreadCard       == Card
HabitsCard       == Card
ChallengesCard   == Card
GoalsCard        == Card
AssetsCard       == Card
NetWorthCard     == Card

DashboardSections ==
  [dashboardSummary       |-> DashboardSummary,
   dashboardBudgets       |-> DashboardBudgets,
   dashboardConnections   |-> Display(ConnectionsLoad, ConnectionsCard),
   dashboardImported      |-> Display(ImportedLoad, ImportedCard),
   dashboardRecurring     |-> Display(RecurringLoad, RecurringCard),
   dashboardBills         |-> Display(BillsLoad, BillsCard),
   dashboardSubscriptions |-> Display(SubscriptionLoad, SubscriptionCard),
   dashboardUnread        |-> Display(UnreadLoad, UnreadCard),
   dashboardHabits        |-> Display(HabitsLoad, HabitsCard),
   dashboardChallenges    |-> Display(ChallengesLoad, ChallengesCard),
   dashboardGoals         |-> Display(GoalsLoad, GoalsCard),
   dashboardAssets        |-> Display(WealthLoad, AssetsCard),
   dashboardNetWorth      |-> Display(WealthLoad, NetWorthCard)]
----------------------------------------------------------------------------
\* The analytics keep what a section shows while it loads again.  Net worth and cash flow
\* are asked for a range; the goals' section shows what the summary's load brought.
SectionError == "retry quietly" :> AtAnyTime
RangeButtons == [filter |-> AtAnyTime]
Section      == View("without rows", "list", "instead", SectionError)
RangeSection == [Section EXCEPT !.offers = @ @@ RangeButtons]

PositionLoad        == RecordLoad
HistoryLoad         == RecordLoad
AssetTypesLoad      == RecordLoad
LiabilityTypesLoad  == RecordLoad
CashFlowLoad        == RecordLoad
PositionSection     == Section
HistorySection      == RangeSection
AssetTypesSection   == Section
LiabilitySection    == Section
GoalsSection        == [Section EXCEPT !.offers = Nothing]
CashFlowSection     == RangeSection

Analytics ==
  [position    |-> Display(PositionLoad, PositionSection),
   history     |-> Display(HistoryLoad, HistorySection),
   assetTypes  |-> Display(AssetTypesLoad, AssetTypesSection),
   debtTypes   |-> Display(LiabilityTypesLoad, LiabilitySection),
   goalReadout |-> Display(PositionLoad, GoalsSection),
   cashFlow    |-> Display(CashFlowLoad, CashFlowSection)]
----------------------------------------------------------------------------
ReportLoad    == RecordLoad
ReportRange   == RangeButtons
ReportContent == View("without rows", "list", "instead", ReportRange @@ SectionError)
Report        == Display(ReportLoad, ReportContent)
=============================================================================
