---------------------------- MODULE ClientDesign ----------------------------
(***************************************************************************)
(* All pages of the client that load data, as Screen takes them.           *)
(***************************************************************************)
EXTENDS TLC

Money    == INSTANCE MoneyPages
Plans    == INSTANCE PlanPages
Admin    == INSTANCE AdminPages
Banks    == INSTANCE BankPages
Overview == INSTANCE OverviewPages

Design ==
  [bills |-> Money!Bills, subscriptions |-> Money!Subscriptions, recurring |-> Money!Recurring,
   budgets |-> Money!Budgets, transactions |-> Money!Transactions,
   goals |-> Plans!Goals, habits |-> Plans!Habits, challenges |-> Plans!Challenges,
   assets |-> Plans!Assets, netWorth |-> Plans!NetWorth, notifications |-> Plans!Notifications,
   users |-> Admin!Users, audit |-> Admin!Audit, catalogue |-> Admin!Catalogue,
   health |-> Admin!Health, operations |-> Admin!Operations,
   imported |-> Banks!Imported, connections |-> Banks!Connections, rules |-> Banks!CategoryRules,
   report |-> Overview!Report] @@ Overview!Analytics @@ Overview!DashboardSections
=============================================================================
