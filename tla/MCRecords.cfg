\* Two requests for each part, but one for habits and for reminders, whose writes are
\* one statement each, and three for the bank.
SPECIFICATION AnySpec
CONSTANTS
  Requests = {r1, r2}
  None = None
  Accounts = {a1, a2}
  MaxChanges = 3
  MonthLength <- MonthLengths
  Week = 2
  Year = 2
  MaxRuleDay = 5
  MaxDay = 3
  RuleFrequencies = {"MONTHLY", "YEARLY"}
  Contributions = {c1, c2}
  Amounts = {1, 2}
  HabitRequests = {h1}
  Frequencies = {1, 2}
  BankRequests = {r1, r2, r3}
  e1 = e1
  t1 = t1
  t2 = t2
  External = {e1}
  Feed = {t1, t2}
  Unnamed = {t2}
  OwnerOf <- OneAccount
  Ids = {1, 2, 3}
  MaxPayments = 2
  Deleted = Deleted
  Totals <- SomeTotals
  MaxCaptureDay = 1
  Categories = {c1, c2}
  Spending = {0, 1}
  NoticeRequests = {n1}
  MaxNoticeDay = 2
  UpcomingWindow = 1
  RecurringWindow = 0
  MaxNoticeChanges = 1
  Size <- Sizes
  Noise = {"ref"}
  Digits = {"n55"}
  Country = {"in", "us"}
  MerchantRules <- Merchants
  DescriptionRules <- NoRules
  ChannelRules <- NoRules
  DefaultName <- DefaultNames
  System <- SystemOnes
  Own = {"o1"}
  Names = {"other expense"}
  Transactions = {"t1"}
  MerchantOf <- MerchantText
  RuleIds = {"u1", "u2"}
  Texts <- SomeTexts
  Priorities = {0}
  RuleBodies <- SomeRuleBodies
  MaxAsked = 2
SYMMETRY Interchangeable
INVARIANTS
  RecordsTypeOK AdminRemains StatusFollowsAmounts ProgressFollowsHistory
  AccountsMatchConnection SyncsImportOnce StaysDismissed DueDateFollowsPayments
  TypesAgreeUnlessRaced RulesAreLearned BudgetsAgree
PROPERTIES
  AuditExplains CursorKeepsSchedule IntentIsExplicit SnapshotsAreMoments RemindersAreKept
\* Out of days and edits, or with everything deleted, a part is at rest.
CHECK_DEADLOCK FALSE
