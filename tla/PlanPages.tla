------------------------------ MODULE PlanPages ------------------------------
(***************************************************************************)
(* The pages of goals, habits, challenges, assets and liabilities, net     *)
(* worth and notifications.                                                *)
(***************************************************************************)
EXTENDS PageDesign

\* A form whose buttons wait for the save, so that nothing but the save closes it.
FirmForm == Dialog({"saving"}, [save |-> {"saving"}])
SaveForm == Handler("saving", {"form"}, {"awaits load"})
----------------------------------------------------------------------------
\* Goals: the panel of contributions fetches those of its goal, and again after each
\* change, before the goals are loaded.  The Escape key listens for the panel only.
GoalsLoad          == QuietLoad
GoalsKeys          == [contributions |-> {"withdrawing"}]
GoalsSave          == [SaveForm EXCEPT !.resets = TRUE]
GoalsContribute    == [Handler("contributing", {}, {"awaits load"})
                         EXCEPT !.fetches = "contributions", !.resets = TRUE]
GoalsWithdraw      == [Handler("withdrawing", {}, {"awaits load"}) EXCEPT !.fetches = "contributions"]
GoalsList          == [confirm |-> AtAnyTime, form |-> AtAnyTime, contributions |-> AtAnyTime]
GoalsView          == View("first", "page", "instead", [form |-> AtAnyTime, retry |-> AtAnyTime])
GoalsForm          == FirmForm
GoalsConfirm       == Question
GoalsContributions == [Dialog({"withdrawing"}, [contribute |-> {"contributing"}, withdraw |-> {"withdrawing"}])
                         EXCEPT !.fetches = "unguarded", !.resets = {"contributing"}]

Goals == Page(GoalsLoad, GoalsView,
              [save |-> GoalsSave, delete |-> DeleteRow, contribute |-> GoalsContribute, withdraw |-> GoalsWithdraw],
              GoalsList, GoalsKeys,
              [form |-> GoalsForm, confirm |-> GoalsConfirm, contributions |-> GoalsContributions])
----------------------------------------------------------------------------
\* Habits: nothing disables the form's button while it is being saved.
HabitsLoad    == NewestLoad
HabitsHistory == [Dialog(AtAnyTime, [x \in {"fetch again"} |-> AtAnyTime]) EXCEPT !.fetches = "unguarded"]
HabitsKeys    == [form |-> AtAnyTime, confirm |-> AtAnyTime, history |-> AtAnyTime]
HabitsActs    == [save |-> Handler("", {"form"}, {"awaits load"}), complete |-> RowAct, toggle |-> RowAct,
                  delete |-> DeleteRow]
HabitsList    == [complete |-> AtAnyTime, history |-> AtAnyTime, form |-> AtAnyTime, toggle |-> AtAnyTime,
                  confirm |-> AtAnyTime]
HabitsView    == View("first", "page", "instead", [form |-> AtAnyTime, retry |-> AtAnyTime])
HabitsPager   == [pager |-> {"fetching"}]
HabitsForm    == Dialog(AtAnyTime, [save |-> AtAnyTime])
HabitsConfirm == Question

Habits == Page(HabitsLoad, HabitsView, HabitsActs, HabitsList @@ HabitsPager, HabitsKeys,
               [form |-> HabitsForm, confirm |-> HabitsConfirm, history |-> HabitsHistory])
----------------------------------------------------------------------------
\* Challenges: joining, leaving after a question, linking a habit.
ChallengesLoad    == NewestLoad
ChallengesKeys    == [confirm |-> {"deleting"}]
ChallengesActs    == [join |-> RowAct, delete |-> DeleteRow, link |-> RowAct]
ChallengesList    == [confirm |-> AtAnyTime, join |-> AtAnyTime, link |-> AtAnyTime]
ChallengesView    == View("first", "page", "instead", [retry |-> AtAnyTime])
ChallengesConfirm == Question

Challenges == Page(ChallengesLoad, ChallengesView, ChallengesActs, ChallengesList, ChallengesKeys,
                   [confirm |-> ChallengesConfirm])
----------------------------------------------------------------------------
\* Assets and liabilities: two lists and a total that are loaded together, one form.
AssetsLoad    == QuietLoad
AssetsSave    == [SaveForm EXCEPT !.resets = TRUE]
AssetsDelete  == DeleteRow
AssetsList    == [confirm |-> AtAnyTime, form |-> AtAnyTime]
AssetsView    == View("first", "page", "instead", [form |-> AtAnyTime, retry |-> AtAnyTime])
AssetsForm    == FirmForm
AssetsConfirm == Question

Assets == Page(AssetsLoad, AssetsView, [save |-> AssetsSave, delete |-> AssetsDelete], AssetsList, Nothing,
               [form |-> AssetsForm, confirm |-> AssetsConfirm])
----------------------------------------------------------------------------
NetWorthLoad    == QuietLoad
NetWorthCapture == Handler("capturing", {}, {"awaits load"})
NetWorthView    == View("first", "page", "instead", [capture |-> {"capturing"}, retry |-> AtAnyTime])

NetWorth == Page(NetWorthLoad, NetWorthView, [capture |-> NetWorthCapture], Nothing, Nothing, Nothing)
----------------------------------------------------------------------------
\* Notifications: the first load generates reminders, and its failure is not told of
\* that.  "Mark all as read" stays while its load is under way.
NotificationsLoad == PlainLoad
NotificationsRead == RowAct
NotificationsAll  == Handler("marking all", {}, {"awaits load"})
NotificationsView == View("always", "page", "instead",
                          [filter |-> AtAnyTime, all |-> {"marking all"}, retry |-> AtAnyTime])
NotificationsList == [read |-> AtAnyTime, pager |-> {"fetching"}]

Notifications == Page(NotificationsLoad, NotificationsView, [read |-> NotificationsRead, all |-> NotificationsAll],
                      NotificationsList, Nothing, Nothing)
=============================================================================
