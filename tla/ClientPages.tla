----------------------------- MODULE ClientPages -----------------------------
(***************************************************************************)
(* What holds of the pages of the client: the rows that are left when      *)
(* everything is quiet, the signs of a load, and the dialogs.  The pages   *)
(* on which a race is possible are named, page by page, so that the others *)
(* are known to be free of it.                                             *)
(***************************************************************************)
EXTENDS Screen, TLC

Overview == INSTANCE OverviewPages

\* What is open, raised or begun belongs to the page.
TypeOK ==
  /\ page \in DOMAIN Design
  /\ ui.query \in Queries /\ ui.busy \subseteq {Acts[a].flag : a \in DOMAIN Acts}
  /\ \A d \in DOMAIN Dialogs : ui.open[d] \in Things \cup {"new", None} /\ ui.detail[d] \in Things \cup {None}
  /\ \A s \in Slots : calls[s] # None => calls[s].own \subseteq DOMAIN Dialogs /\ calls[s].change \in committed \cup {0}
  /\ \A f \in fetches : f.dialog \in DOMAIN Dialogs /\ f.slot # 0 => calls[f.slot].stage = "fetching"
  /\ \A i \in DOMAIN loads : loads[i].slot # 0 => calls[loads[i].slot].stage = "loading"
----------------------------------------------------------------------------
\* The pages that number their requests, or that offer nothing while they load.
Numbered == {"habits", "challenges"} \cup {p \in DOMAIN Design : p \in DOMAIN Overview!DashboardSections}
Racing   == DOMAIN Design \ (Numbered \cup {"health", "operations"})
SilentAtFirst == {"bills", "subscriptions", "recurring", "budgets", "transactions", "goals", "assets",
                  "netWorth", "notifications", "imported"}

\* Why rows may differ from the server's, and where: answers out of order; a load with the
\* query of an earlier moment, which every handler keeps; a failure that is not told,
\* because nothing was shown before; the failure of a load that a later one replaced; and,
\* anywhere, a change that was made although its answer was lost.
Excused == [why \in {"lost answer", "out of order", "old query", "untold", "old failure"} |->
              CASE why = "lost answer" -> DOMAIN Design
                [] why = "old query"   -> Racing \cup {"habits"}
                [] why = "untold"      -> SilentAtFirst
                [] OTHER               -> Racing]

\* When nothing is in flight the page shows what the server has for what is asked, or the
\* failure of the newest load, unless something is amiss that the page is known for.
RowsAreFresh ==
  loads = << >> /\ Idle =>
    \/ \E why \in amiss : page \in Excused[why]
    \/ IF ui.error THEN "old failure" \notin amiss ELSE ui.rows = Current

\* A page that says it is loading, or that disables a control because it is, has such a
\* load in flight.  Three are known to say so for ever: there a load that raises one flag
\* is overtaken by one that lowers the other.
Stuck == {"habits", "dashboardSummary", "dashboardBudgets"}
SpinnerIsHonest ==
  page \notin Stuck =>
    /\ LoadingShown => \E i \in DOMAIN loads : Loud(loads[i].initial)
    /\ ui.fetching  => \E i \in DOMAIN loads : Quiet(loads[i].initial)

\* An answer touches no dialog but the one it is for: it closes none that was opened since,
\* reopens none that was left, shows nothing of another row; and a form is not sent again
\* before it is answered.  The forms of some pages can be left, and opened anew, while
\* they are saved.
LooseForms == {"bills", "subscriptions", "recurring", "budgets", "transactions", "goals", "habits", "assets"}
Strays == [what \in {"closes", "twice", "mixes", "reopens"} |->
             CASE what = "closes"  -> LooseForms \cup {"imported"}
               [] what = "twice"   -> LooseForms
               [] what = "mixes"   -> {"goals", "habits"}
               [] what = "reopens" -> {"users"}]
DialogsAreOwn == \A what \in astray : page \in Strays[what]
=============================================================================
