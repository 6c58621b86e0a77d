------------------------------ MODULE MCLive ------------------------------
(***************************************************************************)
(* Small instances of components that share no state: the ones whose      *)
(* liveness is checked (password reset links, email verification links and *)
(* the life of the process) and the pages of the client.  A behaviour      *)
(* exercises one of them, chosen in the initial state.  PasswordReset is   *)
(* extended, so that its properties are the very formulas                  *)
(* LiveProofs proves; ClientDesign, so that TLC evaluates the table of the *)
(* pages once.                                                             *)
(***************************************************************************)
EXTENDS PasswordReset, ClientDesign, Sequences

CONSTANTS MaxBusy, Things, Queries, Slots, MaxRequests

VARIABLES part,
  mailState, mailRecent, mailExpired, mailSuperseded, mailTokLock, mailUserLock,
  mailPc, mailTok, mailCand, registered, verified, stamps,
  startup, server, busy, stopping, exitCode, forceTimer, disconnect, exited, processStatus, worst,
  page, ui, loads, calls, fetches, sent, committed, amiss, astray

mailVars == <<mailState, mailRecent, mailExpired, mailSuperseded, mailTokLock, mailUserLock,
              mailPc, mailTok, mailCand, registered, verified, stamps>>
processVars == <<startup, server, busy, stopping, exitCode, forceTimer, disconnect, exited, processStatus, worst>>
pageVars == <<page, ui, loads, calls, fetches, sent, committed, amiss, astray>>

Mail == INSTANCE EmailVerificationProofs WITH
  tstate <- mailState, recent <- mailRecent, expired <- mailExpired,
  superseded <- mailSuperseded, tokLock <- mailTokLock, userLock <- mailUserLock,
  pc <- mailPc, tok <- mailTok, cand <- mailCand
Process == INSTANCE Lifecycle WITH status <- processStatus

Pages == INSTANCE ClientPages

\* What a page asks for anew when it is told to, and what the handlers of all pages are
\* like while they are in progress.
Asked    == {"filter", "pager", "search"}
Handlers == UNION {{Design[p].acts[a] : a \in DOMAIN Design[p].acts} : p \in DOMAIN Design}
Progress == [act : Handlers, query : Queries, own : SUBSET UNION {DOMAIN Design[p].dialogs : p \in DOMAIN Design},
             stage : {"sent", "done", "refused", "fetching", "loading"}, change : Nat, thing : Things \cup {None}]

ASSUME PageAssumption == Queries # {} /\ 0 \notin Slots /\ "new" \notin Things \cup {None} /\ None \notin Things \cup Progress

\* The table of the pages: which number their requests, which offer nothing while they
\* load, which never load with an earlier query, which tell every failure and which only
\* show.  TLC evaluates this for every page there is.
ASSUME TableAssumption ==
  \A p \in DOMAIN Design :
    LET d == Design[p]
        controls == DOMAIN d.view.offers \cup DOMAIN d.list
        still    == DOMAIN d.acts = {}
        unasked  == Asked \cap controls = {} /\ \A a \in DOMAIN d.acts : "steps back" \notin d.acts[a].then
    IN /\ d.load.raises \in {"kind", "first", "always"}
       /\ p \in Pages!Numbered => d.load.guarded
       /\ p \in {"health", "operations"} =>
            /\ still /\ controls \subseteq {"refresh", "retry quietly"} /\ d.load.raises # "first"
            /\ "refresh" \in DOMAIN d.view.offers =>
                 "loading" \in d.view.offers["refresh"]
                 /\ (d.load.raises = "kind" => "fetching" \in d.view.offers["refresh"])
       /\ p \notin Pages!Racing \cup {"habits"} => still \/ unasked
       /\ p \notin Pages!SilentAtFirst => d.load.tells = "always"
       /\ d.load.absolves => still
       /\ p \notin Pages!Stuck /\ d.load.guarded /\ d.load.raises # "always" =>
            /\ unasked /\ DOMAIN d.view.offers \subseteq {"retry"}
            /\ "retry" \notin DOMAIN d.acts \cup DOMAIN d.dialogs
            /\ IF d.load.raises = "kind" THEN d.view.loading = "first" ELSE still

\* And its dialogs: what is opened for no row is not fetched for.
ASSUME DialogAssumption ==
  \A p \in DOMAIN Design :
    LET d == Design[p] IN
    /\ \A x \in DOMAIN d.dialogs :
         /\ d.dialogs[x].fetches \in {"nothing", "mounted", "unguarded", "whole"}
         /\ x \in DOMAIN d.view.offers => DOMAIN d.dialogs[x].offers \cap DOMAIN d.dialogs = {}
    /\ \A a \in DOMAIN d.acts : d.acts[a].fetches \in DOMAIN d.dialogs =>
         /\ d.dialogs[d.acts[a].fetches].fetches # "nothing"
         /\ d.acts[a].fetches \notin DOMAIN d.view.offers

\* Its forms, where they cannot be left while they are saved.  A control that raises the
\* flag of a handler that closes dialogs waits for that flag, and such a handler is started
\* from dialogs it closes.  These wait for it (Firm); their flag goes with them only when it
\* is theirs alone.  Only the users' panel is replaced whole, and only the panels of goals
\* and habits take answers that were for another row.
WaitsForFlag(p, a) ==
  LET d == Design[p] IN
  /\ \A x \in DOMAIN d.dialogs : a \in DOMAIN d.dialogs[x].offers => d.acts[a].flag \in d.dialogs[x].offers[a]
  /\ a \in DOMAIN d.view.offers => d.acts[a].flag \in d.view.offers[a]
  /\ a \in DOMAIN d.list => d.acts[a].flag \in d.list[a]
Closing(p) == {a \in DOMAIN Design[p].acts : Design[p].acts[a].closes # {}}

ASSUME FormAssumption ==
  \A p \in DOMAIN Design :
    LET d == Design[p] IN
    /\ \A x \in DOMAIN d.dialogs :
         /\ d.dialogs[x].fetches = "unguarded" => p \in {"goals", "habits"}
         /\ d.dialogs[x].fetches = "whole" => /\ p = "users"
                                             /\ DOMAIN d.dialogs[x].offers = {}
                                             /\ \A a \in DOMAIN d.acts : x \notin d.acts[a].closes
    /\ \A a \in DOMAIN d.acts :
         /\ d.acts[a].closes \subseteq DOMAIN d.dialogs
         /\ d.acts[a].fetches \in DOMAIN d.dialogs =>
              \A x \in d.acts[a].closes \cup {d.acts[a].fetches} : d.dialogs[x].fetches # "mounted"
    /\ p \notin Pages!LooseForms =>
         /\ \A a \in DOMAIN d.acts : ~d.acts[a].resets
         /\ \A a \in DOMAIN d.acts, c \in Closing(p) : d.acts[a].flag = d.acts[c].flag => WaitsForFlag(p, a)
         /\ \A c \in Closing(p) :
              /\ c \notin DOMAIN d.view.offers \cup DOMAIN d.list
              /\ \A x \in DOMAIN d.dialogs : c \in DOMAIN d.dialogs[x].offers => x \in d.acts[c].closes
         /\ \A a, c \in Closing(p), x \in DOMAIN d.dialogs :
              a \in DOMAIN d.dialogs[x].offers /\ c \in DOMAIN d.dialogs[x].offers => d.acts[c].flag \in d.dialogs[x].offers[a]
         /\ \A x \in DOMAIN d.dialogs, a \in DOMAIN d.acts : d.acts[a].flag \in d.dialogs[x].resets =>
              /\ d.acts[a].local /\ d.acts[a].closes \subseteq {x}
              /\ \A y \in DOMAIN d.dialogs : x \notin DOMAIN d.dialogs[y].offers
    /\ p \notin Pages!LooseForms \cup {"imported"} =>
         \A c \in Closing(p), x \in DOMAIN d.dialogs : c \in DOMAIN d.dialogs[x].offers =>
           /\ d.acts[c].flag \in d.dialogs[x].leave
           /\ x \in DOMAIN d.keys => d.acts[c].flag \in d.keys[x]
           /\ DOMAIN d.dialogs[x].offers \cap DOMAIN d.dialogs = {}

LiveInit ==
  /\ part \in {"reset", "verification", "process", "page"}
  /\ Init /\ Mail!Init /\ Process!Init /\ Pages!Init
  /\ part # "page" => page = "health"

\* After its exit the process takes no step, and a page may offer nothing, or wait for
\* requests beyond the bound; that is no deadlock.
AtRest == /\ \/ part = "process" /\ exited
             \/ part = "page" /\ loads = << >>
          /\ UNCHANGED <<part, vars, mailVars, processVars, pageVars>>

LiveNext ==
  \/ part = "reset"        /\ Next         /\ UNCHANGED <<part, mailVars, processVars, pageVars>>
  \/ part = "verification" /\ Mail!Next    /\ UNCHANGED <<part, vars, processVars, pageVars>>
  \/ part = "process"      /\ Process!Next /\ UNCHANGED <<part, vars, mailVars, pageVars>>
  \/ part = "page"         /\ Pages!Next   /\ UNCHANGED <<part, vars, mailVars, processVars>>
  \/ AtRest

\* EmailVerification and the client need no fairness.  In the initial state of a part none
\* of its actions that are treated fairly is enabled, so the others ask nothing.
LiveSpec == LiveInit /\ [][LiveNext]_<<part, vars, mailVars, processVars, pageVars>>
              /\ Fairness /\ Process!Fairness

\* The type invariant of the part that is exercised: the others do not move.
LiveTypeOK ==
  /\ part = "reset"        => TypeOK
  /\ part = "verification" => Mail!TypeOK
  /\ part = "process"      => Process!TypeOK
  /\ part = "page"         => Pages!TypeOK

\* A link that is used verified the address, unless a later one superseded it, and the
\* address is stamped once (EmailVerification).
VerifiedOnceByItsLink == Mail!ConsumedMeansVerified /\ Mail!StampedOnce

\* The process exits with the gravest code it was asked for, and with 0 only when its
\* requests were drained (Lifecycle).
ExitCodeIsHonest == Process!GravestCode /\ Process!CleanMeansDrained

\* A shutdown that has begun ends (Lifecycle).
ShutdownFinishes == Process!ShutdownFinishes

\* With nothing in flight a page shows what the server has, or a failure, but for the
\* races the page is known for (ClientPages).
RowsAreFresh == part = "page" => Pages!RowsAreFresh

\* A sign of loading stands for a load in flight (ClientPages).
SpinnerIsHonest == part = "page" => Pages!SpinnerIsHonest

\* An answer touches no dialog but the one it is for (ClientPages).
DialogsAreOwn == part = "page" => Pages!DialogsAreOwn
=============================================================================
