----------------------------- MODULE Categories -----------------------------
(***************************************************************************)
(* The categories of one user, the rules the user has taught, and the      *)
(* transactions that have a category.  Requests check what they read, and  *)
(* write a later statement: categories and transactions with the type they *)
(* were checked for, and, when a choice is to be remembered, the rule of   *)
(* the merchant after the transactions.                                    *)
(*                                                                         *)
(* Left out: amounts, dates, listing, the audit log, budgets and the other *)
(* rows that have a category.                                              *)
(***************************************************************************)
EXTENDS Concurrency, Categorization

CONSTANTS
  System,       \* the default categories
  Own,          \* ids of the categories a user may create
  Names,        \* and the names they may have, in lower case
  Transactions, MerchantOf,  \* the text of the merchant of each transaction
  RuleIds,      \* ids of rules: a bound on the rules that are ever created
  Texts,        \* the merchants that are typed into the rule page
  Priorities,
  RuleBodies,   \* the bodies of the requests about rules: records of some of the fields
                \* category, priority and active
  MaxAsked,     \* bound on the requests that are ever made
  Deleted          \* a row that has been deleted


VARIABLES
  category,   \* of each own id: its row
  tx,         \* of each transaction: its row
  rule,       \* of each rule id: its row
  asked,      \* requests so far
  pc, req,    \* of a request: its statement, what it was asked for and has read
  raced,      \* transactions written by a request that had read another type or category (history)
  disturbed   \* requests whose rule or category was taken away meanwhile (history)

\* Every id a category can have, and every key: of the texts and of the merchants.
EveryId == {c.id : c \in System} \cup Own
Keys    == {normalizeMerchant(text) : text \in Texts} \cup {normalizeMerchant(MerchantOf[t]) : t \in Transactions}

CategoryRow    == [name : Names, type : Type]
TransactionRow == [type : Type, category : EveryId, source : {"MANUAL", "IMPORTED"}]
RuleRow        == [key : Keys, category : EveryId, priority : Int, active : BOOLEAN]

\* The row with the fields the body gives.
With(row, body) == [f \in DOMAIN row \cup DOMAIN body |-> IF f \in DOMAIN body THEN body[f] ELSE row[f]]

vars == <<category, tx, rule, asked, pc, req, raced, disturbed>>
history == <<raced, disturbed>>

Row(row) == row \notin {None, Deleted}
Created == {o \in Own : Row(category[o])}
Rows    == {t \in Transactions : Row(tx[t])}
Rules   == {u \in RuleIds : Row(rule[u])}

\* listUserCategories: the user's own and the system's.
Usable == System \cup {[id |-> o, name |-> category[o].name, type |-> category[o].type, own |-> TRUE] : o \in Created}
CategoryIds == {c.id : c \in System} \cup Created
TypeOf(id) == IF id \in Own THEN category[id].type ELSE (CHOOSE c \in System : c.id = id).type

\* The rules a categorisation reads, in no particular order.
UserRules == {[key |-> rule[u].key, category |-> rule[u].category, priority |-> rule[u].priority] :
                u \in {v \in Rules : rule[v].active}}

RuleFor(key) == {u \in Rules : rule[u].key = key}

\* Some categories, transactions and rules exist from the start.
Init ==
  /\ category \in [Own -> {None} \cup CategoryRow]
  /\ tx \in [Transactions -> {None} \cup [type : Type, category : CategoryIds, source : {"MANUAL", "IMPORTED"}]]
  /\ rule \in [RuleIds -> {None} \cup [key : {normalizeMerchant(text) : text \in Texts} \ {Nothing},
                                        category : CategoryIds, priority : Priorities, active : {TRUE}]]
  /\ \A t \in Rows : TypeOf(tx[t].category) = tx[t].type
  /\ \A u, v \in Rules : rule[u].key = rule[v].key => u = v
  /\ pc = [r \in Requests |-> "idle"]
  /\ req = [r \in Requests |-> None]
  /\ asked = 0
  /\ raced = {}
  /\ disturbed = {}

Go(r, statement, request) ==
  /\ pc' = [pc EXCEPT ![r] = statement]
  /\ req' = [req EXCEPT ![r] = request]
Answer(r) == Go(r, "idle", None) /\ disturbed' = disturbed \ {r}

\* A statement fails, or the process stops.
Fail(r) == pc[r] # "idle" /\ Answer(r) /\ UNCHANGED <<asked, category, tx, rule, raced>>

Free(r) == pc[r] = "idle" /\ asked < MaxAsked
Begin(r, statement, request) ==
  /\ asked' = asked + 1
  /\ Go(r, statement, request)
  /\ UNCHANGED <<category, tx, rule, history>>
-----------------------------------------------------------------------------
(* Categories.                                                             *)

\* createCategoryHandler and updateCategoryHandler: the name is not taken yet, in any
\* case.  A category keeps its type.
StartCategory(r, o, name, type) ==
  /\ \A p \in Created \ {o} : category[p].name # name
  /\ Row(category[o]) => category[o].type = type
  /\ category[o] # Deleted
  /\ Begin(r, "category", [id |-> o, row |-> [name |-> name, type |-> type], new |-> category[o] = None])

\* The INSERT or UPDATE: the index compares names with their case, so a name that
\* has been taken meanwhile is refused or, spelled differently, accepted.
WriteCategory(r) ==
  LET o == req[r].id
  IN  /\ pc[r] = "category"
      /\ IF req[r].new THEN category[o] = None ELSE Row(category[o])
      /\ category' = [category EXCEPT ![o] = req[r].row]
      /\ Answer(r)
      /\ UNCHANGED <<asked, tx, rule, raced>>

\* deleteCategoryHandler: no transaction has the category.
StartDeleteCategory(r, o) ==
  /\ o \in Created
  /\ \A t \in Rows : tx[t].category # o
  /\ Begin(r, "deleteCategory", [id |-> o])

\* The requests that use one of these categories, or remember one of these keys.
Touched(keys, ids) ==
  {q \in Requests : /\ pc[q] # "idle"
                    /\ \/ "category" \in DOMAIN req[q] /\ req[q].category \in ids
                       \/ "keys" \in DOMAIN req[q] /\ req[q].keys \cap keys # {}}

\* Faulty: the rules of the category stay.
DeleteCategoryOnly(r) ==
  LET o == req[r].id
  IN  /\ pc[r] = "deleteCategory"
      /\ o \in Created /\ \A t \in Rows : tx[t].category # o
      /\ category' = [category EXCEPT ![o] = Deleted]
      /\ Go(r, "idle", None)
      /\ disturbed' = (disturbed \cup Touched({}, {o})) \ {r}
      /\ UNCHANGED <<asked, tx, rule, raced>>

\* The DELETE: transactions forbid it (P2003), rules go with the category.
DeleteCategory(r) ==
  LET o    == req[r].id
      with == {u \in Rules : rule[u].category = o}
  IN  /\ pc[r] = "deleteCategory"
      /\ o \in Created /\ \A t \in Rows : tx[t].category # o
      /\ category' = [category EXCEPT ![o] = Deleted]
      /\ rule' = [u \in RuleIds |-> IF u \in with THEN Deleted ELSE rule[u]]
      /\ Go(r, "idle", None)
      /\ disturbed' = (disturbed \cup Touched({rule[u].key : u \in with}, {o})) \ {r}
      /\ UNCHANGED <<asked, tx, raced>>
-----------------------------------------------------------------------------
(* Transactions.                                                           *)

Input(t, type) == [type |-> type, merchant |-> MerchantOf[t], description |-> Nothing, channels |-> <<>>,
                   existing |-> "none", chosen |-> FALSE]

\* createTransactionHandler, and a sync that imports a transaction: the first has a
\* category of its type, the second the one the engine finds.
StartCreate(r, t, type, id, source) ==
  /\ tx[t] = None
  /\ IF source = "MANUAL" THEN id \in CategoryIds /\ TypeOf(id) = type
     ELSE \E order \in SetToSeqs(UserRules) : id = categorize(Usable, order, Input(t, type)).category
  /\ Begin(r, "create", [tx |-> t, category |-> id, row |-> [type |-> type, category |-> id, source |-> source]])

Create(r) ==
  /\ pc[r] = "create"
  /\ tx[req[r].tx] = None
  /\ req[r].category \in CategoryIds
  /\ tx' = [tx EXCEPT ![req[r].tx] = req[r].row]
  /\ Answer(r)
  /\ UNCHANGED <<asked, category, rule, raced>>

\* Faulty: a body with a type and no category is not checked.
StartPatchUnchecked(r, t, body) ==
  /\ t \in Rows
  /\ "category" \in DOMAIN body => body.category \in CategoryIds /\ TypeOf(body.category) = With(tx[t], body).type
  /\ Begin(r, "patch", [ts |-> {t}, body |-> body, read |-> [u \in {t} |-> tx[u]], category |-> With(tx[t], body).category])

\* updateTransactionHandler: the type it will have is the type of the category it
\* will have, as far as the row that was read tells.
StartPatch(r, t, body) ==
  /\ t \in Rows
  /\ LET row == With(tx[t], body)
     IN  /\ row.category \in CategoryIds
         /\ TypeOf(row.category) = row.type
         /\ Begin(r, "patch", [ts |-> {t}, body |-> body, read |-> [u \in {t} |-> tx[u]], category |-> row.category])

\* recategorizeImportedTransactionHandler, and bulkRecategorize... for several: every
\* transaction is imported and has the type of the category.  The rules to remember
\* are those of the merchants that have a key.
StartRecategorize(r, ts, id, remember) ==
  /\ ts # {} /\ ts \subseteq Rows
  /\ id \in CategoryIds
  /\ \A t \in ts : tx[t].source = "IMPORTED" /\ tx[t].type = TypeOf(id)
  /\ Begin(r, "patch",
           [ts |-> ts, body |-> [category |-> id], read |-> [t \in ts |-> tx[t]], category |-> id,
            keys |-> IF remember THEN {normalizeMerchant(MerchantOf[t]) : t \in ts} \ {Nothing} ELSE {},
            found |-> None])

\* convertImportedTransactionToManualHandler.
StartConvert(r, t) ==
  /\ t \in Rows /\ tx[t].source = "IMPORTED"
  /\ Begin(r, "patch", [ts |-> {t}, body |-> [source |-> "MANUAL"], read |-> [u \in {t} |-> tx[u]], category |-> tx[t].category])

\* updateTransaction, updateMany: the given fields of the rows that are still there.
Patch(r) ==
  LET body  == req[r].body
      ts    == req[r].ts \cap Rows
      stale == {t \in ts : \E f \in {"type", "category"} : tx[t][f] # req[r].read[t][f]}
  IN  /\ pc[r] = "patch"
      /\ "category" \in DOMAIN body => body.category \in CategoryIds
      /\ tx' = [t \in Transactions |-> IF t \in ts THEN With(tx[t], body) ELSE tx[t]]
      /\ raced' = IF DOMAIN body = {"source"} THEN raced ELSE (raced \ ts) \cup stale
      /\ IF "keys" \in DOMAIN req[r] /\ req[r].keys # {}
         THEN Go(r, "find", req[r]) /\ UNCHANGED disturbed
         ELSE Answer(r)
      /\ UNCHANGED <<asked, category, rule>>

DeleteTransaction(t) ==
  /\ t \in Rows
  /\ tx' = [tx EXCEPT ![t] = Deleted]
  /\ UNCHANGED <<asked, category, rule, pc, req, history>>
-----------------------------------------------------------------------------
(* Rules.                                                                  *)

Key(r) == CHOOSE key \in req[r].keys : TRUE

\* upsertUserCategoryRule: an existing rule is repointed, a missing one is inserted.
FindRule(r) ==
  /\ pc[r] = "find"
  /\ LET found == RuleFor(Key(r))
     IN  IF found = {} THEN Go(r, "insert", req[r])
         ELSE \E u \in found : Go(r, "repoint", [req[r] EXCEPT !.found = u])
  /\ UNCHANGED <<asked, category, tx, rule, history>>

\* The next merchant of the request, or the answer.
Remembered(r) ==
  LET rest == req[r].keys \ {Key(r)}
  IN  IF rest = {} THEN Answer(r) ELSE Go(r, "find", [req[r] EXCEPT !.keys = rest]) /\ UNCHANGED disturbed

\* Faulty: an insert that finds the merchant taken fails the request.
InsertRuleOnce(r) ==
  /\ pc[r] = "insert"
  /\ IF RuleFor(Key(r)) # {} THEN Go(r, "error", req[r]) /\ UNCHANGED <<rule, disturbed>>
     ELSE \E u \in RuleIds :
            /\ rule[u] = None /\ req[r].category \in CategoryIds
            /\ rule' = [rule EXCEPT ![u] = [key |-> Key(r), category |-> req[r].category, priority |-> 0, active |-> TRUE]]
            /\ Remembered(r)
  /\ UNCHANGED <<asked, category, tx, raced>>

\* The insert, or P2002 when the merchant has got a rule meanwhile.
InsertRule(r) ==
  /\ pc[r] = "insert"
  /\ IF RuleFor(Key(r)) # {} THEN Go(r, "refind", req[r]) /\ UNCHANGED <<rule, disturbed>>
     ELSE \E u \in RuleIds :
            /\ rule[u] = None /\ req[r].category \in CategoryIds
            /\ rule' = [rule EXCEPT ![u] = [key |-> Key(r), category |-> req[r].category, priority |-> 0, active |-> TRUE]]
            /\ Remembered(r)
  /\ UNCHANGED <<asked, category, tx, raced>>

\* After P2002: the rule that won is repointed; when it is gone the error is thrown.
FindRaced(r) ==
  /\ pc[r] = "refind"
  /\ LET found == RuleFor(Key(r))
     IN  IF found = {} THEN Go(r, "error", req[r])
         ELSE \E u \in found : Go(r, "repoint", [req[r] EXCEPT !.found = u])
  /\ UNCHANGED <<asked, category, tx, rule, history>>

\* The update of the rule that was found, which makes it active again.
RepointRule(r) ==
  /\ pc[r] = "repoint"
  /\ LET u == req[r].found
     IN  IF Row(rule[u]) /\ req[r].category \in CategoryIds
         THEN /\ rule' = [rule EXCEPT ![u].category = req[r].category, ![u].active = TRUE]
              /\ Remembered(r)
         ELSE Go(r, "error", req[r]) /\ UNCHANGED <<rule, disturbed>>
  /\ UNCHANGED <<asked, category, tx, raced>>

\* createTransactionCategoryRuleHandler and updateTransactionCategoryRuleHandler: the
\* merchant of the body is normalised, and no other rule has it.  The page for an
\* edit sends the key it was shown, which is normalised again.
StartRule(r, u, merchant, body) ==
  LET key == normalizeMerchant(merchant)
      row == With(IF u \in Rules THEN rule[u] ELSE [priority |-> 0, active |-> TRUE], body)
  IN  /\ key # Nothing
      /\ "category" \in DOMAIN row /\ row.category \in CategoryIds
      /\ RuleFor(key) \subseteq {u}
      /\ Begin(r, "rule", [id |-> u, body |-> With(IF u \in Rules THEN body ELSE row, [key |-> key]),
                           new |-> rule[u] = None, category |-> row.category])

\* The INSERT, or the UPDATE of the fields that are given.
WriteRule(r) ==
  LET u    == req[r].id
      body == req[r].body
  IN  /\ pc[r] = "rule"
      /\ IF req[r].new THEN rule[u] = None ELSE Row(rule[u])
      /\ "category" \in DOMAIN body => body.category \in CategoryIds
      /\ RuleFor(body.key) \subseteq {u}
      /\ rule' = [rule EXCEPT ![u] = IF req[r].new THEN body ELSE With(@, body)]
      /\ disturbed' = (disturbed \cup Touched(IF Row(rule[u]) THEN {rule[u].key} ELSE {}, {})) \ {r}
      /\ Go(r, "idle", None)
      /\ UNCHANGED <<asked, category, tx, raced>>

DeleteRule(u) ==
  /\ u \in Rules
  /\ rule' = [rule EXCEPT ![u] = Deleted]
  /\ disturbed' = disturbed \cup Touched({rule[u].key}, {})
  /\ UNCHANGED <<asked, category, tx, pc, req, raced>>
-----------------------------------------------------------------------------
Ask(r) ==
  \/ \E o \in Own, name \in Names, type \in Type : StartCategory(r, o, name, type)
  \/ \E o \in Own : StartDeleteCategory(r, o)
  \/ \E t \in Transactions, type \in Type, id \in CategoryIds :
       \E source \in {"MANUAL", "IMPORTED"} : StartCreate(r, t, type, id, source)
  \/ \E t \in Transactions :
       \/ \E type \in Type : StartPatch(r, t, [type |-> type])
       \/ \E id \in CategoryIds : \/ StartPatch(r, t, [category |-> id])
                                  \/ StartPatch(r, t, [category |-> id, type |-> TypeOf(id)])
       \/ StartConvert(r, t)
  \/ \E ts \in SUBSET Transactions, id \in CategoryIds, remember \in BOOLEAN :
       StartRecategorize(r, ts, id, remember)
  \/ \E u \in RuleIds, body \in RuleBodies :
       \E merchant \in Texts \cup (IF u \in Rules THEN {rule[u].key} ELSE {}) :
         rule[u] # Deleted /\ StartRule(r, u, merchant, body)

Next ==
  \/ \E r \in Requests :
       \/ Free(r) /\ Ask(r)
       \/ WriteCategory(r) \/ DeleteCategory(r) \/ Create(r) \/ Patch(r)
       \/ FindRule(r) \/ InsertRule(r) \/ FindRaced(r) \/ RepointRule(r) \/ WriteRule(r)
       \/ Fail(r)
  \/ \E t \in Transactions : DeleteTransaction(t)
  \/ \E u \in RuleIds : DeleteRule(u)

Spec == Init /\ [][Next]_vars
-----------------------------------------------------------------------------
TypeOK ==
  /\ \A o \in Created : category[o] \in CategoryRow
  /\ \A t \in Rows : tx[t] \in TransactionRow /\ tx[t].category \in CategoryIds
  /\ \A u \in Rules : rule[u] \in RuleRow /\ rule[u].category \in CategoryIds /\ rule[u].key # Nothing
  /\ \A r \in Requests : pc[r] = "idle" <=> req[r] = None
  /\ raced \subseteq Transactions /\ disturbed \subseteq Requests

\* The type of a transaction is the type of its category, whatever creates, imports,
\* changes or recategorises it, unless two changes of that transaction were checked
\* against the same row: the check of one change is enough for the type and for the
\* category it does not give.
TypesAgreeUnlessRaced == \A t \in Rows \ raced : TypeOf(tx[t].category) = tx[t].type

\* Two requests that remember a choice for the same merchant both succeed: the one
\* whose insert loses repoints the rule that won.  Only a rule or category that is
\* taken away meanwhile makes a remembering request fail.
RememberSucceeds == \A r \in Requests : pc[r] = "error" => r \in disturbed

\* What a user has taught for a merchant is what the engine finds for every text with
\* that key: it is the longest key that matches, so only a usable rule of a higher
\* priority comes before it.  And the order in which the rules are read is irrelevant.
LearnedRuleDecides ==
  \A u \in Rules : rule[u].active =>
    \A text \in Texts : normalizeMerchant(text) = rule[u].key =>
      \A order \in SetToSeqs(UserRules) :
        LET type == TypeOf(rule[u].category)
            found == categorize(Usable, order, [Input(CHOOSE t \in Transactions : TRUE, type) EXCEPT !.merchant = text])
        IN  \/ found = Outcome(rule[u].category, "USER_RULE")
            \/ \E v \in Rules : /\ rule[v].active /\ rule[v].priority > rule[u].priority
                                /\ TypeOf(rule[v].category) = type
                                /\ found = Outcome(rule[v].category, "USER_RULE")
=============================================================================
