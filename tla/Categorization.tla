--------------------------- MODULE Categorization ---------------------------
(***************************************************************************)
(* The categorisation engine (server/src/services/categorization): which   *)
(* category a transaction gets, from the category it has, the rules of its *)
(* user, the built-in rules and the defaults.  A text is a sequence of     *)
(* tokens, whose spelling matters only for the classes they belong to and  *)
(* for their length.                                                       *)
(*                                                                         *)
(* Left out: Unicode folding, punctuation and confidence values.           *)
(***************************************************************************)
EXTENDS Integers, SequencesExt

CONSTANTS
  Size,          \* of each token, the number of its characters
  Noise,         \* the tokens isNoiseToken accepts, numbers of three digits among them
  Digits,        \* the shorter numbers
  Country,       \* TRAILING_COUNTRY_CODES
  MerchantRules, DescriptionRules,  \* the built-in rules, in the order of their declaration
  ChannelRules,  \* and the rules for a channel token
  DefaultName    \* of each type, the name of the category that is used in default

Type == {"INCOME", "EXPENSE"}
Token == DOMAIN Size
Nothing == <<>>   \* null, as a text or a key

\* isNoiseToken drops a token, and a number behind a dropped one belongs to it.
normalizeTokens(text) ==
  LET Read(kept, w) ==
        IF w \in Noise THEN [kept EXCEPT !.previousWasNoise = TRUE]
        ELSE IF kept.previousWasNoise /\ w \in Digits THEN kept
        ELSE [tokens |-> Append(kept.tokens, w), previousWasNoise |-> FALSE]
      read[n \in 0..Len(text)] ==
        IF n = 0 THEN [tokens |-> Nothing, previousWasNoise |-> FALSE]
        ELSE Read(read[n - 1], text[n])
  IN  read[Len(text)].tokens

\* normalizeMerchant: a country code at the end is dropped, unless it is all there is.
normalizeMerchant(text) ==
  LET tokens == normalizeTokens(text)
  IN  IF Len(tokens) > 1 /\ Last(tokens) \in Country THEN Front(tokens) ELSE tokens

\* Faulty: a phrase is found only at the start of the text.
matchesPrefix(text, phrase) == phrase # Nothing /\ IsPrefix(phrase, text)

\* The phrase occurs in the text, on the boundaries of tokens.
matchesPhrase(text, phrase) ==
  /\ phrase # Nothing
  /\ \E i \in 0..(Len(text) - Len(phrase)) : SubSeq(text, i + 1, i + Len(phrase)) = phrase

\* key.length: the characters of a key, with a space between tokens.
Length(key) ==
  LET upTo[n \in 0..Len(key)] == IF n = 0 THEN Len(key) - 1 ELSE upTo[n - 1] + Size[key[n]]
  IN  upTo[Len(key)]

\* The alphabetic order of two keys, for which the order of the tokens' sizes and
\* then any fixed order will do.
localeCompare(key, other) == key # other /\ key = CHOOSE k \in {key, other} : TRUE

\* Faulty: the length of the keys is not looked at.
BeforeUnsized(a, b) ==
  \/ a.priority > b.priority
  \/ a.priority = b.priority /\ localeCompare(a.key, b.key)

\* Faulty: rules of the same priority and length stay in the order they were read.
BeforeUnstable(a, b) ==
  \/ a.priority > b.priority
  \/ a.priority = b.priority /\ Length(a.key) > Length(b.key)

\* The order of the user's rules: priority, then the longer key, then the alphabet.
Before(a, b) ==
  \/ a.priority > b.priority
  \/ a.priority = b.priority /\ Length(a.key) > Length(b.key)
  \/ a.priority = b.priority /\ Length(a.key) = Length(b.key) /\ localeCompare(a.key, b.key)

\* Array.prototype.sort, which is stable: every element is inserted behind those
\* that are not after it.
Inserted(done, rule) ==
  InsertAt(done, Cardinality({i \in DOMAIN done : ~Before(rule, done[i])}) + 1, rule)
Sorted(rules) ==
  LET sort[n \in 0..Len(rules)] == IF n = 0 THEN <<>> ELSE Inserted(sort[n - 1], rules[n])
  IN  sort[Len(rules)]

\* orderBySpecificity: the longest key, and of two the one declared first.
MostSpecific(rules) ==
  CHOOSE i \in DOMAIN rules :
    \A j \in DOMAIN rules : \/ Length(rules[j].key) < Length(rules[i].key)
                            \/ Length(rules[j].key) = Length(rules[i].key) /\ i <= j
-----------------------------------------------------------------------------
None_ == [category |-> "none", reason |-> "none"]
Outcome(category, reason) == [category |-> category, reason |-> reason]

\* A category is a record of an id, a name, a type and whether it is the user's own;
\* a user's category comes later in the list, and so takes the place of the system's
\* one of the same name, whatever its type.
byName(categories, name) ==
  LET named == {c \in categories : c.name = name}
      own   == {c \in named : c.own}
  IN  IF own # {} THEN {CHOOSE c \in own : TRUE} ELSE named

usableByName(categories, name, type) == {c \in byName(categories, name) : c.type = type}
usableById(categories, id, type)     == {c \in categories : c.id = id /\ c.type = type}

\* Faulty: the type of the category of a rule is not compared.
usableByIdAny(categories, id, type) == {c \in categories : c.id = id}

\* The first of the user's rules that matches and whose category is usable.
FromUserRules(categories, userRules, input) ==
  LET merchant == normalizeMerchant(input.merchant)
      rules == Sorted(userRules)
      first == SelectInSeq(rules, LAMBDA rule :
                 /\ matchesPhrase(merchant, rule.key)
                 /\ usableById(categories, rule.category, input.type) # {})
  IN  IF first = 0 THEN {} ELSE usableById(categories, rules[first].category, input.type)

\* The most specific built-in rule that matches and whose category is usable.
FromTable(categories, rules, text, type) ==
  LET hits == SelectSeq(rules, LAMBDA rule :
                 /\ matchesPhrase(text, rule.key)
                 /\ usableByName(categories, rule.name[type], type) # {})
  IN  IF hits = <<>> THEN {} ELSE usableByName(categories, hits[MostSpecific(hits)].name[type], type)

\* The first channel token that has a rule whose category is usable.
FromChannels(categories, channels, type) ==
  LET rulesOf(token) == SelectSeq(ChannelRules, LAMBDA rule : rule.key = token)
      found(token)   == IF rulesOf(token) = <<>> THEN {}
                        ELSE usableByName(categories, rulesOf(token)[1].name[type], type)
      hits           == SelectSeq(channels, LAMBDA token : found(token) # {})
  IN  IF hits = <<>> THEN {} ELSE found(hits[1])

\* categorize: the first tier that knows a usable category.
categorize(categories, userRules, input) ==
  LET tiers ==
        << <<"MANUAL", IF input.chosen THEN usableById(categories, input.existing, input.type) ELSE {}>>,
           <<"USER_RULE", FromUserRules(categories, userRules, input)>>,
           <<"MERCHANT_RULE", FromTable(categories, MerchantRules, normalizeMerchant(input.merchant), input.type)>>,
           <<"PAYMENT_CHANNEL_RULE", FromChannels(categories, input.channels, input.type)>>,
           <<"DESCRIPTION_RULE", FromTable(categories, DescriptionRules, input.description, input.type)>>,
           <<"EXISTING_CATEGORY",
             IF input.chosen THEN {} ELSE usableById(categories, input.existing, input.type)>>,
           <<"DEFAULT_CATEGORY", usableByName(categories, DefaultName[input.type], input.type)>> >>
      first == SelectInSeq(tiers, LAMBDA tier : tier[2] # {})
  IN  IF first = 0 THEN None_
      ELSE Outcome((CHOOSE c \in tiers[first][2] : TRUE).id, tiers[first][1])
=============================================================================
