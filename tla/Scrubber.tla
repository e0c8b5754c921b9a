-------------------------------- MODULE Scrubber --------------------------------
(* packages/core/src/privacy/scrubber.ts: sensitive values replaced by tokens    *)
(* and put back.  A text is a sequence of spans; a span is plain words, a value  *)
(* with the set of rules whose pattern finds it, or a token.  Which strings a    *)
(* pattern finds is left to the span.                                            *)
EXTENDS CoreTime, SequencesExt

\* Order matters: the first rule that finds a value owns it.
RuleOrder == <<"EMAIL", "SSN", "FINANCIAL", "PHONE", "ADDRESS", "CORP_LOGO">>

Words(w) == [kind |-> "words", text |-> w]
Value(v, rules) == [kind |-> "value", text |-> v, rules |-> rules]
Token(type, n) == [kind |-> "token", type |-> type, n |-> n]

Finds(type, span) == span.kind = "value" /\ type \in span.rules

\* A broken form of the next definition: a number is not kept per value.
KnownNever(map, type, span) == {}

\* The entries a rule already made for this very value.
Known(map, type, span) ==
    {e \in ToSet(map) : e.token.type = type /\ e.original = span}

\* One rule at one span: a value found becomes the token of its first occurrence,
\* numbered per type.
ApplyAt(acc, span, type) ==
    LET known == Known(acc.map, type, span)
        fresh == Token(type, 1 + Cardinality({e \in ToSet(acc.map) : e.token.type = type}))
    IN  CASE ~Finds(type, span) -> [text |-> Append(acc.text, span), map |-> acc.map]
          [] Finds(type, span) /\ known # {} ->
                [text |-> Append(acc.text, (CHOOSE e \in known : TRUE).token), map |-> acc.map]
          [] OTHER -> [text |-> Append(acc.text, fresh),
                       map |-> Append(acc.map, [token |-> fresh, original |-> span])]

\* One rule over the text.
ApplyRule(state, type) ==
    FoldLeft(LAMBDA acc, span : ApplyAt(acc, span, type), [text |-> <<>>, map |-> state.map], state.text)

\* The scrubbed text and the token map.
Scrub(text) == FoldLeft(ApplyRule, [text |-> text, map |-> <<>>], RuleOrder)

Matches(span, entry) == span = entry.token

\* Every token of the map, wherever it stands, becomes its original again.
Unscrub(text, map) ==
    [i \in DOMAIN text |->
        IF \E e \in ToSet(map) : Matches(text[i], e)
        THEN (CHOOSE e \in ToSet(map) : Matches(text[i], e)).original ELSE text[i]]

-----------------------------------------------------------------------------
\* The text came without a token of its own.
NoTokens(text) == \A i \in DOMAIN text : text[i].kind # "token"

\* Nothing a rule finds is left, equal values get one token and different values
\* different ones, and a text that held no token comes back as it was.
ScrubsAndRestores(text, out) ==
    /\ \A i \in DOMAIN out.text : \A type \in ToSet(RuleOrder) : ~Finds(type, out.text[i])
    /\ Len(out.text) = Len(text)
    /\ \A i, j \in DOMAIN text : text[i].kind = "value" /\ text[j].kind = "value" =>
          (text[i] = text[j] <=> out.text[i] = out.text[j])
    /\ NoTokens(text) => Unscrub(out.text, out.map) = text
=============================================================================
