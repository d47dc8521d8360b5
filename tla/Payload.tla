------------------------------ MODULE Payload -------------------------------
(***************************************************************************)
(* What becomes of an answer's fields before they are validated: the       *)
(* passes of clean_json_payload (utils/agent_json.py) with their helpers   *)
(* in core/agents/prompt_agent.py, in their order, and the validation that *)
(* run_with_spec goes by.  A field is cleaned without a look at the        *)
(* others, so that a behaviour is of one; an answer that is no object has  *)
(* none of its fields.                                                     *)
(*                                                                         *)
(* A JSON value is a tuple that begins with its kind.  A text is the       *)
(* sequence of its parts between newlines and semicolons; a number is not  *)
(* zero, but for the one that stands for a missing field.  As in           *)
(* dr_rd/schemas, an object is a field or an item of a list, and what it   *)
(* has is neither list nor object: the passes, which recurse over any      *)
(* value, are told level by level, from what an object has to the field.   *)
(***************************************************************************)
EXTENDS Naturals, Sequences, SequencesExt

CONSTANT MaxItems   \* bound: the items of a list that an answer gives

ASSUME ItemsAssumption == MaxItems \in Nat

VARIABLES
    field,     \* the name of the property in the schema
    relaxed,   \* whether the schema is a fallback one
    given,     \* what the answer has for it
    value,     \* what the passes have made of that
    cleaning   \* the next pass, or the verdict

payloadVars == <<field, relaxed, given, value, cleaning>>

Missing == <<"missing">>
Null == <<"null">>
Number == <<"number">>
Text(parts) == <<"text", parts>>
List(items) == <<"list", items>>
Object(fields) == <<"object", fields>>
Is(v, kind) == v[1] = kind

-----------------------------------------------------------------------------
(* Schemas: the kinds of properties that dr_rd/schemas has. *)

Scalar(types) == [types |-> types]
ArrayOf(items, null) == [types |-> {"list"} \cup null, items |-> items]
ObjectOf(props, required, null) ==
    [types |-> {"object"} \cup null, props |-> props, required |-> required]

Source == ObjectOf([key \in {"id", "title", "url"} |-> Scalar({"text"})], {"id", "title"}, {})

\* In the fallback schemas whatever is not an item may be null, and only the items
\* of sources still require something.
Nulls(relax) == IF relax THEN {"null"} ELSE {}
Having(keys, types, relax, null) ==
    ObjectOf([key \in keys |-> Scalar(types \cup Nulls(relax))],
             IF relax THEN {} ELSE keys, null)
Property(name, relax) ==
    LET null == Nulls(relax)
    IN  CASE name = "summary" -> Scalar({"text"} \cup null)
          [] name \in {"npv", "confidence"} -> Scalar({"number"} \cup null)
          [] name \in {"risks", "text sources"} -> ArrayOf(Scalar({"text"}), null)
          [] name = "findings" ->
                 ArrayOf(Having({"claim", "evidence"}, {"text"}, relax, {}), null)
          [] name = "sources" -> ArrayOf(Source, null)
          [] name = "unit_economics" -> Having({"total_cost"}, {"number"}, relax, null)

Described == {"summary", "npv", "confidence", "risks", "text sources", "findings",
           "sources", "unit_economics"}

\* What the keys of an object in an answer may be, one of them unknown to the schema.
Keys(name) == CASE name \in {"sources", "text sources"} -> {"id", "title", "url"}
                [] name = "findings" -> {"claim", "evidence"}
                [] OTHER -> {"total_cost", "comment"}

GivenTexts == {Text(<<>>), Text(<<" ">>), Text(<<"word">>), Text(<<"-40">>),
          Text(<<"- word", "- word">>), Text(<<"[word](word)">>)}
Scalars == GivenTexts \cup {Null, Number}
ObjectsOf(name) ==
    {Object(o) : o \in UNION {[ks -> {Number, Text(<<" ">>), Text(<<"word">>)}] :
                                  ks \in SUBSET Keys(name)}}
Items(name) == Scalars \cup ObjectsOf(name)
Lists(name) == {List(s) : s \in UNION {[1 .. n -> Items(name)] : n \in 0 .. MaxItems}}
Givens(name) == {Missing} \cup Items(name) \cup Lists(name)

PayloadInit ==
    /\ field = "summary" /\ relaxed = FALSE
    /\ given = Missing /\ value = Missing /\ cleaning = "asked"

\* The model answers, against one of the schemas.
Receive ==
    /\ cleaning = "asked" /\ cleaning' = "sanitize"
    /\ field' \in Described /\ relaxed' \in BOOLEAN
    /\ given' \in Givens(field')
    /\ value' = given'

-----------------------------------------------------------------------------
(* sanitize_sources. *)

\* What has a value that Python takes for true, and what has one after strip().
Truthy(o, key) == key \in DOMAIN o /\ o[key] \notin {Null, Text(<<>>)}
Filled(o, key) == Truthy(o, key) /\ o[key] # Text(<<" ">>)

\* The first of some keys with a true value is stripped, which only a text can be.
Unstrippable(o, keys) ==
    \E i \in DOMAIN keys :
        /\ Truthy(o, keys[i]) /\ ~ Is(o[keys[i]], "text")
        /\ \A j \in 1 .. i - 1 : ~ Truthy(o, keys[j])

IsLink(v) == v = Text(<<"[word](word)">>)
Word == Text(<<"word">>)
SourceOf(keys) == Object([key \in keys |-> Word])

\* Text sources: the sequence of what a source becomes, empty if it is dropped.
AsText(v) ==
    CASE Is(v, "text") -> IF IsLink(v) THEN <<Word>>
                          ELSE IF v \in {Text(<<>>), Text(<<" ">>)} THEN <<>> ELSE <<v>>
      [] Is(v, "object") ->
             IF Filled(v[2], "title") \/ Filled(v[2], "url") THEN <<Word>> ELSE <<>>
      [] OTHER -> <<>>

\* An id of spaces is not taken for none, as an empty one is; the title's slug
\* stands in for the latter, and only a url for the former.
AsObject(v) ==
    CASE Is(v, "text") ->
             IF v \in {Text(<<>>), Text(<<" ">>)} THEN <<>>
             ELSE <<SourceOf({"id", "title", "url"})>>
      [] Is(v, "object") ->
             LET o == v[2]
                 url == Filled(o, "url")
                 sid == url \/ Filled(o, "id")
                        \/ (~ Truthy(o, "id") /\ ~ Truthy(o, "url"))
                 title == url \/ Filled(o, "title")
             IN  IF sid /\ title
                 THEN <<SourceOf({"id", "title"} \cup IF url THEN {"url"} ELSE {})>>
                 ELSE <<>>
      [] OTHER -> <<>>

Each(Op(_), s) == FlattenSeq([i \in DOMAIN s |-> Op(s[i])])

SourceKeys == IF field = "sources" THEN {<<"title", "url">>, <<"id", "url">>, <<"url">>}
              ELSE {<<"title">>, <<"url">>}

Raising(items) ==
    \E i \in DOMAIN items : /\ Is(items[i], "object")
                            /\ \E keys \in SourceKeys : Unstrippable(items[i][2], keys)

Sourced(v) == field \in {"sources", "text sources"} /\ Is(v, "list")
Sanitized(v) ==
    IF ~ Sourced(v) THEN v
    ELSE List(IF field = "sources" THEN Each(AsObject, v[2]) ELSE Each(AsText, v[2]))

Sanitize ==
    /\ cleaning = "sanitize"
    /\ \/ /\ Sourced(value) /\ Raising(value[2])
          /\ cleaning' = "raised" /\ UNCHANGED value
       \/ /\ ~ (Sourced(value) /\ Raising(value[2]))
          /\ cleaning' = "strip" /\ value' = Sanitized(value)

-----------------------------------------------------------------------------
(* The passes that follow the schema. *)

\* What the schema has no object for keeps none of its keys.
StripObject(v, sch) ==
    LET props == IF "object" \in sch.types THEN sch.props ELSE <<>>
    IN  IF Is(v, "object")
        THEN Object([key \in DOMAIN v[2] \cap DOMAIN props |-> v[2][key]])
        ELSE v

ItemsOf(sch) == IF "list" \in sch.types THEN sch.items ELSE Scalar({})

Strip(v, sch) ==
    IF Is(v, "list") THEN List([i \in DOMAIN v[2] |-> StripObject(v[2][i], ItemsOf(sch))])
                     ELSE StripObject(v, sch)

\* One dash or asterisk goes, a number's minus sign too.
StripBullet(part) ==
    CASE part = "- word" -> "word" [] part = "-40" -> "40" [] OTHER -> part

Bare(part) == IF part = " " THEN <<>> ELSE <<StripBullet(part)>>
Split(v) == Each(Bare, v[2])

\* An item of a list is stripped as a whole, and not split.
BareItem(v) ==
    IF ~ Is(v, "text") \/ v \in {Text(<<>>), Text(<<" ">>)} THEN <<>>
    ELSE <<Text(Bare(Head(v[2])) \o Tail(v[2]))>>

Single(part) == <<Text(<<part>>)>>
Parts(v) == v[2]

NormalizeScalar(v, sch) ==
    IF "text" \notin sch.types THEN v
    ELSE Text(CASE Is(v, "list") -> Each(Parts, Each(BareItem, v[2]))
                [] Is(v, "text") -> Split(v)
                [] OTHER -> <<>>)

NormalizeObject(v, sch) ==
    IF "object" \notin sch.types THEN NormalizeScalar(v, sch)
    ELSE Object(IF Is(v, "object")
                THEN [key \in DOMAIN v[2] \cap DOMAIN sch.props |->
                         NormalizeScalar(v[2][key], sch.props[key])]
                ELSE <<>>)

Normalize(v, sch) ==
    CASE "list" \notin sch.types -> NormalizeObject(v, sch)
      [] "list" \in sch.types /\ "text" \in sch.items.types ->
             List(CASE Is(v, "text") -> Each(Single, Split(v))
                    [] Is(v, "list") -> Each(BareItem, v[2])
                    [] OTHER -> <<>>)
      [] "list" \in sch.types /\ "text" \notin sch.items.types ->
             List(IF Is(v, "list")
                  THEN [i \in DOMAIN v[2] |-> NormalizeObject(v[2][i], sch.items)]
                  ELSE <<>>)

EmptyScalar(sch) == IF "number" \in sch.types THEN Number ELSE Text(<<"Not determined">>)
EmptyPayload(sch) ==
    CASE "object" \in sch.types ->
             Object([key \in DOMAIN sch.props |-> EmptyScalar(sch.props[key])])
      [] "list" \in sch.types -> List(<<>>)
      [] OTHER -> EmptyScalar(sch)

\* Mutant: a missing field is normalized like one that is there.
CleanedAlways(v, sch) == Normalize(v, sch)

\* A missing field is not normalized, but filled from make_empty_payload; a field
\* that is there keeps what it lacks.
Cleaned(v, sch) == IF v = Missing THEN EmptyPayload(sch) ELSE Normalize(v, sch)

StripUnknown ==
    /\ cleaning = "strip" /\ cleaning' = "normalize"
    /\ value' = Strip(value, Property(field, relaxed))

\* The passes after this one, coerce_types and another stripping, find nothing to do.
NormalizeAndFill ==
    /\ cleaning = "normalize" /\ cleaning' = "validate"
    /\ value' = Cleaned(value, Property(field, relaxed))

\* Words become a score, and what is neither number nor word becomes null.
Confidence(v) == IF Is(v, "text") THEN Number ELSE IF Is(v, "number") THEN v ELSE Null

ValidObject(v, sch) ==
    /\ v[1] \in sch.types
    /\ Is(v, "object") =>
           /\ sch.required \subseteq DOMAIN v[2]
           /\ \A key \in DOMAIN v[2] : v[2][key][1] \in sch.props[key].types
Validates(v, sch) ==
    /\ ValidObject(v, sch)
    /\ Is(v, "list") => \A i \in DOMAIN v[2] : ValidObject(v[2][i], sch.items)

Validate ==
    /\ cleaning = "validate"
    /\ value' = IF field = "confidence" THEN Confidence(value) ELSE value
    /\ cleaning' = IF Validates(value', Property(field, relaxed)) THEN "valid" ELSE "invalid"

PayloadNext ==
    \/ Receive
    \/ /\ Sanitize \/ StripUnknown \/ NormalizeAndFill \/ Validate
       /\ UNCHANGED <<field, relaxed, given>>

PayloadSpec == PayloadInit /\ [][PayloadNext]_payloadVars

-----------------------------------------------------------------------------
(* What a field may be given as, told without the passes. *)

\* A source's title, url or id that is a number; text sources have no use for ids.
Raises ==
    /\ field \in {"sources", "text sources"} /\ Is(given, "list")
    /\ \E i \in DOMAIN given[2] :
          /\ Is(given[2][i], "object")
          /\ \E key \in DOMAIN given[2][i][2] :
                /\ given[2][i][2][key] = Number
                /\ key = "id" => field = "sources"

Holds(v, key) == Is(v, "object") /\ key \in DOMAIN v[2]
Costs(v) == Holds(v, "total_cost") => v[2]["total_cost"] = Number

\* A field may always be left out; a text or a list of them may be anything.
Acceptable ==
    \/ given = Missing \/ field \in {"summary", "risks"}
    \/ field \in {"sources", "text sources"} /\ ~ Raises
    \/ field = "npv" /\ given \in {Number} \cup IF relaxed THEN {Null} ELSE {}
    \/ field = "confidence" /\ (relaxed \/ given \in {Number} \cup GivenTexts)
    \/ field = "findings" /\
           (relaxed \/ (Is(given, "list") => \A i \in DOMAIN given[2] :
                          Holds(given[2][i], "claim") /\ Holds(given[2][i], "evidence")))
    \/ field = "unit_economics" /\ Costs(given) /\ (relaxed \/ Holds(given, "total_cost"))

WordsOf(v) == IF Is(v, "text") THEN Split(v) ELSE <<>>
Words(v) == IF Is(v, "list") THEN Each(WordsOf, v[2]) ELSE WordsOf(v)

\* An answer's field is accepted, rejected or the end of the call exactly where it
\* is acceptable or raises, and what is accepted has every word that was given
\* as text, in order: numbers and objects among texts are dropped without a trace.
CleanedAsGiven ==
    cleaning \in {"valid", "invalid", "raised"} =>
        /\ cleaning = "raised" <=> Raises
        /\ cleaning = "valid" <=> Acceptable
        /\ field \in {"summary", "risks"} /\ given # Missing => Words(value) = Words(given)
=============================================================================
