------------------------------ MODULE ModelRoute ----------------------------
(***************************************************************************)
(* The choice of a model by purpose, role, size and budget                 *)
(* (core/llm/model_router.py over config/models.yaml and budgets.yaml),    *)
(* and the call of it with one failover (core/llm/clients.py).             *)
(***************************************************************************)
EXTENDS Naturals, Sequences, FiniteSets

CONSTANT SizeHints      \* tokens that a request is expected to need

ASSUME SizeAssumption == SizeHints \subseteq Nat

VARIABLES
    decision,   \* <<model>> \o backups; empty before the choice, or without one
    modelAt,    \* "choose", "call", "failover", "answered" or "raised"
    size,
    triedModels

modelVars == <<decision, modelAt, size, triedModels>>

ModelSpecOf(provider, purpose, ctx, price) ==
    [provider |-> provider, purpose |-> purpose, ctx |-> ctx, price |-> price]

ModelNames == {"gpt-4.1-mini", "gpt-4o", "claude-3-5-sonnet", "gemini-1.5-pro"}

\* Prices in thousandths.
Models == [n \in ModelNames |->
    CASE n = "gpt-4.1-mini" -> ModelSpecOf("openai", {"plan", "exec", "synth"}, 128000, 150)
      [] n = "gpt-4o" -> ModelSpecOf("openai", {"exec", "vision"}, 128000, 500)
      [] n = "claude-3-5-sonnet" -> ModelSpecOf("anthropic", {"exec", "synth"}, 200000, 3000)
      [] n = "gemini-1.5-pro" -> ModelSpecOf("google", {"exec", "vision"}, 1000000, 1250)]

Candidates(preferred, backups) == [preferred |-> preferred, backups |-> backups]

Defaults == [p \in {"plan", "exec", "synth"} |->
    IF p = "exec" THEN Candidates(<<"gpt-4.1-mini", "gpt-4o">>, <<"gemini-1.5-pro">>)
                  ELSE Candidates(<<"gpt-4.1-mini">>, <<"claude-3-5-sonnet">>)]

\* Of the purpose "exec".
Role_overrides == [r \in {"Research Scientist", "Regulatory", "IP Analyst", "QA"} |->
    CASE r = "Research Scientist" -> Candidates(<<"claude-3-5-sonnet", "gpt-4o">>, <<>>)
      [] r = "Regulatory" -> Candidates(<<"gpt-4.1-mini">>, <<"gemini-1.5-pro">>)
      [] r = "IP Analyst" -> Candidates(<<"gpt-4o">>, <<"claude-3-5-sonnet">>)
      [] r = "QA" -> Candidates(<<"gpt-4o">>, <<"gpt-4.1-mini">>)]

ListCandidates(purpose, role) ==
    IF purpose = "exec" /\ role \in DOMAIN Role_overrides
    THEN Role_overrides[role] ELSE Defaults[purpose]

\* 0: no budget.  Those of "exec" are a test's.
MaxTokens == {<<"plan", 200>>, <<"plan", 500>>, <<"plan", 1000>>, <<"synth", 200>>,
              <<"synth", 500>>, <<"synth", 1000>>, <<"exec", 0>>, <<"exec", 10>>}

-----------------------------------------------------------------------------
ModelInit ==
    /\ decision = <<>> /\ modelAt = "choose" /\ size \in SizeHints /\ triedModels = <<>>

\* Mutant: candidates are taken whatever they hold.
FittingAll(models) == models

\* Those with room, in their order: the k-th has k - 1 before it.
Fitting(models) ==
    LET room == {i \in DOMAIN models : Models[models[i]].ctx >= size}
        Place(i) == Cardinality({j \in room : j <= i})
    IN  [k \in 1 .. Cardinality(room) |-> models[CHOOSE i \in room : Place(i) = k]]

\* The chosen model before its backups.
ByRoom(c) ==
    LET preferred == Fitting(c.preferred) IN preferred \o Fitting(c.backups)

OfProvider(m, purpose) ==
    {n \in DOMAIN Models : Models[n].provider = Models[m].provider /\ purpose \in Models[n].purpose}

\* The cheapest model of the provider, in front.  Its context is not looked at.
Downshift(d, purpose) ==
    LET cheaper == CHOOSE n \in OfProvider(d[1], purpose) :
                      \A o \in OfProvider(d[1], purpose) : Models[n].price <= Models[o].price
    IN  IF cheaper = d[1] THEN d ELSE <<cheaper>> \o d

Swapped(d) == <<d[2], d[1]>> \o SubSeq(d, 3, Len(d))

\* A gray probe takes the first backup in front.
Probes(d) == IF Len(d) > 1 THEN {d, Swapped(d)} ELSE {d}

\* Without a model that has room, or without one of the provider for the purpose,
\* an index is out of range.
NoModel(d, purpose, risk) ==
    d = <<>> \/ (risk /\ OfProvider(d[1], purpose) = {})

ChooseModel ==
    /\ modelAt = "choose"
    /\ \E budget \in MaxTokens, role \in DOMAIN Role_overrides \cup {"CTO"} :
          LET purpose == budget[1]
              risk == budget[2] # 0 /\ size > budget[2]
              d == ByRoom(ListCandidates(purpose, role))
          IN  IF NoModel(d, purpose, risk)
              THEN modelAt' = "raised" /\ UNCHANGED decision
              ELSE /\ decision' \in Probes(IF risk THEN Downshift(d, purpose) ELSE d)
                   /\ modelAt' = "call"
    /\ UNCHANGED <<size, triedModels>>

\* Only the models of one provider can be called.
CallModel ==
    /\ modelAt \in {"call", "failover"}
    /\ triedModels' = Append(triedModels, decision[1])
    /\ \/ /\ Models[decision[1]].provider = "openai"
          /\ modelAt' = "answered" /\ UNCHANGED decision
       \/ /\ modelAt = "call" /\ Len(decision) > 1
          /\ decision' = Tail(decision) /\ modelAt' = "failover"
       \/ /\ modelAt = "failover" \/ Len(decision) = 1
          /\ modelAt' = "raised" /\ UNCHANGED decision
    /\ UNCHANGED size

ModelNext == ChooseModel \/ CallModel

ModelRouteSpec == ModelInit /\ [][ModelNext]_modelVars

-----------------------------------------------------------------------------
ModelTypeOK ==
    /\ decision \in Seq(DOMAIN Models)
    /\ modelAt \in {"choose", "call", "failover", "answered", "raised"}
    /\ size \in SizeHints
    /\ triedModels \in Seq(DOMAIN Models)

\* Whatever the budget moved to the front and a probe exchanged, a model that is
\* called has room for the request, and a failover calls another model.
FailoverFits ==
    /\ \A i \in DOMAIN triedModels : Models[triedModels[i]].ctx >= size
    /\ Len(triedModels) = 2 => triedModels[1] # triedModels[2]
=============================================================================
