------------------------------ MODULE Catalog -------------------------------
(***************************************************************************)
(* What the organization sells and what a sale makes the triage run: the   *)
(* products, the commercial modules and their prices                       *)
(* (services/pricing/config.py, estimate.py) and the technical modules of  *)
(* each product (services/triage_plan.py).  No state; lists the code keeps *)
(* free of repetitions are sets.                                           *)
(***************************************************************************)
EXTENDS Naturals, Functions

CONSTANT Infra  \* billing_module None: a technical module every sale includes

Modules == {"escavador", "targetdata", "ia_deepseek", "serasa_procon",
            "analise_contratual_ia", "revisao_humana", "reuniao_equipe"}

ASSUME CatalogAssumption == Infra \notin Modules

\* MODULES, in cents
ListPrice ==
  [escavador |-> 6000, targetdata |-> 3900, ia_deepseek |-> 2900,
   serasa_procon |-> 5900, analise_contratual_ia |-> 7900,
   revisao_humana |-> 12900, reuniao_equipe |-> 49000]

\* MATRIX: the modules each product forces, and those it preselects
Required ==
  [dados_partes |-> {"escavador", "targetdata", "ia_deepseek"},
   consulta_objeto |-> {"ia_deepseek"},
   analise_contratual |-> {"ia_deepseek", "analise_contratual_ia"},
   reuniao_equipe |-> {"revisao_humana", "reuniao_equipe"}]

Preselected ==
  [dados_partes |-> {"escavador", "targetdata", "ia_deepseek"},
   consulta_objeto |-> {"ia_deepseek"},
   analise_contratual |-> {"ia_deepseek", "analise_contratual_ia",
                           "revisao_humana"},
   reuniao_equipe |-> {"ia_deepseek"}]

Products == DOMAIN Required
MeetingProduct == "reuniao_equipe"

-----------------------------------------------------------------------------
(* Prices.  An organization's overrides map some modules to a price.         *)

Price(m, overrides) == IF m \in DOMAIN overrides THEN overrides[m] ELSE ListPrice[m]

PriceOf(set, overrides) == SumFunction([m \in set |-> Price(m, overrides)])

BasePrice(product, overrides) ==
  IF product = MeetingProduct THEN 0 ELSE PriceOf(Required[product], overrides)

\* CVS-008: the required modules are in whatever the client sends.
Normalized(product, asked) ==
  Required[product] \cup (IF asked = {} THEN Preselected[product] ELSE asked)

Extras(product, selected) ==
  IF product = MeetingProduct THEN selected ELSE selected \ Required[product]

Total(product, selected, overrides) ==
  BasePrice(product, overrides) + PriceOf(Extras(product, selected), overrides)

-----------------------------------------------------------------------------
(* Triage plans: for each product, what enables each technical module.       *)

Plan ==
  [dados_partes |->
     [parties_validation |-> Infra, serasa |-> "serasa_procon",
      procon |-> "serasa_procon", escavador |-> "escavador",
      targetdata |-> "targetdata", reputation_summary |-> "ia_deepseek",
      ai_summary |-> "ia_deepseek"],
   consulta_objeto |->
     [object_analysis |-> Infra, public_search |-> "escavador",
      targetdata |-> "targetdata", document_summary |-> "ia_deepseek",
      ai_summary |-> "ia_deepseek"],
   analise_contratual |->
     [document_parser |-> Infra, ocr |-> Infra,
      contract_risk_analysis |-> "analise_contratual_ia",
      obligations_mapping |-> "analise_contratual_ia",
      serasa |-> "serasa_procon", procon |-> "serasa_procon",
      escavador |-> "escavador", targetdata |-> "targetdata",
      ai_report |-> "ia_deepseek"],
   reuniao_equipe |->
     [preliminary_questions |-> "reuniao_equipe",
      documents_checklist |-> "reuniao_equipe", targetdata |-> "targetdata",
      case_summary |-> "ia_deepseek", lawyer_briefing |-> "revisao_humana",
      ai_briefing |-> "ia_deepseek"]]

PlanFor(product, selected) ==
  {t \in DOMAIN Plan[product] : Plan[product][t] \in selected \cup {Infra}}
=============================================================================
