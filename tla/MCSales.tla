------------------------------ MODULE MCSales -------------------------------
(* Instances of Sales for TLC.  Rates are in tenths; the calendar is the     *)
(* first months of 2026.                                                     *)
EXTENDS Sales

Calendar == <<31, 28, 31, 30, 31, 30, 31>>

Basket(product, asked) == [product |-> product, asked |-> asked]
MCBaskets ==
  {Basket("dados_partes", {"serasa_procon"}), Basket("consulta_objeto", {}),
   Basket("analise_contratual", {}),
   Basket("analise_contratual", {"escavador", "revisao_humana"}),
   Basket("reuniao_equipe", {}), Basket("reuniao_equipe", {"ia_deepseek", "targetdata"})}

\* Cheap prices: totals of a few cents, where rounding shows
Cheap == [m \in Modules |-> IF m = "ia_deepseek" THEN 5 ELSE 2]

Rule(max) == [enabled |-> TRUE, max |-> max]
Off(max) == [enabled |-> FALSE, max |-> max]

\* Installments at 10% from the second on; all the methods
Interest10 == [Default EXCEPT !.enabled = TRUE, !.max = 4, !.rate = 1]
\* Two without interest, then 30%; due on the 10th; at least 4 cents each
Interest30 ==
  [enabled |-> TRUE, max |-> 3, free |-> 2, rate |-> 3, minimum |-> 4, first |-> 0,
   day |-> 10, methods |-> [cartao |-> Rule(3), pix |-> Off(1)]]
\* Refused: a boleto in installments; no method enabled
BoletoTerms ==
  [Interest10 EXCEPT !.methods = [boleto |-> Rule(3), cartao |-> Rule(4)]]
NoMethods == [Interest10 EXCEPT !.methods = [pix |-> Off(1), cartao |-> Off(2)]]

Setting(prices, terms) == [overrides |-> prices, installments |-> terms]
MCSettings ==
  {Setting(<<>>, Default), Setting(<<>>, Interest10), Setting(Cheap, Interest10),
   Setting(Cheap, Interest30), Setting(<<>>, BoletoTerms), Setting(<<>>, NoMethods)}

MCDays == {[m |-> 1, d |-> 1], [m |-> 1, d |-> 31]}
=============================================================================
