------------------------------- MODULE MCGraph -------------------------------
(* Purchases over three months of two years; two on one day, and two that   *)
(* were made around the midnight of New Year's Eve.                          *)
EXTENDS Graph

Purchase(id, year, yearMonth, boughtDate) ==
  [id |-> id, year |-> year, yearMonth |-> yearMonth, boughtDate |-> boughtDate]

MCPurchases ==
  { Purchase(1, 2019, 201912, 20191231),
    Purchase(2, 2020, 202001, 20200101),
    Purchase(3, 2020, 202001, 20200101),
    Purchase(4, 2020, 202001, 20200115),
    Purchase(5, 2020, 202002, 20200201),
    Purchase(6, 2019, 202001, 20191231),
    Purchase(7, 2020, 202001, 20191231) }
=============================================================================
