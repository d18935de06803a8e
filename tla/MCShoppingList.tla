--------------------------- MODULE MCShoppingList ---------------------------
(* Model checking of ShoppingList.                                          *)
EXTENDS ShoppingList
=============================================================================
