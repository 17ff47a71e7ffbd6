----------------------------- MODULE MCDishLink -----------------------------
EXTENDS DishLink
=============================================================================
