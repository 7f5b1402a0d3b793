----------------------------- MODULE QueryBudget -----------------------------
(***************************************************************************)
(* The limits a request runs under and the pages they leave within reach:  *)
(* QueryBudget (src/app/query/budget.py) and the offset of a page          *)
(* (src/app/schemas/search.py).                                            *)
(***************************************************************************)
EXTENDS Integers

Limits == {"bytes", "chars", "depth", "tokens", "nodes", "clauses",
           "page_size", "window"}

MaxAccessiblePage(page_size, budget) == budget["window"] \div page_size

OutOfRange(form, budget) ==
  \/ form.page_size < 1
  \/ form.page_size > budget["page_size"]
  \/ form.page > MaxAccessiblePage(form.page_size, budget)

Offset(form) == (form.page - 1) * form.page_size
=============================================================================
