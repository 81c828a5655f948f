--------------------------- MODULE MCRetryClient ---------------------------
(* Calls for RetryClient: s searches from a country the search refuses, u  *)
(* with a location that names no country, x and y force a tool on a model  *)
(* that refuses it, t asks for text and f for a page.                      *)
EXTENDS RetryClient

CONSTANTS s, u, x, y, t, f, fancy, plain, sg

MCKind     == [c \in Calls |-> CASE c \in {s, u} -> "search"
                                 [] c \in {x, y} -> "structured"
                                 [] c = t -> "text"
                                 [] c = f -> "fetch"]
MCModel    == [c \in Calls |-> IF c \in {x, y} THEN fancy ELSE plain]
MCLocation == [c \in Calls |-> CASE c = s -> sg [] c = u -> Unnamed [] OTHER -> Nowhere]
=============================================================================
