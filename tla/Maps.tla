--------------------------------- MODULE Maps ---------------------------------
(* Rust's maps: finite functions that entries are put into and taken from. *)
EXTENDS Naturals

Without(f, S) == [x \in DOMAIN f \ S |-> f[x]]

With(f, x, v) == [y \in DOMAIN f \cup {x} |-> IF y = x THEN v ELSE f[y]]

(* several entries; those of g win *)
Over(f, g) == [y \in DOMAIN f \cup DOMAIN g |-> IF y \in DOMAIN g THEN g[y] ELSE f[y]]

Nothing == [x \in {} |-> 0]
=================================================================================
