----------------------------- MODULE Durability ------------------------------
(***************************************************************************)
(* What a power loss leaves of a write-back cache, for every device of     *)
(* this project.  A device keeps, for each piece x of its content, what a  *)
(* read returns now, view[x], and the set of contents that stable storage  *)
(* may hold, may[x].                                                       *)
(***************************************************************************)

(* Every way the pieces in `view` can come out of a crash: one admitted    *)
(* content each.                                                           *)
Survivors(view, may) ==
  LET unsure == {x \in DOMAIN view : may[x] # {view[x]}}
      picks == {f \in [unsure -> UNION {may[x] : x \in unsure}] :
                  \A x \in unsure : f[x] \in may[x]}
  IN  {[x \in DOMAIN view |-> IF x \in unsure THEN f[x] ELSE view[x]] : f \in picks}
=============================================================================
