----------------------------- MODULE MCConfigSync -----------------------------
(* Two settings, two saves that change one each, an administrator, and a
   value with an apostrophe, which is not read back as it was written. *)
EXTENDS ConfigSync, TLC

CONSTANTS k1, k2, plain, quoted, mangled, first, second

MCKeys == {k1, k2}
MCValues == {plain, quoted, mangled}
MCParsed == [v \in MCValues |-> IF v = plain THEN plain ELSE mangled]
MCDefaults == [k \in MCKeys |-> plain]
MCSaves == {first, second}
MCInput == first  :> (k1 :> quoted @@ k2 :> Unset)
        @@ second :> (k1 :> Unset  @@ k2 :> mangled)
MCEdits == { k1 :> plain @@ k2 :> plain,     \* as installed
             k1 :> Unset @@ k2 :> quoted }   \* a key has no line
===============================================================================
