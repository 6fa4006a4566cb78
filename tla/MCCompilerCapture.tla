------------------------- MODULE MCCompilerCapture -------------------------
(* An instance of CompilerCapture: two units, which a third call may       *)
(* crowd out of two slots.                                                 *)
EXTENDS CompilerCapture

For(k1, k2, k3) == [c \in Compilers |-> CASE c = "c1" -> k1 [] c = "c2" -> k2 [] c = "c3" -> k3]
MCSetups ==
  { << For("unit", "foreign", "unit"), {"stream", "held"} >>,
    << For("unit", "unresolved", "unit"), {} >>,
    << For("unit", "unit", "unresolved"), {"stream"} >>,
    << For("unit", "long", "response"), {"held"} >>,
    << For("foreign", "query", "query"), {} >> }
MCKey == [c \in Compilers |-> IF c = "c2" THEN 2 ELSE 1]
MCSize == [c \in Compilers |-> IF c = "c3" THEN 6 ELSE 3]
MCPair == [c \in Compilers |-> IF c = "c3" THEN 5 ELSE 2]
MCStreamSize == [c \in Compilers |-> IF c = "c1" THEN 2 ELSE 6]
Valid(n) == [size |-> n, valid |-> TRUE]
Repeats(n) == [size |-> n, valid |-> FALSE]
MCGenerators ==
  [options \in SUBSET Options |->
     CASE options = {"stream"} -> <<Valid(2), Valid(9)>>
       [] options = {} -> <<Valid(2)>>
       [] OTHER -> <<Valid(2), Repeats(1), Valid(9)>>]
=============================================================================
