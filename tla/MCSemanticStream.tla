-------------------------- MODULE MCSemanticStream --------------------------
(* An instance of SemanticStream: a harness build and an ordinary one that *)
(* share a source.                                                         *)
EXTENDS SemanticStream

Row(list, of, fits, src) == [list |-> list, of |-> of, fits |-> fits, src |-> src]

MCDomain == [d \in Drivers |->
  IF d = "d1"
  THEN << Row("ref", "context", TRUE, NONE), Row("ref", "harness", FALSE, NONE),
          Row("ref", "hir", TRUE, "s1"), Row("ref", "hir", FALSE, "s1"), Row("def", "hir", TRUE, "s1") >>
  ELSE << Row("def", "hir", TRUE, "s1"), Row("ref", "hir", TRUE, "s2") >>]
=============================================================================
