------------------------ MODULE MCIncrementalRefresh ------------------------
(***************************************************************************)
(* Instances of IncrementalRefresh: package p refers to item x of package  *)
(* q, which only the contents "full" define.                               *)
(***************************************************************************)
EXTENDS IncrementalRefresh, TLC

MCPackages == {"p", "q"}
MCContents == {"full", "bare"}
\* enough to edit a package twice and undo nothing
ThreeContents == MCContents \union {"moved"}
MCItems == ("full" :> {"main", "x"}) @@ ("bare" :> {"main"}) @@ ("moved" :> {"main", "y"})
MCUses == ("p" :> {<<"q", "x">>}) @@ ("q" :> {})

OwnNamespaces == ("p" :> <<"p">>) @@ ("q" :> <<"q">>)
\* packages a-b and a_b
SharedNamespace == ("p" :> <<"a_b">>) @@ ("q" :> <<"a_b">>)

\* package q alone
OneNamespace == "q" :> <<"q">>
NoUses == "q" :> {}
=============================================================================
