--------------------------- MODULE MCSearchEngine ----------------------------
(* Instance of SearchEngine for TLC: two built-in providers and a document of
   each form: a legacy map with handlers of items, a list that defines one
   provider twice and has a definition without an id. *)
EXTENDS SearchEngine, TLC

CONSTANTS x, y, u1, u2, u3

Provider(type, url, mirrors, itemUrl, itemMirrors) ==
  [type |-> type, url |-> url, mirrors |-> mirrors,
   itemUrl |-> itemUrl, itemMirrors |-> itemMirrors]

BuiltinXY == (x :> Provider("html", u1, <<u1, u2>>, u1, <<u2>>)) @@
             (y :> Provider("json", u3, <<>>, None, <<>>))

Legacy ==
  [form |-> "map", entries |->
    <<[name |-> x, part |-> "main", cfg |-> Provider(None, u2, <<>>, None, <<u1>>)],
      [name |-> x, part |-> "item", cfg |-> Provider(None, u3, <<u3, u1>>, None, <<>>)],
      [name |-> y, part |-> "item", cfg |-> Provider(None, u2, <<>>, None, <<>>)]>>]
List ==
  [form |-> "list", entries |->
    <<[name |-> y, part |-> "main", cfg |-> Provider("json", u1, <<u2>>, None, <<>>)],
      [name |-> None, part |-> "main", cfg |-> Provider(None, u1, <<>>, None, <<>>)],
      [name |-> y, part |-> "main", cfg |-> Provider(None, None, <<u3>>, u2, <<>>)]>>]

SomeDocs == {Legacy, List}
=============================================================================
