---------------------------- MODULE MCMutations ----------------------------
EXTENDS Mutations, TLC

CONSTANTS p, q, hello, other, enter, esc, scope, bad, tabA, tabB

W(kind, targets, id, say, body) ==
  [kind |-> kind, targets |-> targets, id |-> id, say |-> say, submit |-> TRUE, body |-> body]

Good(fields) == [f \in fields |-> TRUE]

\* Two replies to pane p under one id; keys, which carry no
\* id; the scope that holds both panes; a body that does not parse; two tabs
\* created through one deduplicator.
MCWish == {hello, other, enter, esc, scope, bad, tabA, tabB}
MCWant ==
  hello    :> W("reply", {p}, "id1", "hello", Good({"text", "requestId"}))
  @@ other :> W("reply", {p}, "id1", "other", Good({"text", "requestId"}))
  @@ enter :> W("keys", {p}, NoId, NoText, Good({"keys"}))
  @@ esc   :> W("keys", {p}, NoId, NoText, Good({"keys"}))
  @@ scope :> W("closeScope", {p, q}, "id3", NoText, Good({"requestId"}))
  @@ bad   :> W("reply", {q}, "id4", "hello", [text |-> FALSE])
  @@ tabA  :> W("createTab", {q}, "id5", "a", Good({"workspaceId", "requestId"}))
  @@ tabB  :> W("createTab", {q}, "id6", "b", Good({"workspaceId", "requestId"}))
MCTarget == {p, q}

MCScript ==
  {<<hello, hello>>, <<hello, other>>, <<esc, hello, enter>>, <<scope>>, <<bad, hello>>,
   <<tabA, tabA, tabB>>, <<tabA, tabB, tabA>>}
=============================================================================
