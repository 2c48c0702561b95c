------------------------------ MODULE MCStorage -----------------------------
EXTENDS Storage

MCFiles == {<<"f">>, <<"g", "f">>}

(* "", "/", "/a/b", "/a//b/", "/f", "/g/e", "/g/f/b" *)
MCPaths ==
  {<<>>, <<"">>, <<"a", "b">>, <<"a", "", "b", "">>, <<"f">>, <<"g", "e">>, <<"g", "f", "b">>}
=============================================================================
