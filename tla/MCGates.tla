------------------------------ MODULE MCGates ------------------------------
(***************************************************************************)
(* Gates on a repository with a production file, its test, a document, a    *)
(* module of its own, a build file and a file at the top whose path is the  *)
(* end of others.  Diffs have at most two files, with hunks before, within  *)
(* and beyond the tolerance of each other, which is two lines here.         *)
(***************************************************************************)
EXTENDS Gates, TLC

prod   == <<"src", "main", "A">>
moved  == <<"src", "main", "B">>
test   == <<"src", "test", "A">>
other  == <<"src", "test", "B">>
doc    == <<"docs", "guide.adoc">>
module == <<"svc", "src", "main", "A">>
top    == <<"A">>
build  == <<"pom.xml">>

MCSegments == {"a", "b", "src", "main", "test", "docs", "svc", "A", "B", "guide.adoc", "pom.xml"}

Chunk(at, removed, added, context) ==
    [at |-> at, removed |-> removed, added |-> added, context |-> context]

Edit(path, hs) == [old |-> path, new |-> path, hunks |-> hs]

MCMrChanges ==
    { Edit(prod, <<Chunk(10, 1, 1, 1)>>),
      Edit(prod, <<Chunk(3, 0, 1, 0), Chunk(20, 0, 2, 0)>>),
      [old |-> DevNull, new |-> prod, hunks |-> <<Chunk(1, 0, 2, 0)>>],
      [old |-> test, new |-> DevNull, hunks |-> <<Chunk(0, 1, 0, 0)>>],
      [old |-> moved, new |-> prod, hunks |-> <<Chunk(10, 1, 1, 0)>>],
      [old |-> test, new |-> other, hunks |-> << >>],
      Edit(test, <<Chunk(2, 1, 0, 1)>>),
      Edit(top, <<Chunk(9, 0, 1, 0)>>) }

MCPatchChanges ==
    { Edit(prod, <<Chunk(13, 0, 1, 0)>>),
      Edit(prod, <<Chunk(4, 0, 1, 0)>>),
      Edit(prod, <<Chunk(4, 0, 1, 0), Chunk(18, 0, 1, 0)>>),
      Edit(prod, <<Chunk(4, 0, 3, 1), Chunk(24, 1, 1, 0)>>),
      [old |-> prod, new |-> DevNull, hunks |-> <<Chunk(0, 1, 0, 0)>>],
      [old |-> other, new |-> test, hunks |-> <<Chunk(1, 0, 1, 0)>>],
      [old |-> DevNull, new |-> other, hunks |-> <<Chunk(1, 0, 1, 0)>>],
      Edit(doc, <<Chunk(7, 0, 1, 0)>>),
      Edit(module, <<Chunk(7, 0, 1, 0)>>),
      Edit(build, <<Chunk(1, 0, 1, 0)>>) }

MCViolations == [path : {prod, module, top}, line : {1, 4, 7, 8, 13, 14, 23, 24}]

MCText == {prod}

\* No directory of this repository is called a or b.
ASSUME MCPaths == PlainPaths

=============================================================================
