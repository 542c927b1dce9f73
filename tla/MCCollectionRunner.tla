---- MODULE MCCollectionRunner ----
EXTENDS CollectionRunner
Request(name, folder, pre, tests) ==
  [name |-> name, folder |-> folder, pre |-> pre, tests |-> tests]
\* A folder with two requests of one name and one of another; a name that
\* only a request outside it has.
FourRequests ==
  <<Request("a", "f", 1, 1), Request("z", "", 1, 1), Request("a", "f", 0, 2), Request("b", "f", 0, 1)>>
SomeNames == {"a", "b", "z"}
====
