--------------------------- MODULE MCSearchRuntime ---------------------------
(* Instances of SearchRuntime for TLC: three documents, one with a chunk   *)
(* that a query for the document no longer brings back and one with the    *)
(* id of another for its title; an id that only FAISS still has.           *)
EXTENDS SearchRuntime

CONSTANTS docA, docB, docC, gone, titleA, titleC

MCTitle == (docA :> titleA) @@ (docB :> docA) @@ (docC :> titleC)
MCTopHit == (gone :> None) @@ (titleA :> docA) @@ (titleC :> docC)
MCChunks == (docA :> <<0, 1>>) @@ (docB :> <<0>>) @@ (docC :> <<0, 2>>)
MCMatches == {<<>>, <<<<docA, 1>>, <<docA, 0>>, <<docB, 0>>>>}
MCNeighbours == {<<<<gone, 0>>, <<gone, 1>>, <<gone, 2>>, <<docB, 0>>>>,
                 <<<<docA, 0>>, <<docC, 1>>, <<docA, 1>>>>}
MCTitleHits == {<<docB, docC>>}
MCLinks == {<<titleA, 2>>, <<gone, 0>>, <<docB, 0>>}
=============================================================================
