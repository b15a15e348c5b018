---------------------------- MODULE MCDocuments ----------------------------
(***************************************************************************)
(* A small instance of Documents: a content of two sentences, one of one   *)
(* and one of white space, uploaded by a few requests.  What a content     *)
(* splits into is what Chunking says.                                      *)
(***************************************************************************)
EXTENDS Documents, Chunking, TLC

CONSTANTS long, short, blank

\* chunk_index counts the chunks of a document from 0.
Parts(text) == {i - 1 : i \in DOMAIN Split(text)}

AllParts == (long  :> Parts(<<"a", ".", " ", "a", ".">>)) @@
            (short :> Parts(<<" ", "a">>)) @@
            (blank :> Parts(<<" ", " ">>))

MCPartsOf == [c \in Content |-> AllParts[c]]

=============================================================================
