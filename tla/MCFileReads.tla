---------------------------- MODULE MCFileReads -----------------------------
(* Two documents of two chunks and of one, and a reference to each.        *)
EXTENDS FileReads

MCDocuments == {<<"a", "a">>, <<"b">>}
MCParsable == MCDocuments \cup {<<"a", "b">>, <<"b", "b">>}
Pin(content, role, producer) ==
    [content |-> content, role |-> role, media |-> "json", schema |-> role, producer |-> producer]
MCReferences == {Pin(<<"a", "a">>, "dataset_split", "atlas"), Pin(<<"b", "a">>, "source_export", "scout"),
                 Pin(<<"b">>, "candidate", "other")}
MCExpectations ==
    {[role |-> r, media |-> "json", schema |-> r] : r \in {"dataset_split", "source_export"}}
=============================================================================
