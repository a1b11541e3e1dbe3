------------------------------ MODULE MCDownloads ------------------------------
(* Instances of Downloads for TLC.                                            *)
EXTENDS Downloads

MCSite(head, get, chunks, parts) ==
    [valid |-> head # "raises", head |-> head, get |-> get, chunks |-> chunks, parts |-> parts]

\* A file, another one of the same type, one whose type is unknown, one that GET does not find,
\* no URL at all, one with a comma and one that is cut within a character. The long one may
\* stop answering.
MCPdf     == MCSite(".pdf", ".pdf", 2, 2)
MCLong    == MCSite(".pdf", ".pdf", 3, 2)
MCUnknown == MCSite("unknown", "unknown", 1, 2)
MCUntyped == MCSite(".pdf", "none", 1, 2)
MCNoUrl   == MCSite("raises", "raises", 0, 2)
MCComma   == MCSite(".pdf", ".pdf", 1, 3)
MCCut     == MCSite(".pdf", ".pdf", 1, 0)
MCSites == {MCPdf, MCLong, MCUnknown, MCUntyped, MCNoUrl, MCComma, MCCut}
MCSilent == {MCLong}

\* The second name is what the first becomes; the fourth is longer than a directory allows,
\* the fifth with an extension only.
MCNames == {<<"a">>, <<"a", ".pdf">>, <<"no/where">>, <<"over255">>, <<"to255">>}
MCUnwritable == {<<"no/where">>}
MCUnstatable == {<<"over255">>, <<"over255", ".pdf">>, <<"to255", ".pdf">>}

MCRequests ==
    {[protocol |-> s, url |-> u, name |-> <<"a">>] : s \in Protocols, u \in MCSites}
    \cup {[protocol |-> "RUDP", url |-> MCUnknown, name |-> <<"a", ".pdf">>],
          [protocol |-> "TCP", url |-> MCPdf, name |-> <<"no/where">>],
          [protocol |-> "TCP", url |-> MCPdf, name |-> <<"to255">>],
          [protocol |-> "RUDP", url |-> MCPdf, name |-> <<"to255">>],
          [protocol |-> "RUDP", url |-> MCPdf, name |-> <<"over255">>],
          [protocol |-> "", url |-> MCPdf, name |-> <<"a">>]}
================================================================================
