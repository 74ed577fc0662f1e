--------------------------- MODULE MCEvidenceArchive ---------------------------
\* One result with a detailed file to remove, one with a report only.
EXTENDS EvidenceArchive
AllTools == {"results", "bundle", "seed", "receipts"}
MCPaths == {<<"a", "README.md">>, <<"a", "raw">>, <<"b", "README.md">>}
=============================================================================
