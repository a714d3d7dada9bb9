--------------------------- MODULE MCBulkDownload ---------------------------
(* Two workers, which may share the part file or follow one another; two   *)
(* pages, each of two chunks: an attempt can break off inside a page and   *)
(* between two pages.                                                      *)
EXTENDS BulkDownload

=============================================================================
