-------------------------- MODULE MCHTTPDownloader --------------------------
(* A writer that concatenates two bodies beside a download in a directory, *)
(* two requests at a time, each retried once.                                *)
EXTENDS HTTPDownloader

CONSTANTS d1, d2
MCDownloads == {d1, d2}
MCWriters == {d1}
MCNSrcs == [d \in MCDownloads |-> IF d = d1 THEN 2 ELSE 1]
=============================================================================
