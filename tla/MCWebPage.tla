------------------------------ MODULE MCWebPage ------------------------------
(* WebPage for TLC: two resumes whose parsers are watched and whose drafts are reviewed, *)
(* and for one of them the pages that make one thing of another.                    *)
EXTENDS WebPage

CONSTANTS A, B

MCPlaces == {Place("upload", Nothing), Place("preview", A), Place("optimization", A)}

MCUploadPlaces == {Place("upload", Nothing), Place("review", B)}
=============================================================================
