----------------------------- MODULE MCFilesApi -----------------------------
EXTENDS FilesApi, TLC

CONSTANTS photo, document, sticker, deleted, stray, noFile, dc1, dc2, dc9

\* photo: of unknown size, the last chunk a multiple of Unit; document: of a known size;
\* sticker: shorter than said; deleted: not on the server; stray: in a DC that is not in
\* the configuration.
MCFiles == {photo, document, sticker, deleted, stray}
MCDc == photo :> dc1 @@ document :> dc2 @@ sticker :> dc2 @@ deleted :> dc1 @@ stray :> dc9
MCSize == photo :> 6 @@ document :> 5 @@ sticker :> 4 @@ deleted :> 1 @@ stray :> 1
MCDeclared == photo :> 0 @@ document :> 5 @@ sticker :> 5 @@ deleted :> 0 @@ stray :> 0
=============================================================================
