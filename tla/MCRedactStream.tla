--------------------------- MODULE MCRedactStream ---------------------------
(* RedactStream with secrets that overlap themselves and one another, one  *)
(* with a blank in front of it and one too short to be redacted.           *)
EXTENDS RedactStream

CONSTANTS x, y, s

MCValue == {<<x, y, x>>, <<s, y, x, x>>, <<x, y, y, x>>, <<x, x, s>>}
MCChunk == {<<x>>, <<y>>, <<y, x>>}
=============================================================================
