--------------------------- MODULE MCFileTransfer ---------------------------
(* A small instance of the file transfer for TLC: the upload of a bundle    *)
(* and of a file in two chunks, then a stream of two chunks and an array of *)
(* one, to files of any name.                                               *)
EXTENDS FileTransfer, TLC

CONSTANTS bundle, file, bad, stream, array

MCUpload == <<bundle, file>>
MCParts == [w \in {1, 2, stream, array} |-> IF w \in {2, stream} THEN 2 ELSE 1]
============================================================================
