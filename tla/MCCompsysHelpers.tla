-------------------------- MODULE MCCompsysHelpers --------------------------
(***************************************************************************)
(* Model-checking instance of CompsysHelpers and ServerRequest: a message  *)
(* of five bytes with two ends of line, a buffer of four bytes, and calls  *)
(* for nothing, for one byte, for less and for more than the buffer and    *)
(* the message hold; the request of the server is its first four bytes.    *)
(***************************************************************************)
EXTENDS ServerRequest

CONSTANTS x, y, z   \* three bytes

MCMessage == <<x, Newline, y, z, Newline>>

=============================================================================
