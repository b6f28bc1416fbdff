------------------------------ MODULE MCSession ------------------------------
(* Session on small instances. *)
EXTENDS Session

\* Reads may end between two messages and inside a body, as a large reply arrives
\* that the server sends in buffers of 8 kB; not inside a header of five bytes, and
\* not inside the small bursts of the authentication and of ReadyForQuery.
BodyCuts == {"T", "D", "N"} \X {"len", "body"} \union {"C", "E"} \X {"body"}
=============================================================================
