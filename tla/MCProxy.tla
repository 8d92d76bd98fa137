------------------------------ MODULE MCProxy ------------------------------
(* A small instance of ProxyRuntime.                                       *)
EXTENDS ProxyRuntime

\* In the first session two payloads, the second with more than the rest of the header,
\* and FIN, or a payload with the header and one more; in the second one frame.
MCShapes == << {<<1, 2, 0>>, <<3, 1>>}, {<<1>>} >>

=============================================================================
