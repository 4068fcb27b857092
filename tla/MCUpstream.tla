------------------------------ MODULE MCUpstream ------------------------------
(* Upstream on small instances; the .cfg files say which. *)
EXTENDS Upstream

CONSTANT e1

\* If the origin answers what reaches it and broken connections are noticed, no
\* order of restarts, resets, closes, failures and retries keeps a request over
\* TLS waiting: it is answered or fails (upstream.ts:276-306), or its HTTP/2
\* session went without an error and it is lost (136-194 hear no "close").  The
\* requests are alike: one stands for all.
TlsRequestsEnd == TlsRequestEnds(e1)
=============================================================================
