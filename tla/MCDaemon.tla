------------------------------ MODULE MCDaemon ------------------------------
EXTENDS Daemon

(* Scans that hold the pool and fill its queue before a short control      *)
(* request comes, long control requests between them, attestations that    *)
(* fill the control queue.  The first and the last client send long        *)
(* messages, the last one slowly.                                          *)
MixedRequests == {
  <<"scan", "health", "scan", "foreign">>,
  <<"attestation", "attestation", "attestation", "scan">>,
  <<"other", "metrics", "foreign", "metrics">>,
  <<"health", "scan", "metrics", "scan">>
}
=============================================================================
