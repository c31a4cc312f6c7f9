----------------------------- MODULE MCRendering -----------------------------
(***************************************************************************)
(* Clusters to submit: one to create, and ones that differ from it in what *)
(* decides how they are rendered.                                          *)
(***************************************************************************)
EXTENDS Rendering

Base ==
  [replicas |-> 2, annotation |-> Empty, version |-> LatestDatabaseVersion, image |-> Empty,
   proxyImage |-> Empty, port |-> 0, proxyPort |-> 0, proxy |-> TRUE, nodePort |-> FALSE,
   tls |-> "off", auth |-> "own", sharding |-> "none", control |-> TRUE,
   chdb |-> [pool |-> 0, query |-> 0, write |-> 0], settings |-> 0]

MCFirst == {Base}

MCSubmissions ==
  { Base,
    \* the query pool's size, and no proxies
    [Base EXCEPT !.chdb.query = 2, !.proxy = FALSE],
    \* a database older than supported, with proxies pinned to a new version
    [Base EXCEPT !.version = 1, !.proxyImage = 4, !.sharding = "on", !.chdb.query = 2,
                 !.settings = 2, !.tls = "own"],
    \* a single node, built locally with its proxy, the version in the annotation;
    \* other ports, TLS and the user's Secrets
    [Base EXCEPT !.annotation = LocalVersion, !.version = Empty, !.image = LocalTag,
                 !.proxyImage = LocalTag, !.replicas = NoReplicas, !.port = 8088, !.proxyPort = 8087,
                 !.nodePort = TRUE, !.tls = "user", !.auth = "user"],
    \* refused
    [Base EXCEPT !.port = 65536], [Base EXCEPT !.replicas = 0] }
=============================================================================
