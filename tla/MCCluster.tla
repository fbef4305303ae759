----------------------------- MODULE MCCluster -----------------------------
(* Small applications that make clients talk to each other.                *)
EXTENDS Cluster

\* Clients 1 and 2 each publish a value at their own node and wait for the
\* other's; the controller's application has nothing to do.
MeshScript ==
  [n \in Nodes |->
     CASE n = 1 -> <<Op("put", "c", 1), Op("wait", "d", 2)>>
       [] n = 2 -> <<Op("put", "d", 2), Op("wait", "c", 1)>>
       [] OTHER -> <<>>]

\* Client 1 puts a value at client 2 and reads it back; client 2 puts a value
\* at client 1.
OwnWritesScript ==
  [n \in Nodes |->
     CASE n = 1 -> <<Op("put", "a", 2), Op("get", "a", 2)>>
       [] n = 2 -> <<Op("put", "b", 1)>>
       [] OTHER -> <<>>]
=============================================================================
