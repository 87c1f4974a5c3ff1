-------------------------- MODULE MCShardedServer --------------------------
(***************************************************************************)
(* ShardedServer for TLC: three shards, so that a gradient its home refuses*)
(* is stripped by one other shard and taken, empty, by the next.           *)
(***************************************************************************)
EXTENDS ShardedServer
=============================================================================
