------------------------------ MODULE MCHealth ------------------------------
(* Instances of Health, and with it of Shutdown and RedisClients, for TLC. *)
EXTENDS Health

CONSTANTS cacheRedis, throttlerRedis, r1, r2, r3
=============================================================================
