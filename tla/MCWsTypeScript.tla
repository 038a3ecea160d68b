---------------------------- MODULE MCWsTypeScript ----------------------------
(* Small instances of WsTypeScript for TLC. *)
EXTENDS WsTypeScript
===============================================================================
