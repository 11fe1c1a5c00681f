------------------------------ MODULE MCWorker ------------------------------
(* Worker for TLC.  The two customer channels that never run differ in     *)
(* name only, and one of them stands for both.                             *)
EXTENDS Worker

MCCustomerTiers == <<"WEBSOCKET", "WHATSAPP", "SMS">>
=============================================================================
