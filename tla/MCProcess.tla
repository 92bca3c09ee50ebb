---- MODULE MCProcess ----
(* One process: an import of two numbers, an event, an outage *)
EXTENDS Process

CONSTANTS d1, d2, event
====
