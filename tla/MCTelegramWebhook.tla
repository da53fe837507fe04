------------------------- MODULE MCTelegramWebhook -------------------------
(* A small instance of TelegramWebhook for TLC.                            *)
EXTENDS TelegramWebhook

CONSTANTS u1, u2, chat

SameChat == [u \in {u1, u2} |-> chat]
=============================================================================
