----------------------------- MODULE MC_Gateway -----------------------------
(* Updates for the runs of Gateway.                                        *)
EXTENDS Gateway

CONSTANTS tg, sl, wx, web, cmd, note, raw

PlatformOf(u) ==
  CASE u = tg -> "telegram" [] u \in {sl, note} -> "slack"
    [] u \in {wx, raw} -> "weixin" [] u = web -> "webhook" [] OTHER -> "command"

Platforms == [u \in Updates |-> PlatformOf(u)]
=============================================================================
