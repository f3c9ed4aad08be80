---------------------------- MODULE TableDisplay ----------------------------
(***************************************************************************)
(* The display at a table (firmware/table-display/masa000.ino): the loop   *)
(* that keeps the WiFi up, fetches a code for the table and draws it, and  *)
(* the guests who scan what it shows.                                      *)
(*                                                                         *)
(* Time passes in ticks, and only where the sketch waits: in delay(), in   *)
(* connectWifi and in fetchQrPayload. millis() counts ticks in a word of   *)
(* 2 * Half values and starts again from 0 after the last; the code does   *)
(* all its arithmetic in that word. What is drawn beside the code, and the *)
(* countdown below it, are left out.                                       *)
(***************************************************************************)
EXTENDS Naturals

CONSTANTS
    Half,       \* millis() counts to 2 * Half: timeReached looks this far ahead
    Ttl,        \* refreshAfterSeconds, which is TABLE_ACCESS_TOKEN_TTL
    Margin,     \* the display asks for a new code that long before, if it can
    MinRefresh, \* MIN_REFRESH_INTERVAL_MS
    Retry,      \* RETRY_INTERVAL_MS
    ConnectMax, \* WIFI_CONNECT_TIMEOUT_MS
    FetchMax,   \* what a fetch takes at most, until HTTP_TIMEOUT_MS ends it
    Pause,      \* the delay at the end of the loop
    MaxQuiet    \* bound: the network is not away for longer while a code is kept

VARIABLES
    millis,     \* millis()
    wifi,       \* whether WiFi.status() is WL_CONNECTED
    pc,         \* where the sketch is: at the start of loop(), or waiting
    wait,       \* the ticks left of a delay()
    start,      \* millis() when connectWifi or the fetch began
    currentToken, \* whether it is not empty
    next,       \* nextRefreshAtMs
    shown,      \* screenHasQr: the code currentToken is on the screen
    age,        \* the time since the server issued the code on the screen
    used,       \* whether a guest has redeemed it
    since,      \* the time since the fetch of currentToken began
    blind       \* the time a guest has waited for a code although the network
                \* was there and every fetch succeeded

clockVars == <<millis, wait, age, since, blind>>
displayVars == <<millis, wifi, pc, wait, start, currentToken, next, shown, age, used, since, blind>>

Wrap == 2 * Half
Instants == 0 .. Wrap - 1

\* uint32_t addition and subtraction of what is less than the range.
Plus(a, b) == IF a + b < Wrap THEN a + b ELSE (a + b) - Wrap
Minus(a, b) == IF a >= b THEN a - b ELSE (a + Wrap) - b

Longer(a, b) == IF a > b THEN a ELSE b

\* refreshMs, at least MIN_REFRESH_INTERVAL_MS.
Refresh == Longer(IF Ttl > 2 * Margin THEN Ttl - Margin ELSE Ttl, MinRefresh)

ASSUME DisplayAssumption ==
    /\ {Half, Ttl, Pause} \subseteq Nat \ {0}
    /\ {Margin, MinRefresh, Retry, ConnectMax, FetchMax, MaxQuiet} \subseteq Nat
    /\ FetchMax <= Refresh /\ FetchMax <= MaxQuiet
    /\ Refresh + Pause + FetchMax < Half
    /\ ConnectMax < Wrap - 1
    /\ MaxQuiet + Retry + FetchMax < Half

-----------------------------------------------------------------------------
\* Mutant: the instants are compared as they are.
TimeReachedUnsigned(now, target) == now >= target

\* timeReached: the difference, as a signed word, is not negative.
TimeReached(now, target) == Minus(now, target) < Half

\* What a guest can redeem now.
Redeemable == shown /\ ~ used /\ age < Ttl

\* setup(): the display is switched on, or on again after a power cut.
Boot ==
    /\ millis' = 0 /\ wait' = 0 /\ start' = 0
    /\ pc' = "setup"
    /\ currentToken' = FALSE /\ next' = 0 /\ shown' = FALSE
    /\ age' = 0 /\ used' = FALSE /\ since' = 0 /\ blind' = 0
    /\ UNCHANGED wifi

DisplayInit ==
    /\ millis = 0 /\ wait = 0 /\ start = 0
    /\ wifi \in BOOLEAN
    /\ pc = "setup"
    /\ currentToken = FALSE /\ next = 0 /\ shown = FALSE
    /\ age = 0 /\ used = FALSE /\ since = 0 /\ blind = 0

\* A tick passes where the sketch waits.
Elapse ==
    /\ \/ pc = "delay" /\ wait > 0
       \/ pc \in {"setup", "connect"} /\ ~ wifi /\ Minus(millis, start) <= ConnectMax
       \/ pc = "fetch" /\ Minus(millis, start) < FetchMax
    /\ currentToken /\ ~ wifi => since < MaxQuiet
    /\ millis' = Plus(millis, 1)
    /\ wait' = IF pc = "delay" THEN wait - 1 ELSE wait
    /\ age' = IF shown THEN age + 1 ELSE age
    /\ since' = IF currentToken THEN since + 1 ELSE since
    /\ blind' = IF wifi /\ ~ Redeemable THEN blind + 1 ELSE 0
    /\ UNCHANGED <<wifi, pc, start, currentToken, next, shown, used>>

\* The network goes, and comes back.
Disconnect ==
    /\ wifi
    /\ currentToken => since < MaxQuiet
    /\ wifi' = FALSE
    /\ blind' = 0
    /\ UNCHANGED <<millis, pc, wait, start, currentToken, next, shown, age, used, since>>

Reconnect ==
    /\ ~ wifi
    /\ wifi' = TRUE
    /\ UNCHANGED <<millis, pc, wait, start, currentToken, next, shown, age, used, since, blind>>

-----------------------------------------------------------------------------
\* loop(), without a network: the code is taken from the screen, not forgotten,
LoopOffline ==
    /\ pc = "loop" /\ ~ wifi
    /\ shown' = FALSE /\ age' = 0 /\ used' = FALSE
    /\ pc' = "connect" /\ start' = millis
    /\ UNCHANGED <<millis, wifi, wait, currentToken, next, since, blind>>

\* and connectWifi waits for the network, but not for ever. When setup() has
\* called it, no delay follows.
Connected ==
    /\ pc \in {"setup", "connect"}
    /\ wifi \/ Minus(millis, start) > ConnectMax
    /\ pc' = "delay"
    /\ wait' = IF pc = "setup" THEN 0 ELSE Retry
    /\ UNCHANGED <<millis, wifi, start, currentToken, next, shown, age, used, since, blind>>

\* delay() is over.
Wake ==
    /\ pc = "delay" /\ wait = 0
    /\ pc' = "loop"
    /\ UNCHANGED <<clockVars, wifi, start, currentToken, next, shown, used>>

\* loop(), with a code that is good for a while;
LoopIdle ==
    /\ pc = "loop" /\ wifi
    /\ currentToken /\ ~ TimeReached(millis, next)
    /\ pc' = "delay" /\ wait' = Pause
    /\ UNCHANGED <<millis, wifi, start, currentToken, next, shown, age, used, since, blind>>

\* or with none, or one that it is time to replace: a new one is fetched, while
\* the old one stays on the screen.
LoopDue ==
    /\ pc = "loop" /\ wifi
    /\ ~ currentToken \/ TimeReached(millis, next)
    /\ pc' = "fetch" /\ start' = millis
    /\ UNCHANGED <<clockVars, wifi, currentToken, next, shown, used>>

\* Mutant: the times count from the instant after the fetch.
FetchOkAtExpiry ==
    /\ pc = "fetch"
    /\ currentToken' = TRUE /\ shown' = TRUE /\ used' = FALSE
    /\ next' = Plus(millis, Refresh)
    /\ age' \in 0 .. Minus(millis, start)
    /\ since' = Minus(millis, start)
    /\ blind' = 0
    /\ pc' = "delay" /\ wait' = Pause
    /\ UNCHANGED <<millis, wifi, start>>

\* The server has answered: the new code is drawn. All times count from the
\* instant before the fetch, and the server issued the code during it.
FetchOk ==
    /\ pc = "fetch"
    /\ currentToken' = TRUE /\ shown' = TRUE /\ used' = FALSE
    /\ next' = Plus(start, Refresh)
    /\ age' \in 0 .. Minus(millis, start)
    /\ since' = Minus(millis, start)
    /\ blind' = 0
    /\ pc' = "delay" /\ wait' = Pause
    /\ UNCHANGED <<millis, wifi, start>>

\* The fetch failed, at once or late: the old code is given up. nextRefreshAtMs
\* is set, but without a code the next loop() does not look at it.
FetchFails ==
    /\ pc = "fetch"
    /\ currentToken' = FALSE /\ shown' = FALSE /\ used' = FALSE
    /\ next' = Plus(start, Retry)
    /\ age' = 0 /\ since' = 0 /\ blind' = 0
    /\ pc' = "delay" /\ wait' = Pause
    /\ UNCHANGED <<millis, wifi, start>>

-----------------------------------------------------------------------------
\* A guest scans the code on the screen and is admitted (Presence).
Redeem ==
    /\ Redeemable
    /\ used' = TRUE
    /\ UNCHANGED <<clockVars, wifi, pc, start, currentToken, next, shown>>

DisplayNext ==
    \/ Elapse
    \/ Disconnect
    \/ Reconnect
    \/ LoopOffline
    \/ Connected
    \/ Wake
    \/ LoopIdle
    \/ LoopDue
    \/ FetchOk
    \/ FetchFails
    \/ Redeem
    \/ Boot

DisplaySpec == DisplayInit /\ [][DisplayNext]_displayVars

-----------------------------------------------------------------------------
(***************************************************************************)
(* Properties                                                              *)
(***************************************************************************)

\* Every variable holds a value of its C++ type, or a time.
DisplayTypeOK ==
    /\ millis \in Instants /\ start \in Instants /\ next \in Instants
    /\ wait \in Nat /\ age \in Nat /\ since \in Nat /\ blind \in Nat
    /\ pc \in {"setup", "connect", "loop", "fetch", "delay"}
    /\ wifi \in BOOLEAN /\ currentToken \in BOOLEAN /\ shown \in BOOLEAN /\ used \in BOOLEAN

(***************************************************************************)
(* A code does not stay on the screen for longer than it takes to replace  *)
(* it: wherever millis() starts again from 0, whatever the network and the *)
(* server do. It may have expired for as long as a slow fetch takes beyond *)
(* the margin.                                                             *)
(***************************************************************************)
CodesAreReplaced == shown => age <= Refresh + Pause + FetchMax

BlindAtMost == Longer(Refresh + Pause, Retry)

(***************************************************************************)
(* With a network and a server that answers, a guest never waits longer    *)
(* for a code to redeem than until the next refresh: when another guest    *)
(* has used the one on the screen, and after the network was away.         *)
(***************************************************************************)
BlindIsBrief == blind <= BlindAtMost + FetchMax

(***************************************************************************)
(* What the two rest on. A code that is kept is as old as the distance     *)
(* from millis() to nextRefreshAtMs says, even if one of them has started  *)
(* again from 0; and how long it has been kept, and how long a guest has   *)
(* waited, is bounded by where the loop is.                                *)
(***************************************************************************)
Fetching == IF pc = "fetch" THEN Minus(millis, start) ELSE 0
Waiting == IF pc = "delay" THEN wait ELSE 0
KeptAtMost == Longer(MaxQuiet + Retry, Refresh + Pause)

TokenIsDated ==
    currentToken =>
        /\ pc # "setup"
        /\ Plus(millis, Refresh) = Plus(next, since)
        /\ blind <= since
        /\ ~ wifi \/ pc = "connect" => since <= MaxQuiet
        /\ since + Waiting <= KeptAtMost + Fetching

ShownIsDated ==
    shown =>
        /\ currentToken
        /\ pc \notin {"setup", "connect"}
        /\ age <= since
        /\ since + Waiting <= (Refresh + Pause) + Fetching

BlindIsDated ==
    /\ Fetching <= FetchMax
    /\ ~ wifi \/ pc \in {"setup", "connect"} => blind = 0
    /\ blind + Waiting <= BlindAtMost + Fetching

DisplayIInv == DisplayTypeOK /\ TokenIsDated /\ ShownIsDated /\ BlindIsDated
=============================================================================
