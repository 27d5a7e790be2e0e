----------------------------- MODULE LoginLimit -----------------------------
(***************************************************************************)
(* ratelimit.Login: a POST /login passes the bucket of its client and then  *)
(* the global ceiling, each under its own mutex and with its own reading of *)
(* the clock, so the attempts of others and any time come between the two.  *)
(* A token taken from the client is not given back when the ceiling         *)
(* refuses.  Other methods pass without asking.                             *)
(***************************************************************************)
EXTENDS ClientLimiter, FiniteSets

CONSTANTS
    GlobalRate,   \* units the ceiling refills per tick (12 x 1 in production)
    GlobalBurst,  \* tokens in the full ceiling bucket
    MaxWaiting    \* bound on attempts of a client between the two buckets

GlobalCapacity == GlobalBurst * Cost
Slot == 1..MaxWaiting
Free == -1  \* the time of a slot that holds no attempt

ASSUME GlobalAssumption ==
    GlobalRate \in Nat \ {0} /\ GlobalBurst \in Nat \ {0} /\ MaxWaiting \in Nat

VARIABLES
    gTokens,  \* loginGlobal.tokens, in units
    gLast,    \* loginGlobal.last
    passedAt, \* when the attempt in a client's slot passed its client's bucket
    callers,  \* auxiliary: the clients that have tried to log in
    lag,      \* auxiliary: the longest any attempt has been between the buckets
    gMark,    \* auxiliary: start of the window being watched
    gSpent    \* auxiliary: units the ceiling granted in that window

globals == <<gTokens, gLast, gMark, gSpent>>
loginVars == <<vars, globals, passedAt, callers, lag>>

LoginInit ==
    /\ Init
    /\ gTokens = GlobalCapacity
    /\ gLast = 0
    /\ passedAt = [c \in Client |-> [k \in Slot |-> Free]]
    /\ callers = {}
    /\ lag = 0
    /\ gMark = 0
    /\ gSpent = 0

\* Mutant: the ceiling is not capped.
GlobalUncapped == gTokens + GlobalRate * (now - gLast)

\* The refill of the ceiling.
GlobalAvail ==
    LET full == gTokens + GlobalRate * (now - gLast)
    IN  IF full > GlobalCapacity THEN GlobalCapacity ELSE full

\* Mutant: attempts refused by their client are charged to the ceiling.
PassesAlways(c) == TRUE

\* The client's bucket lets the attempt through.
Passes(c) == Units(c) >= Cost

\* loginClient.Allow; a refusal is answered 429.
Post(c, k) ==
    /\ passedAt[c][k] = Free
    /\ Allow(c)
    /\ passedAt' = [passedAt EXCEPT ![c][k] = IF Passes(c) THEN now ELSE Free]
    /\ callers' = callers \cup {c}
    /\ UNCHANGED <<globals, lag>>

\* loginGlobal.Allow; a grant reaches the login handler, a refusal is 429.
Ceiling(c, k) ==
    /\ passedAt[c][k] # Free
    /\ passedAt' = [passedAt EXCEPT ![c][k] = Free]
    /\ gLast' = now
    /\ \/ /\ GlobalAvail >= Cost
          /\ gTokens' = GlobalAvail - Cost
          /\ gSpent' = gSpent + Cost
       \/ /\ GlobalAvail < Cost
          /\ gTokens' = GlobalAvail
          /\ UNCHANGED gSpent
    /\ UNCHANGED <<vars, callers, lag, gMark>>

\* Some attempt is between the buckets for longer than any before, by the next
\* tick.
Lags ==
    \E c \in Client, k \in Slot :
        passedAt[c][k] # Free /\ (now + 1) - passedAt[c][k] > lag

\* Time passes, for an attempt that is between the buckets too.
Second ==
    /\ Tick
    /\ lag' = IF Lags THEN lag + 1 ELSE lag
    /\ UNCHANGED <<globals, passedAt, callers>>

\* Auxiliary: start counting afresh.
RewatchGlobal ==
    /\ gMark' = now
    /\ gSpent' = 0
    /\ UNCHANGED <<vars, gTokens, gLast, passedAt, callers, lag>>

LoginNext ==
    \/ \E c \in Client, k \in Slot : Post(c, k) \/ Ceiling(c, k)
    \/ Second
    \/ RewatchGlobal

LoginSpec == LoginInit /\ [][LoginNext]_loginVars

-----------------------------------------------------------------------------
\* The logins of all clients together stay under the ceiling in any window.
GlobalWindowBound == gSpent <= GlobalCapacity + GlobalRate * (now - gMark)

\* "It bounds distributed guessing without self-DoS": as long as few enough
\* clients have called for their rates to fit, and for their bursts with a margin
\* of the refill that each delay between the two buckets can lose, none of them
\* meets the ceiling, however their attempts interleave, however long they take
\* and whatever the limiter forgets.
NoSelfDoS ==
    /\ Cardinality(callers) <= GlobalRate
    /\ Cardinality(callers) * (Capacity + lag) <= GlobalCapacity
    => \A c \in Client, k \in Slot :
           passedAt[c][k] # Free => GlobalAvail >= Cost
=============================================================================
