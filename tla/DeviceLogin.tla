----------------------------- MODULE DeviceLogin -----------------------------
(***************************************************************************)
(* vpath login: the device flow of cli/auth.py against Keycloak, and the   *)
(* token file it leaves for the commands.  Times are what is left of them; *)
(* meanwhile the user approves, denies or does nothing, and Keycloak may   *)
(* find a poll too fast.                                                   *)
(***************************************************************************)
EXTENDS Naturals

CONSTANTS
    Timeout,      \* timeout_seconds
    Interval,     \* the interval Keycloak grants
    Increment,    \* the 5 seconds of slow_down
    MaxInterval,  \* bound on it: how often Keycloak says slow_down
    Life,         \* how long the platform takes a token, its leeway included
    Early,        \* how long before that end the CLI no longer sends it
    None, Broken

VARIABLES
    grant,   \* the device code at Keycloak
    login,   \* the command
    stored   \* ~/.vpath/cli-token.json: what is left of the token's life

loginVars == <<grant, login, stored>>

ASSUME TimesAssumption ==
    /\ Timeout \in Nat /\ Interval \in Nat /\ Increment \in Nat /\ MaxInterval \in Nat
    /\ Interval <= MaxInterval /\ Life \in Nat /\ Early \in 1 .. Life
    /\ None \notin Nat /\ Broken \notin Nat

Ended(code) == [at |-> "idle", interval |-> 0, asleep |-> 0, left |-> 0, exit |-> code]

LoginInit ==
    /\ grant = "none" /\ login = Ended(None)
    /\ stored \in {None, Life}

LoginEnds(code) == login' = Ended(code)

LoginGoes(where) == login' = [login EXCEPT !.at = where]

\* Without an issuer there is nobody to ask.
LoginStarts ==
    /\ login.at = "idle"
    /\ \/ LoginEnds(2)
       \/ login' = [Ended(None) EXCEPT !.at = "discovery"]
    /\ grant' = "none"
    /\ UNCHANGED stored

\* An answer that is no JSON is nobody's exception: a traceback, exit code 1.
NoUsableAnswer == LoginEnds(5) \/ LoginEnds(1)

Discovery ==
    /\ login.at = "discovery"
    /\ LoginGoes("authorize") \/ NoUsableAnswer
    /\ UNCHANGED <<grant, stored>>

Authorize ==
    /\ login.at = "authorize"
    /\ \/ /\ grant' = "pending"
          /\ login' = [login EXCEPT !.at = "poll", !.interval = Interval, !.left = Timeout]
       \/ NoUsableAnswer /\ UNCHANGED grant
    /\ UNCHANGED stored

\* Mutant: slow_down gives the user more time.
SlowDownExtending ==
    /\ login.at = "poll" /\ login.left > 0 /\ grant \in {"pending", "approved"}
    /\ login' = [login EXCEPT !.left = Timeout]
    /\ UNCHANGED <<grant, stored>>

\* The longer interval counts from the next authorization_pending: the next poll follows
\* at once.
SlowDown ==
    /\ login.at = "poll" /\ login.left > 0 /\ grant \in {"pending", "approved"}
    /\ login.interval + Increment <= MaxInterval
    /\ login' = [login EXCEPT !.interval = @ + Increment]
    /\ UNCHANGED <<grant, stored>>

Poll ==
    /\ login.at = "poll" /\ login.left > 0
    /\ \/ grant = "approved" /\ LoginGoes("save") /\ grant' = "used"
       \/ /\ grant = "pending" /\ UNCHANGED grant
          /\ login' = [login EXCEPT !.at = "sleep", !.asleep = login.interval]
       \/ grant \in {"denied", "expired"} /\ LoginEnds(5) /\ UNCHANGED grant
       \/ NoUsableAnswer /\ grant' \in {grant} \cup (IF grant = "approved" THEN {"used"} ELSE {})
    /\ UNCHANGED stored

Wakes ==
    /\ login.at = "sleep" /\ login.asleep = 0
    /\ LoginGoes("poll")
    /\ UNCHANGED <<grant, stored>>

TimesOut ==
    /\ login.at = "poll" /\ login.left = 0
    /\ LoginEnds(5)
    /\ UNCHANGED <<grant, stored>>

\* save_tokens; the file cannot be written, or not to its end.
Save ==
    /\ login.at = "save"
    /\ \/ LoginEnds(0) /\ stored' = Life
       \/ LoginEnds(1) /\ stored' \in {stored, Broken}
    /\ UNCHANGED grant

LoginKilled ==
    /\ login.at # "idle"
    /\ LoginEnds(None)
    /\ IF login.at = "save" THEN stored' \in {stored, Broken} ELSE UNCHANGED stored
    /\ UNCHANGED grant

UserDecides ==
    /\ grant = "pending"
    /\ grant' \in {"approved", "denied", "expired"}
    /\ UNCHANGED <<login, stored>>

LoginStep == Discovery \/ Authorize \/ Poll \/ Wakes \/ TimesOut \/ Save

Older(n) == IF n \in Nat /\ n > 0 THEN n - 1 ELSE n

LoginTick ==
    /\ login' = [login EXCEPT !.left = Older(@), !.asleep = Older(@)]
    /\ UNCHANGED <<grant, stored>>

Login == [at : {"idle", "discovery", "authorize", "poll", "sleep", "save"},
          interval : 0 .. MaxInterval, asleep : 0 .. MaxInterval, left : 0 .. Timeout,
          exit : {None, 0, 1, 2, 5}]

LoginTypeOK ==
    /\ grant \in {"none", "pending", "approved", "denied", "expired", "used"}
    /\ login \in Login
    /\ stored \in {None, Broken} \cup 0 .. Life

\* load_access_token: what the file gives a command, 0 for nothing.
AccessToken == IF stored \in Nat /\ stored >= Early THEN stored ELSE 0
=============================================================================
