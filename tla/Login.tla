------------------------------- MODULE Login -------------------------------
(***************************************************************************)
(* Logging in to code-server: the requests of src/src/node/routes/login.ts *)
(* and logout.ts, the two buckets that limit failed attempts, and the      *)
(* cookies that src/src/node/util.ts makes and recognises for each of its  *)
(* three password methods.  A request looks at the limit before it awaits  *)
(* the check of its password, and pays for a failure after it.  Cookies    *)
(* outlive a restart with other arguments; the buckets do not.             *)
(***************************************************************************)
EXTENDS Integers, FiniteSets

CONSTANTS
  Browsers,      (* each has one cookie and one request under way at most  *)
  Passwords,
  Configs,       (* the arguments code-server may be started with          *)
  None,          (* no password, hash, cookie or request                   *)
  MinuteTokens,  (* 2 in the code                                          *)
  HourTokens,    (* 12 in the code                                         *)
  MaxDrips,      (* a bound on the refills of the buckets                  *)
  MaxRestarts    (* a bound on the restarts                                *)

\* What the hash functions give: hash() draws a salt of its own, which is
\* never the one of the hash that somebody put into the configuration.
Argon(p, salt) == [kind |-> "argon2", of |-> p, salt |-> salt]
Sha(p) == [kind |-> "sha256", of |-> p, salt |-> "none"]

ConfigHashes == {Argon(p, "config") : p \in Passwords} \cup {Sha(p) : p \in Passwords}
Hashes == ConfigHashes \cup {Argon(p, "login") : p \in Passwords}
AnyConfig == [password : Passwords \cup {None}, hashed : ConfigHashes \cup {None}]

ASSUME LoginAssumption ==
  /\ IsFiniteSet(Browsers) /\ Browsers # {}
  /\ Configs \subseteq AnyConfig
  /\ None \notin Passwords /\ None \notin Hashes
  /\ None \notin [password : Passwords, config : Configs]
  /\ MinuteTokens \in Nat /\ HourTokens \in Nat /\ MinuteTokens + HourTokens > 0
  /\ MaxDrips \in Nat /\ MaxRestarts \in Nat

VARIABLES
  config,    (* the arguments of the running process                       *)
  minute,    (* tokens of minuteLimiter                                    *)
  hour,      (* tokens of hourLimiter                                      *)
  pending,   (* the password whose check a browser's request awaits        *)
  cookie,    (* the session cookie of each browser                         *)
  earned,    (* history: the login that a browser's cookie comes from      *)
  failed,    (* history: failed attempts since the last refill             *)
  granted,   (* history: the tokens there were at that refill              *)
  drips, restarts

limits == <<minute, hour, failed, granted, drips>>
vars == <<config, limits, pending, cookie, earned, restarts>>

Init ==
  /\ config \in Configs
  /\ minute = MinuteTokens /\ hour = HourTokens
  /\ pending = [b \in Browsers |-> None]
  /\ cookie = [b \in Browsers |-> None]
  /\ earned = [b \in Browsers |-> None]
  /\ failed = 0 /\ granted = MinuteTokens + HourTokens
  /\ drips = 0 /\ restarts = 0

----------------------------------------------------------------------------
(* Passwords and cookies.                                                  *)

\* A hashed password takes precedence over a password in plain text.
PasswordMethod(c) ==
  IF c.hashed = None THEN "PLAIN_TEXT"
  ELSE IF c.hashed.kind = "argon2" THEN "ARGON2" ELSE "SHA256"

IsHashMatch(p, h) == p # None /\ h # None /\ h.kind = "argon2" /\ h.of = p

IsPasswordValid(c, p) ==
  \/ PasswordMethod(c) = "PLAIN_TEXT" /\ p = c.password
  \/ PasswordMethod(c) = "SHA256" /\ Sha(p) = c.hashed
  \/ PasswordMethod(c) = "ARGON2" /\ IsHashMatch(p, c.hashed)

\* Mutated form: every method answers with a hash of its own.
FreshCookie(c, p) == Argon(p, "login")

\* The hashedPassword that handlePasswordValidation returns.
CookieFor(c, p) ==
  IF PasswordMethod(c) = "PLAIN_TEXT" THEN Argon(p, "login") ELSE c.hashed

IsCookieValid(c, k) ==
  IF PasswordMethod(c) = "PLAIN_TEXT" THEN IsHashMatch(c.password, k) ELSE k = c.hashed

Authenticated(b) == IsCookieValid(config, cookie[b])

----------------------------------------------------------------------------
(* The limiter.                                                            *)

CanTry == minute >= 1 \/ hour >= 1

\* Mutated form: only the limiter of the minute pays.
RemoveMinuteToken ==
  \/ minute >= 1 /\ minute' = minute - 1 /\ UNCHANGED hour
  \/ minute = 0 /\ UNCHANGED <<minute, hour>>

\* Mutated form: the limiter of the hour pays whether it has a token or not.
RemoveTokenOnCredit ==
  \/ minute >= 1 /\ minute' = minute - 1 /\ UNCHANGED hour
  \/ minute = 0 /\ hour' = hour - 1 /\ UNCHANGED minute

RemoveToken ==
  \/ minute >= 1 /\ minute' = minute - 1 /\ UNCHANGED hour
  \/ minute = 0 /\ hour >= 1 /\ hour' = hour - 1 /\ UNCHANGED minute
  \/ minute = 0 /\ hour = 0 /\ UNCHANGED <<minute, hour>>

----------------------------------------------------------------------------
(* Requests.                                                               *)

\* Who has a valid cookie is redirected before the limit is looked at.
Post(b, p) ==
  /\ pending[b] = None
  /\ ~Authenticated(b)
  /\ CanTry
  /\ pending' = [pending EXCEPT ![b] = p]
  /\ UNCHANGED <<config, limits, cookie, earned, restarts>>

Accept(b) ==
  /\ pending[b] # None /\ IsPasswordValid(config, pending[b])
  /\ cookie' = [cookie EXCEPT ![b] = CookieFor(config, pending[b])]
  /\ earned' = [earned EXCEPT ![b] = [password |-> pending[b], config |-> config]]
  /\ pending' = [pending EXCEPT ![b] = None]
  /\ UNCHANGED <<config, limits, restarts>>

\* The result of removeToken() is not looked at.
Fail(b) ==
  /\ pending[b] # None /\ ~IsPasswordValid(config, pending[b])
  /\ RemoveToken
  /\ failed' = failed + 1
  /\ pending' = [pending EXCEPT ![b] = None]
  /\ UNCHANGED <<config, granted, drips, cookie, earned, restarts>>

Logout(b) ==
  /\ cookie[b] # None
  /\ cookie' = [cookie EXCEPT ![b] = None]
  /\ earned' = [earned EXCEPT ![b] = None]
  /\ UNCHANGED <<config, limits, pending, restarts>>

\* External: the limiter library gives back a token as time goes by.
Drip ==
  /\ drips < MaxDrips
  /\ drips' = drips + 1
  /\ \/ minute < MinuteTokens /\ minute' = minute + 1 /\ UNCHANGED hour
     \/ hour < HourTokens /\ hour' = hour + 1 /\ UNCHANGED minute
  /\ failed' = 0 /\ granted' = minute' + hour'
  /\ UNCHANGED <<config, pending, cookie, earned, restarts>>

\* The process starts again, perhaps with another password: requests fail
\* and the limiters are new, the browsers keep their cookies.
Restart ==
  /\ restarts < MaxRestarts
  /\ restarts' = restarts + 1
  /\ config' \in Configs
  /\ minute' = MinuteTokens /\ hour' = HourTokens
  /\ failed' = 0 /\ granted' = MinuteTokens + HourTokens
  /\ pending' = [b \in Browsers |-> None]
  /\ UNCHANGED <<cookie, earned, drips>>

Next ==
  \/ \E b \in Browsers :
       Accept(b) \/ Fail(b) \/ Logout(b) \/ \E p \in Passwords : Post(b, p)
  \/ Drip \/ Restart

Spec == Init /\ [][Next]_vars

----------------------------------------------------------------------------
(* Properties.                                                             *)

TypeOK ==
  /\ config \in Configs
  /\ minute \in 0 .. MinuteTokens /\ hour \in 0 .. HourTokens
  /\ pending \in [Browsers -> Passwords \cup {None}]
  /\ cookie \in [Browsers -> Hashes \cup {None}]
  /\ earned \in [Browsers -> [password : Passwords, config : Configs] \cup {None}]
  /\ failed \in Nat /\ granted \in 1 .. MinuteTokens + HourTokens
  /\ drips \in 0 .. MaxDrips /\ restarts \in 0 .. MaxRestarts

\* "It allows 2 logins every minute plus 12 logins every hour" (login.ts 13),
\* and "successful logins should not count" (login.ts 99): each failure takes
\* one token of either bucket and nothing else does, so between refills more
\* attempts fail than there were tokens only by those that were already
\* waiting for the check of their password when the last token went.
LimitIsKept ==
  /\ \/ minute + hour = granted - failed
     \/ minute + hour = 0 /\ failed > granted
  /\ failed <= granted + Cardinality(Browsers) - 1

\* A cookie is recognised only in a browser that logged in with a password
\* that is valid now, whatever the password and its method were before a
\* restart; and always if the arguments are those of the login (util.ts
\* 223-262 makes the cookies, 272-291 recognises them).
CookiesAreHonest ==
  \A b \in Browsers :
    /\ Authenticated(b) => earned[b] # None /\ IsPasswordValid(config, earned[b].password)
    /\ earned[b] # None /\ earned[b].config = config => Authenticated(b)

============================================================================
