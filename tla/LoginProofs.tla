---------------------------- MODULE LoginProofs ----------------------------
(***************************************************************************)
(* The limit and the cookies of module Login, for any number of browsers,  *)
(* passwords, configurations and tokens.                                   *)
(***************************************************************************)
EXTENDS Login, FiniteSetTheorems, TLAPS

----------------------------------------------------------------------------
(* The inductive invariant.                                                *)

\* The requests whose password is being checked.
Waiting == {b \in Browsers : pending[b] # None}

\* Once the last token is gone, nobody comes in: those that wait, and those
\* that have failed since the refill on top of its tokens, are one fewer
\* than the browsers.
LateFailures ==
  minute + hour = 0 => failed + Cardinality(Waiting) <= granted + Cardinality(Browsers) - 1

\* A cookie is the one that its login was answered with.
CookiesAreGiven ==
  \A b \in Browsers :
    IF earned[b] = None THEN cookie[b] = None
    ELSE /\ IsPasswordValid(earned[b].config, earned[b].password)
         /\ cookie[b] = CookieFor(earned[b].config, earned[b].password)

IInv == TypeOK /\ LimitIsKept /\ LateFailures /\ CookiesAreGiven

----------------------------------------------------------------------------
(* Counting.                                                               *)

LEMMA Counts ==
  ASSUME NEW S \in SUBSET Browsers
  PROVE  /\ IsFiniteSet(S) /\ Cardinality(S) \in Nat
         /\ Cardinality(S) <= Cardinality(Browsers)
         /\ Cardinality(Browsers) \in Nat /\ Cardinality(Browsers) >= 1
         /\ \A b \in S : Cardinality(S \ {b}) = Cardinality(S) - 1
<1>1. IsFiniteSet(Browsers) /\ Browsers # {}
  BY LoginAssumption
<1>2. IsFiniteSet(S) /\ Cardinality(S) <= Cardinality(Browsers)
  BY <1>1, FS_Subset
<1>3. Cardinality(S) \in Nat /\ Cardinality(Browsers) \in Nat
  BY <1>1, <1>2, FS_CardinalityType
<1>4. Cardinality(Browsers) # 0
  BY <1>1, FS_EmptySet
<1>5. \A b \in S : Cardinality(S \ {b}) = Cardinality(S) - 1
  BY <1>2, FS_RemoveElement
<1> QED
  BY <1>2, <1>3, <1>4, <1>5

\* What LimitIsKept and LateFailures say of t tokens, f failures, g tokens
\* granted, w requests that wait and n browsers.
Kept(t, f, g, w, n) ==
  /\ \/ t = g - f
     \/ t = 0 /\ f > g
  /\ f <= g + n - 1
  /\ t = 0 => f + w <= g + n - 1

LEMMA KeptSays ==
  Kept(minute + hour, failed, granted, Cardinality(Waiting), Cardinality(Browsers))
    <=> LimitIsKept /\ LateFailures
  BY DEF Kept, LimitIsKept, LateFailures

\* A failure pays with a token, or comes when there are none.
LEMMA Pay ==
  ASSUME NEW t \in Nat, NEW f \in Nat, NEW g \in Nat, NEW w \in Nat, NEW n \in Nat,
         NEW u \in Nat, NEW v \in Nat, w <= n, g >= 1, Kept(t, f, g, w, n),
         \/ u = t - 1
         \/ u = 0 /\ t = 0,
         v = w - 1
  PROVE  Kept(u, f + 1, g, v, n)
  BY DEF Kept

\* After a refill there is a token, and nothing has failed.
LEMMA Refill ==
  ASSUME NEW g \in Nat, NEW w \in Nat, NEW n \in Nat, g >= 1, n >= 1
  PROVE  Kept(g, 0, g, w, n)
<1>1. g = g - 0
  OBVIOUS
<1>2. 0 <= g + n - 1
  OBVIOUS
<1>3. g # 0
  OBVIOUS
<1> QED
  BY <1>1, <1>2, <1>3 DEF Kept

\* What RemoveToken does to m and h tokens.
LEMMA Payment ==
  ASSUME NEW m \in Nat, NEW h \in Nat, NEW mm \in Nat, NEW hh \in Nat,
         \/ m >= 1 /\ mm = m - 1 /\ hh = h
         \/ m = 0 /\ h >= 1 /\ hh = h - 1 /\ mm = m
         \/ m = 0 /\ h = 0 /\ hh = h /\ mm = m
  PROVE  /\ m + h \in Nat /\ mm + hh \in Nat
         /\ \/ mm + hh = m + h - 1
            \/ mm + hh = 0 /\ m + h = 0
<1>1. CASE m >= 1 /\ mm = m - 1 /\ hh = h
  BY <1>1
<1>2. CASE m = 0 /\ h >= 1 /\ hh = h - 1 /\ mm = m
  BY <1>2
<1>3. CASE m = 0 /\ h = 0 /\ hh = h /\ mm = m
  BY <1>3
<1> QED
  BY <1>1, <1>2, <1>3

----------------------------------------------------------------------------
(* The steps.                                                              *)

LEMMA InitIInv == Init => IInv
<1> SUFFICES ASSUME Init PROVE IInv
  OBVIOUS
<1> USE LoginAssumption DEF Init
<1>1. TypeOK
  BY DEF TypeOK
<1>2. LimitIsKept /\ LateFailures
  <2> DEFINE W == Cardinality(Waiting)
  <2> DEFINE N == Cardinality(Browsers)
  <2>1. W \in Nat /\ N \in Nat /\ N >= 1 /\ granted \in Nat /\ granted >= 1
    BY Counts DEF Waiting
  <2> HIDE DEF W, N
  <2>2. Kept(granted, 0, granted, W, N)
    BY <2>1, Refill
  <2> QED
    BY <2>2, KeptSays DEF W, N
<1>3. CookiesAreGiven
  BY DEF CookiesAreGiven
<1> QED
  BY <1>1, <1>2, <1>3 DEF IInv

\* A hash that answers a login is a hash.
LEMMA CookieTypes ==
  ASSUME NEW c \in Configs, NEW p \in Passwords
  PROVE  CookieFor(c, p) \in Hashes
<1>1. c.hashed \in ConfigHashes \cup {None}
  BY LoginAssumption DEF AnyConfig
<1> QED
  BY <1>1 DEF CookieFor, PasswordMethod, Hashes

LEMMA TypeStep == ASSUME TypeOK, [Next]_vars PROVE TypeOK'
<1> USE LoginAssumption DEF TypeOK, limits
<1>1. ASSUME NEW b \in Browsers, Accept(b) PROVE TypeOK'
  <2>1. CookieFor(config, pending[b]) \in Hashes
    BY <1>1, CookieTypes DEF Accept
  <2>2. pending[b] \in Passwords
    BY <1>1 DEF Accept
  <2> QED
    BY <1>1, <2>1, <2>2 DEF Accept
<1>2. ASSUME NEW b \in Browsers, Fail(b) PROVE TypeOK'
  BY <1>2 DEF Fail, RemoveToken
<1>3. ASSUME NEW b \in Browsers, Logout(b) PROVE TypeOK'
  BY <1>3 DEF Logout
<1>4. ASSUME NEW b \in Browsers, NEW p \in Passwords, Post(b, p) PROVE TypeOK'
  BY <1>4 DEF Post
<1>5. CASE Drip
  BY <1>5 DEF Drip
<1>6. CASE Restart
  BY <1>6 DEF Restart
<1>7. CASE UNCHANGED vars
  BY <1>7 DEF vars
<1> QED
  BY <1>1, <1>2, <1>3, <1>4, <1>5, <1>6, <1>7 DEF Next

\* A request that ends leaves one fewer waiting; a new one finds a token.
LEMMA LimitStep ==
  ASSUME IInv, TypeOK', [Next]_vars
  PROVE  LimitIsKept' /\ LateFailures'
<1> DEFINE W == Cardinality(Waiting)
<1> DEFINE N == Cardinality(Browsers)
<1>1. W \in Nat /\ N \in Nat /\ W <= N /\ N >= 1 /\ W' \in Nat
  BY Counts DEF Waiting
<1>2. minute \in Nat /\ hour \in Nat /\ failed \in Nat /\ granted \in Nat /\ granted >= 1
  BY LoginAssumption DEF IInv, TypeOK
<1>3. minute' \in Nat /\ hour' \in Nat /\ granted' \in Nat /\ granted' >= 1
  BY LoginAssumption DEF TypeOK
<1>4. Kept(minute + hour, failed, granted, W, N)
  BY KeptSays DEF IInv
<1> SUFFICES Kept(minute' + hour', failed', granted', W', N)
  BY DEF Kept, LimitIsKept, LateFailures
<1>5. ASSUME NEW b \in Browsers, pending[b] # None,
             pending' = [pending EXCEPT ![b] = None]
      PROVE  W' = W - 1
  <2>1. Waiting' = Waiting \ {b} /\ b \in Waiting
    BY <1>5 DEF Waiting, IInv, TypeOK
  <2> QED
    BY <2>1, Counts DEF Waiting
<1>6. ASSUME NEW b \in Browsers, Accept(b)
      PROVE  Kept(minute' + hour', failed', granted', W', N)
  <2>1. W' = W - 1 /\ UNCHANGED limits
    BY <1>5, <1>6 DEF Accept
  <2> QED
    BY <1>1, <1>2, <1>4, <2>1 DEF Kept, limits
<1>7. ASSUME NEW b \in Browsers, Fail(b)
      PROVE  Kept(minute' + hour', failed', granted', W', N)
  <2>1. W' = W - 1
    BY <1>5, <1>7 DEF Fail
  <2>2. failed' = failed + 1 /\ UNCHANGED granted /\ RemoveToken
    BY <1>7 DEF Fail
  <2> DEFINE t == minute + hour
  <2> DEFINE u == minute' + hour'
  <2>3. \/ minute >= 1 /\ minute' = minute - 1 /\ hour' = hour
        \/ minute = 0 /\ hour >= 1 /\ hour' = hour - 1 /\ minute' = minute
        \/ minute = 0 /\ hour = 0 /\ hour' = hour /\ minute' = minute
    BY <2>2 DEF RemoveToken
  <2>4. /\ t \in Nat /\ u \in Nat
        /\ \/ u = t - 1
           \/ u = 0 /\ t = 0
    <3> HIDE DEF t, u
    <3>1. PICK m \in Nat, h \in Nat, mm \in Nat, hh \in Nat :
            m = minute /\ h = hour /\ mm = minute' /\ hh = hour'
      BY <1>2, <1>3
    <3>2. t = m + h /\ u = mm + hh
      BY <3>1 DEF t, u
    <3>3. \/ m >= 1 /\ mm = m - 1 /\ hh = h
          \/ m = 0 /\ h >= 1 /\ hh = h - 1 /\ mm = m
          \/ m = 0 /\ h = 0 /\ hh = h /\ mm = m
      BY <2>3, <3>1
    <3>4. /\ m + h \in Nat /\ mm + hh \in Nat
          /\ \/ mm + hh = m + h - 1
             \/ mm + hh = 0 /\ m + h = 0
      BY <3>3, Payment
    <3> QED
      BY <3>2, <3>4
  <2> HIDE DEF t, u, W, N
  <2>5. Kept(u, failed + 1, granted, W', N)
    BY <1>1, <1>2, <1>4, <2>1, <2>4, Pay DEF t
  <2> QED
    BY <2>2, <2>5 DEF u
<1>8. ASSUME NEW b \in Browsers, Logout(b)
      PROVE  Kept(minute' + hour', failed', granted', W', N)
  BY <1>4, <1>8 DEF Logout, limits, Waiting
<1>9. ASSUME NEW b \in Browsers, NEW p \in Passwords, Post(b, p)
      PROVE  Kept(minute' + hour', failed', granted', W', N)
  <2>1. minute + hour # 0 /\ UNCHANGED limits
    BY <1>2, <1>9 DEF Post, CanTry
  <2> QED
    BY <1>4, <2>1 DEF Kept, limits
<1>10. CASE Drip \/ Restart
  <2>1. failed' = 0 /\ granted' = minute' + hour'
    BY <1>10 DEF Drip, Restart
  <2> HIDE DEF W, N
  <2>2. Kept(granted', 0, granted', W', N)
    BY <1>1, <1>3, Refill
  <2> QED
    BY <2>1, <2>2
<1>11. CASE UNCHANGED vars
  BY <1>4, <1>11 DEF vars, limits, Waiting
<1> QED
  BY <1>6, <1>7, <1>8, <1>9, <1>10, <1>11 DEF Next

LEMMA CookiesStep ==
  ASSUME IInv, [Next]_vars
  PROVE  CookiesAreGiven'
<1> USE LoginAssumption DEF IInv, TypeOK
<1>1. ASSUME NEW b \in Browsers, Accept(b) PROVE CookiesAreGiven'
  <2>1. [password |-> pending[b], config |-> config] # None
    BY <1>1 DEF Accept
  <2> QED
    BY <1>1, <2>1 DEF Accept, CookiesAreGiven
<1>2. ASSUME NEW b \in Browsers, Logout(b) PROVE CookiesAreGiven'
  BY <1>2 DEF Logout, CookiesAreGiven
<1>3. CASE UNCHANGED <<cookie, earned>>
  BY <1>3 DEF CookiesAreGiven
<1> QED
  BY <1>1, <1>2, <1>3 DEF Next, Fail, Post, Drip, Restart, vars

LEMMA NextIInv == ASSUME IInv, [Next]_vars PROVE IInv'
  BY TypeStep, LimitStep, CookiesStep DEF IInv

\* What a cookie of an earlier login is worth under the present arguments.
LEMMA GivenIsHonest == IInv => CookiesAreHonest
<1> SUFFICES ASSUME IInv, NEW b \in Browsers
             PROVE  /\ Authenticated(b) =>
                         earned[b] # None /\ IsPasswordValid(config, earned[b].password)
                    /\ earned[b] # None /\ earned[b].config = config => Authenticated(b)
  BY DEF CookiesAreHonest
<1>1. CASE earned[b] = None
  <2>1. cookie[b] = None
    BY <1>1 DEF IInv, CookiesAreGiven
  <2> QED
    BY <1>1, <2>1 DEF Authenticated, IsCookieValid, PasswordMethod, IsHashMatch
<1>2. CASE earned[b] # None
  <2> DEFINE then == earned[b].config
  <2> DEFINE p == earned[b].password
  <2>1. p \in Passwords /\ then \in AnyConfig /\ config \in AnyConfig
    BY <1>2, LoginAssumption DEF IInv, TypeOK
  <2>2. IsPasswordValid(then, p) /\ cookie[b] = CookieFor(then, p)
    BY <1>2 DEF IInv, CookiesAreGiven
  <2> HIDE DEF then, p
  <2>3. None \notin Passwords /\ None \notin Hashes
    BY LoginAssumption
  <2>4. IsCookieValid(config, CookieFor(then, p)) => IsPasswordValid(config, p)
    <3> USE DEF AnyConfig, ConfigHashes, Hashes, Argon, Sha, IsPasswordValid, CookieFor,
                IsCookieValid, PasswordMethod, IsHashMatch
    <3>1. CASE config.hashed = None
      BY <2>1, <2>2, <2>3, <3>1
    <3>2. CASE config.hashed # None /\ then.hashed = None
      BY <2>1, <2>2, <2>3, <3>2
    <3>3. CASE config.hashed # None /\ then.hashed # None
      BY <2>1, <2>2, <2>3, <3>3
    <3> QED
      BY <3>1, <3>2, <3>3
  <2>5. then = config => IsCookieValid(config, CookieFor(then, p))
    BY <2>1, <2>2, <2>3 DEF AnyConfig, ConfigHashes, Hashes, Argon, Sha, IsPasswordValid,
       CookieFor, IsCookieValid, PasswordMethod, IsHashMatch
  <2> QED
    BY <1>2, <2>2, <2>4, <2>5 DEF Authenticated, then, p
<1> QED
  BY <1>1, <1>2

----------------------------------------------------------------------------
(* The theorems.                                                           *)

\* The inductive invariant holds in every state of the logins.
THEOREM Inductive == Spec => []IInv
<1>1. IInv /\ [Next]_vars => IInv'
  BY NextIInv
<1> QED
  BY InitIInv, <1>1, PTL DEF Spec

\* For any number of browsers, attempts that fail between two refills exceed
\* the tokens by fewer than there are browsers, and only failures pay
\* (RateLimiter and the order of login.ts 77-101).
THEOREM LimitKept == Spec => []LimitIsKept
<1>1. IInv => LimitIsKept
  BY DEF IInv
<1> QED
  BY Inductive, <1>1, PTL

\* For any configurations, a cookie is worth what the login it comes from is
\* worth now (util.ts 223-291).
THEOREM CookiesHonest == Spec => []CookiesAreHonest
  BY Inductive, GivenIsHonest, PTL

\* The variables of the browsers, the server and the limiter stay in their
\* ranges (login.ts 14-116).
THEOREM LoginTypes == Spec => []TypeOK
<1>1. IInv => TypeOK
  BY DEF IInv
<1> QED
  BY Inductive, <1>1, PTL

============================================================================
