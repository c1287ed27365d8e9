------------------------- MODULE LoginRenewalProofs -------------------------
(***************************************************************************)
(* The renewals of a login make lines of tokens, and its callers are       *)
(* answered with the newest of their line, whatever calls, failures,       *)
(* sign-ins and other processes there are.  ApiKeyRenewal: a token Cursor  *)
(* rejected is not answered once another was issued.                       *)
(***************************************************************************)
EXTENDS LoginRenewal, FiniteSetTheorems, WellFoundedInduction, TLAPS

\* Successors were issued after the tokens they renew.
Later(s) ==
    /\ s \in [Tokens -> Tokens \cup {None}]
    /\ \A t \in Tokens : s[t] # None => t < s[t]

\* The token after x in a line, or x; the tokens of the line that begins with
\* t, one by one; and the last.
After(s, x) == IF s[x] = None THEN x ELSE s[x]
IsLine(f, s, t, k) == f = [n \in 0 .. k |-> IF n = 0 THEN t ELSE After(s, f[n - 1])]
LineFrom(s, t) == CHOOSE f : IsLine(f, s, t, MaxToken)
EndOf(s, t) == LineFrom(s, t)[MaxToken]

-----------------------------------------------------------------------------
(* Induction, with a set for what holds.                                    *)

LEMMA LeastNat ==
    ASSUME NEW T \in SUBSET Nat, T # {}
    PROVE  \E x \in T : \A y \in T : x <= y
<1> DEFINE R == OpToRel(<, Nat)
<1>1. IsWellFoundedOn(R, Nat)
  BY NatLessThanWellFounded
<1>2. \A x, y \in Nat : y < x => <<y, x>> \in R
  BY DEF OpToRel
<1> HIDE DEF R
<1>3. \E x \in T : \A y \in T : ~(<<y, x>> \in R)
  BY <1>1, WFMin
<1>4. ASSUME NEW x \in T, NEW y \in T, <<y, x>> \notin R
      PROVE  x <= y
  <2>1. ~(y < x)
    BY <1>2, <1>4
  <2> QED BY <2>1
<1> QED BY <1>3, <1>4

LEMMA Inductive ==
    ASSUME NEW S, 0 \in S, \A n \in Nat : n \in S => n + 1 \in S
    PROVE  Nat \subseteq S
<1> SUFFICES ASSUME ~(Nat \subseteq S)
             PROVE  FALSE
  OBVIOUS
<1>1. PICK x \in Nat \ S : \A y \in Nat \ S : x <= y
  BY LeastNat
<1>2. x # 0
  BY <1>1
<1>3. x - 1 \in Nat /\ ~(x <= x - 1)
  BY <1>1, <1>2
<1>4. x - 1 \in S
  BY <1>1, <1>3
<1>5. (x - 1) + 1 \in S
  BY <1>3, <1>4
<1> QED BY <1>1, <1>5

-----------------------------------------------------------------------------
(* Lines. *)

\* A line is what its definition says of it.
LEMMA LineStarts ==
    ASSUME NEW s, NEW t, NEW m \in Nat
    PROVE  \E f : IsLine(f, s, t, m)
<1> DEFINE Is(f, k) == f = [n \in 0 .. k |-> IF n = 0 THEN t ELSE After(s, f[n - 1])]
           S == {k \in Nat : \E f : Is(f, k)}
<1>1. 0 \in S
  <2>1. Is([n \in 0 .. 0 |-> t], 0)
    OBVIOUS
  <2> QED BY <2>1
<1>2. ASSUME NEW k \in Nat, k \in S
      PROVE  k + 1 \in S
  <2>1. PICK f : Is(f, k)
    BY <1>2
  <2> DEFINE g == [n \in 0 .. k + 1 |-> IF n = k + 1 THEN After(s, f[k]) ELSE f[n]]
  <2>2. \A n \in 0 .. k : f[n] = IF n = 0 THEN t ELSE After(s, f[n - 1])
    BY <2>1
  <2>3. ASSUME NEW n \in 0 .. k + 1
        PROVE  g[n] = IF n = 0 THEN t ELSE After(s, g[n - 1])
    <3>1. CASE n = k + 1
      <4>1. n - 1 = k /\ n # 0 /\ k \in 0 .. k + 1 /\ k # k + 1
        BY <1>2, <3>1
      <4>2. g[n - 1] = f[k]
        BY <4>1
      <4> QED BY <3>1, <4>1, <4>2
    <3>2. CASE n # k + 1 /\ n # 0
      <4>1. n \in 0 .. k /\ n - 1 \in 0 .. k + 1 /\ n - 1 # k + 1
        BY <1>2, <3>2
      <4>2. g[n] = f[n] /\ g[n - 1] = f[n - 1]
        BY <3>2, <4>1
      <4> HIDE DEF g
      <4> QED BY <2>2, <3>2, <4>1, <4>2
    <3>3. CASE n = 0
      <4>1. 0 \in 0 .. k /\ 0 # k + 1
        BY <1>2
      <4>2. g[n] = f[0]
        BY <3>3, <4>1
      <4> HIDE DEF g
      <4> QED BY <2>2, <3>3, <4>1, <4>2
    <3> QED BY <3>1, <3>2, <3>3
  <2>4. g = [n \in 0 .. k + 1 |-> g[n]]
    OBVIOUS
  <2> HIDE DEF g
  <2>5. Is(g, k + 1)
    BY <2>3, <2>4
  <2> QED BY <1>2, <2>5
<1> HIDE DEF S
<1>3. m \in S
  BY <1>1, <1>2, Inductive
<1> QED BY <1>3 DEF S, IsLine

LEMMA LineGoes ==
    ASSUME Constants, NEW s, NEW t
    PROVE  /\ LineFrom(s, t)[0] = t
           /\ \A n \in Tokens : n + 1 \in Tokens => LineFrom(s, t)[n + 1] = After(s, LineFrom(s, t)[n])
<1>1. MaxToken \in Nat /\ Tokens = 0 .. MaxToken
  BY DEF Constants, Tokens
<1> DEFINE l == LineFrom(s, t)
<1>2. IsLine(l, s, t, MaxToken)
  BY <1>1, LineStarts DEF LineFrom
<1>3. l = [n \in Tokens |-> IF n = 0 THEN t ELSE After(s, l[n - 1])]
  BY <1>1, <1>2 DEF IsLine
<1> HIDE DEF l
<1>4. \A n \in Tokens : l[n] = IF n = 0 THEN t ELSE After(s, l[n - 1])
  BY <1>3
<1>5. l[0] = t
  BY <1>1, <1>4
<1>6. ASSUME NEW n \in Tokens, n + 1 \in Tokens
      PROVE  l[n + 1] = After(s, l[n])
  <2>1. n + 1 # 0 /\ (n + 1) - 1 = n
    BY <1>1
  <2> QED BY <1>4, <1>6, <2>1
<1> QED BY <1>5, <1>6 DEF l

\* After n tokens a line is over, or n tokens further.
LEMMA LineRises ==
    ASSUME Constants, NEW s, Later(s), NEW t \in Tokens, NEW n \in Tokens
    PROVE  /\ LineFrom(s, t)[n] \in Tokens /\ t <= LineFrom(s, t)[n]
           /\ s[LineFrom(s, t)[n]] = None \/ t + n <= LineFrom(s, t)[n]
<1> DEFINE l == LineFrom(s, t)
           Good(k) == l[k] \in Tokens /\ t <= l[k] /\ (s[l[k]] = None \/ t + k <= l[k])
           S == {k \in Nat : k \in Tokens => Good(k)}
<1>1. MaxToken \in Nat /\ Tokens = 0 .. MaxToken
  BY DEF Constants, Tokens
<1>2. /\ l[0] = t
      /\ \A k \in Tokens : k + 1 \in Tokens => l[k + 1] = After(s, l[k])
  BY LineGoes
<1> HIDE DEF l
<1>3. 0 \in S
  BY <1>1, <1>2
<1>4. ASSUME NEW k \in Nat, k \in S, k + 1 \in Tokens
      PROVE  Good(k + 1)
  <2>1. k \in Tokens /\ Good(k)
    BY <1>1, <1>4
  <2>2. l[k + 1] = After(s, l[k])
    BY <1>2, <1>4, <2>1
  <2>3. CASE s[l[k]] = None
    <3>1. l[k + 1] = l[k]
      BY <2>2, <2>3 DEF After
    <3> QED BY <2>1, <2>3, <3>1
  <2>4. CASE s[l[k]] # None
    <3>1. l[k + 1] = s[l[k]] /\ l[k] < s[l[k]] /\ s[l[k]] \in Tokens
      BY <2>1, <2>2, <2>4 DEF After, Later
    <3>2. l[k] \in Nat /\ s[l[k]] \in Nat /\ t \in Nat /\ t + k <= l[k]
      BY <1>1, <2>1, <2>4, <3>1
    <3>3. t + (k + 1) <= l[k + 1] /\ t <= l[k + 1]
      BY <3>1, <3>2
    <3> QED BY <3>1, <3>3
  <2> QED BY <2>3, <2>4
<1>5. n \in S
  <2>1. \A k \in Nat : k \in S => k + 1 \in S
    BY <1>4
  <2> HIDE DEF S
  <2> QED BY <1>1, <1>3, <2>1, Inductive, SMTT(30)
<1> QED BY <1>5 DEF l

LEMMA EndKnown ==
    ASSUME Constants, NEW s, Later(s), NEW t \in Tokens
    PROVE  EndOf(s, t) \in Tokens /\ t <= EndOf(s, t) /\ s[EndOf(s, t)] = None
<1>1. MaxToken \in Nat /\ MaxToken \in Tokens /\ Tokens = 0 .. MaxToken
  BY DEF Constants, Tokens
<1> DEFINE e == EndOf(s, t)
<1>2. e \in Tokens /\ t <= e /\ (s[e] = None \/ t + MaxToken <= e)
  BY <1>1, LineRises DEF EndOf
<1> HIDE DEF e
<1>3. ASSUME s[e] # None
      PROVE  FALSE
  <2>1. e = MaxToken
    BY <1>1, <1>2, <1>3
  <2>2. s[e] \in Tokens /\ e < s[e]
    BY <1>2, <1>3 DEF Later
  <2> QED BY <1>1, <2>1, <2>2
<1> QED BY <1>2, <1>3 DEF e

\* A token that nobody renewed ends its line.
LEMMA EndHere ==
    ASSUME Constants, NEW s, NEW t \in Tokens, s[t] = None
    PROVE  EndOf(s, t) = t
<1> DEFINE l == LineFrom(s, t)
           S == {k \in Nat : k \in Tokens => l[k] = t}
<1>1. MaxToken \in Nat /\ Tokens = 0 .. MaxToken
  BY DEF Constants, Tokens
<1>2. /\ l[0] = t
      /\ \A k \in Tokens : k + 1 \in Tokens => l[k + 1] = After(s, l[k])
  BY LineGoes
<1> HIDE DEF l
<1>3. 0 \in S
  BY <1>2
<1>4. \A k \in Nat : k \in S => k + 1 \in S
  BY <1>1, <1>2 DEF After
<1> HIDE DEF S
<1>5. MaxToken \in S
  BY <1>1, <1>3, <1>4, Inductive
<1> QED BY <1>1, <1>5 DEF S, l, EndOf

\* The line of a renewed token is that of its successor.
LEMMA EndThere ==
    ASSUME Constants, NEW s, Later(s), NEW t \in Tokens, s[t] # None
    PROVE  EndOf(s, t) = EndOf(s, s[t])
<1> DEFINE u == s[t]
           l == LineFrom(s, t)
           m == LineFrom(s, u)
           S == {k \in Nat : k + 1 \in Tokens => l[k + 1] = m[k]}
<1>1. MaxToken \in Nat \ {0} /\ Tokens = 0 .. MaxToken
  BY DEF Constants, Tokens
<1>2. u \in Tokens /\ 0 < u
  BY <1>1 DEF Later
<1>3. /\ l[0] = t
      /\ \A k \in Tokens : k + 1 \in Tokens => l[k + 1] = After(s, l[k])
  BY LineGoes
<1>4. /\ m[0] = u
      /\ \A k \in Tokens : k + 1 \in Tokens => m[k + 1] = After(s, m[k])
  BY LineGoes
<1>5. MaxToken - 1 \in Tokens /\ MaxToken - 1 \in Nat /\ MaxToken \in Tokens /\ (MaxToken - 1) + 1 = MaxToken
  BY <1>1
<1>6. /\ m[MaxToken - 1] \in Tokens
      /\ s[m[MaxToken - 1]] = None \/ u + (MaxToken - 1) <= m[MaxToken - 1]
  BY <1>2, <1>5, LineRises
<1> HIDE DEF l, m
<1>7. 0 \in S
  BY <1>1, <1>3, <1>4 DEF After
<1>8. ASSUME NEW k \in Nat, k \in S, k + 2 \in Tokens
      PROVE  l[k + 2] = m[k + 1]
  <2>1. k + 1 \in Tokens /\ k \in Tokens /\ (k + 1) + 1 = k + 2
    BY <1>1, <1>8
  <2>2. l[k + 1] = m[k]
    BY <1>8, <2>1
  <2>3. l[k + 2] = After(s, l[k + 1]) /\ m[k + 1] = After(s, m[k])
    BY <1>3, <1>4, <1>8, <2>1
  <2> QED BY <2>2, <2>3
<1>9. MaxToken - 1 \in S
  <2>1. \A k \in Nat : k \in S => k + 1 \in S
    <3> SUFFICES ASSUME NEW k \in Nat, k \in S, (k + 1) + 1 \in Tokens
                 PROVE  l[(k + 1) + 1] = m[k + 1]
      OBVIOUS
    <3>1. (k + 1) + 1 = k + 2
      OBVIOUS
    <3> HIDE DEF S
    <3> QED BY <1>8, <3>1
  <2> HIDE DEF S
  <2> QED BY <1>5, <1>7, <2>1, Inductive
<1>10. l[MaxToken] = m[MaxToken - 1]
  BY <1>5, <1>9
<1>11. s[m[MaxToken - 1]] = None
  <2>1. ASSUME s[m[MaxToken - 1]] # None
        PROVE  FALSE
    <3>1. m[MaxToken - 1] = MaxToken
      BY <1>1, <1>2, <1>6, <2>1
    <3>2. s[MaxToken] \in Tokens /\ MaxToken < s[MaxToken]
      BY <1>5, <2>1, <3>1 DEF Later
    <3> QED BY <1>1, <3>2
  <2> QED BY <2>1
<1>12. m[MaxToken] = m[MaxToken - 1]
  BY <1>4, <1>5, <1>11 DEF After
<1> QED BY <1>10, <1>12 DEF l, m, EndOf

\* k gets the successor n.
Extends(s, z, k, n) ==
    /\ k \in Tokens /\ n \in Tokens /\ n # k /\ s[k] = None /\ s[n] = None
    /\ Later(s) /\ Later(z) /\ z = [s EXCEPT ![k] = n]

\* A successor n for the last token k of a line ends every line that k ended,
\* and no other.
LEMMA EndMoves ==
    ASSUME Constants, NEW s, NEW z, NEW k, NEW n, Extends(s, z, k, n), NEW t \in Tokens
    PROVE  EndOf(z, t) = IF EndOf(s, t) = k THEN n ELSE EndOf(s, t)
<1> DEFINE Right(x) == EndOf(z, x) = IF EndOf(s, x) = k THEN n ELSE EndOf(s, x)
           S == {d \in Nat : \A x \in Tokens : MaxToken <= x + d => Right(x)}
<1>1. MaxToken \in Nat /\ Tokens = 0 .. MaxToken
  BY DEF Constants, Tokens
<1>2. /\ k \in Tokens /\ n \in Tokens /\ n # k /\ s[k] = None /\ s[n] = None /\ Later(s) /\ Later(z)
      /\ z[k] = n /\ z[n] = None /\ \A x \in Tokens \ {k} : z[x] = s[x]
  BY DEF Later, Extends
<1>3. ASSUME NEW x \in Tokens, s[x] = None
      PROVE  Right(x)
  <2>1. EndOf(s, x) = x
    BY <1>3, EndHere
  <2>2. CASE x = k
    <3>1. EndOf(z, n) = n
      BY <1>2, EndHere
    <3>2. n # None
      BY <1>1, <1>2 DEF None
    <3>3. EndOf(z, k) = EndOf(z, n)
      BY <1>2, <3>2, EndThere
    <3> QED BY <2>1, <2>2, <3>1, <3>3
  <2>3. CASE x # k
    <3>1. EndOf(z, x) = x
      BY <1>2, <1>3, <2>3, EndHere
    <3> QED BY <2>1, <2>3, <3>1
  <2> QED BY <2>2, <2>3
<1>4. ASSUME NEW x \in Tokens, s[x] # None, Right(s[x])
      PROVE  Right(x)
  <2>1. x # k /\ z[x] = s[x]
    BY <1>2, <1>4
  <2>2. EndOf(s, x) = EndOf(s, s[x]) /\ EndOf(z, x) = EndOf(z, s[x])
    BY <1>2, <1>4, <2>1, EndThere
  <2> QED BY <1>4, <2>2
<1> HIDE DEF Right
<1>5. 0 \in S
  <2> SUFFICES ASSUME NEW x \in Tokens, MaxToken <= x + 0
               PROVE  Right(x)
    OBVIOUS
  <2>1. x = MaxToken
    BY <1>1
  <2>2. s[x] = None
    BY <1>1, <1>2, <2>1 DEF Later
  <2> QED BY <1>3, <2>2
<1>6. ASSUME NEW d \in Nat, d \in S, NEW x \in Tokens, MaxToken <= x + (d + 1)
      PROVE  Right(x)
  <2>1. CASE s[x] = None
    BY <1>3, <2>1
  <2>2. CASE s[x] # None
    <3>1. s[x] \in Tokens /\ x < s[x]
      BY <1>2, <2>2 DEF Later
    <3>2. MaxToken <= s[x] + d
      BY <1>1, <1>6, <3>1
    <3>3. Right(s[x])
      BY <1>6, <3>1, <3>2
    <3> QED BY <1>4, <2>2, <3>3
  <2> QED BY <2>1, <2>2
<1>7. MaxToken \in S
  <2>1. \A d \in Nat : d \in S => d + 1 \in S
    BY <1>6
  <2> HIDE DEF S
  <2> QED BY <1>1, <1>5, <2>1, Inductive
<1>8. MaxToken <= t + MaxToken
  BY <1>1
<1> QED BY <1>7, <1>8 DEF Right

-----------------------------------------------------------------------------
(* The chains of the module are these lines. *)

\* NewestOf and Latest for any successors, tokens issued and expiries.
NewestIn(s, issued, t) ==
    IF t \notin issued \/ t = 1 THEN None
    ELSE IF t = 0 /\ s[1] # None THEN EndOf(s, 1) ELSE EndOf(s, t)

LatestIn(s, e, login) ==
    IF EndOf(s, login.refresh) = login.refresh THEN login
    ELSE IF /\ login.access # login.refresh /\ e[login.access] >= e[EndOf(s, login.refresh)]
            /\ login.access # EndOf(s, login.refresh)
         THEN login
    ELSE Login(EndOf(s, login.refresh), EndOf(s, login.refresh))

LEMMA ChainsAreLines ==
    /\ \A t : ChainEnd(t) = EndOf(succ, t)
    /\ \A t : ChainEnd(t)' = EndOf(succ', t)
BY DEF ChainEnd, EndOf, LineFrom, IsLine, After, Tokens

LEMMA NewestDefined ==
    /\ \A t : NewestOf(t) = NewestIn(succ, Issued, t)
    /\ \A t : NewestOf(t)' = NewestIn(succ', Issued', t)
BY ChainsAreLines DEF NewestOf, NewestIn

LEMMA LatestDefined == \A login : Latest(login) = LatestIn(succ, exp, login)
BY ChainsAreLines DEF Latest, LatestIn

-----------------------------------------------------------------------------
(* Lines of issued tokens. *)

\* Only issued tokens have or are successors, the first access token has none,
\* and what was issued later lives longer than it.
Lines(s, e) ==
    /\ Later(s) /\ DOMAIN e \subseteq Tokens /\ e \in [DOMAIN e -> Nat]
    /\ {0, 1} \subseteq DOMAIN e /\ e[0] = Life
    /\ \A t \in Tokens : s[t] # None => t # 0 /\ t \in DOMAIN e /\ s[t] \in DOMAIN e
    /\ \A t \in DOMAIN e \ {0, 1} : e[t] > Life

\* A login is the first one, or one token that is both.
KnownLogin(e, l) == l = Login(0, 1) \/ \E t \in DOMAIN e \ {0, 1} : l = Login(t, t)

LEMMA EndIssued ==
    ASSUME Constants, NEW s, NEW e, Lines(s, e), NEW t \in DOMAIN e
    PROVE  /\ EndOf(s, t) \in DOMAIN e /\ EndOf(s, t) \in Nat /\ t \in Nat /\ t <= EndOf(s, t)
           /\ s[EndOf(s, t)] = None
           /\ s[t] = None <=> EndOf(s, t) = t
<1> DEFINE S == {d \in Nat : \A x \in DOMAIN e : MaxToken <= x + d => EndOf(s, x) \in DOMAIN e}
<1>1. MaxToken \in Nat /\ Tokens = 0 .. MaxToken /\ DOMAIN e \subseteq Tokens /\ Later(s)
  BY DEF Constants, Tokens, Lines
<1>2. ASSUME NEW x \in DOMAIN e, s[x] = None
      PROVE  EndOf(s, x) \in DOMAIN e
  BY <1>1, <1>2, EndHere
<1>3. 0 \in S
  <2> SUFFICES ASSUME NEW x \in DOMAIN e, MaxToken <= x + 0
               PROVE  EndOf(s, x) \in DOMAIN e
    OBVIOUS
  <2>1. x = MaxToken
    BY <1>1
  <2>2. s[x] = None
    BY <1>1, <2>1 DEF Later
  <2> QED BY <1>2, <2>2
<1>4. ASSUME NEW d \in Nat, d \in S, NEW x \in DOMAIN e, MaxToken <= x + (d + 1)
      PROVE  EndOf(s, x) \in DOMAIN e
  <2>1. CASE s[x] = None
    BY <1>2, <2>1
  <2>2. CASE s[x] # None
    <3>1. s[x] \in DOMAIN e /\ x < s[x]
      BY <1>1, <2>2 DEF Later, Lines
    <3>2. MaxToken <= s[x] + d
      BY <1>1, <1>4, <3>1
    <3>3. EndOf(s, x) = EndOf(s, s[x])
      BY <1>1, <2>2, EndThere
    <3> QED BY <1>4, <3>1, <3>2, <3>3
  <2> QED BY <2>1, <2>2
<1>5. MaxToken \in S
  <2>1. \A d \in Nat : d \in S => d + 1 \in S
    BY <1>4
  <2> HIDE DEF S
  <2> QED BY <1>1, <1>3, <2>1, Inductive
<1>6. MaxToken <= t + MaxToken
  BY <1>1
<1>7. EndOf(s, t) \in DOMAIN e
  BY <1>5, <1>6
<1>8. EndOf(s, t) \in Tokens /\ t <= EndOf(s, t) /\ s[EndOf(s, t)] = None /\ t \in Tokens
  BY <1>1, EndKnown
<1>9. s[t] = None => EndOf(s, t) = t
  BY <1>8, EndHere
<1> QED BY <1>1, <1>7, <1>8, <1>9

\* latestSessionTokens gives the newest tokens of a login's line.
LEMMA LatestIsNewest ==
    ASSUME Constants, NEW s, NEW e, Lines(s, e), NEW l, KnownLogin(e, l)
    PROVE  LET m == LatestIn(s, e, l) IN
           /\ KnownLogin(e, m) /\ m.refresh = EndOf(s, l.refresh) /\ s[m.refresh] = None
           /\ m.access = NewestIn(s, DOMAIN e, l.access)
           /\ m.access = NewestIn(s, DOMAIN e, m.access)
           /\ IF s[l.refresh] = None THEN m = l
              ELSE m = Login(EndOf(s, l.refresh), EndOf(s, l.refresh)) /\ m.access > l.access
<1> DEFINE m == LatestIn(s, e, l)
           end == EndOf(s, l.refresh)
<1>1. /\ 0 \in DOMAIN e /\ 1 \in DOMAIN e /\ 1 # None /\ s[0] = None
      /\ DOMAIN e \subseteq Nat /\ e \in [DOMAIN e -> Nat] /\ Life \in Nat
  BY DEF Lines, Constants, Tokens, None
<1>2. CASE l = Login(0, 1)
  <2>1. l.access = 0 /\ l.refresh = 1
    BY <1>2 DEF Login
  <2>2. EndOf(s, 0) = 0
    BY <1>1, EndIssued
  <2>3. CASE s[1] = None
    <3>1. end = 1
      BY <1>1, <2>1, <2>3, EndIssued
    <3>2. m = l
      BY <2>1, <3>1 DEF LatestIn
    <3>3. NewestIn(s, DOMAIN e, 0) = 0
      BY <1>1, <2>2, <2>3 DEF NewestIn
    <3> HIDE DEF end, m
    <3>4. /\ m.access = 0 /\ m.refresh = 1 /\ KnownLogin(e, m)
      BY <1>2, <2>1, <3>2 DEF KnownLogin
    <3> QED BY <2>1, <2>3, <3>1, <3>2, <3>3, <3>4 DEF m, end
  <2>4. CASE s[1] # None
    <3>1. end \in DOMAIN e \ {0, 1} /\ end > 1 /\ s[end] = None /\ end \in Nat
      BY <1>1, <2>1, <2>4, EndIssued
    <3>2. e[end] > e[0] /\ e[end] \in Nat /\ e[0] \in Nat
      BY <1>1, <3>1 DEF Lines
    <3>3. m = Login(end, end)
      BY <2>1, <3>1, <3>2 DEF LatestIn
    <3>4. NewestIn(s, DOMAIN e, 0) = end /\ NewestIn(s, DOMAIN e, end) = end
      <4>1. EndOf(s, end) = end
        BY <3>1, EndIssued
      <4> QED BY <1>1, <2>1, <2>4, <3>1, <4>1 DEF NewestIn
    <3> HIDE DEF end, m
    <3>5. m.access = end /\ m.refresh = end /\ KnownLogin(e, m) /\ end > 0
      BY <3>1, <3>3 DEF Login, KnownLogin
    <3> QED BY <2>1, <2>4, <3>1, <3>3, <3>4, <3>5 DEF m, end
  <2> QED BY <2>3, <2>4
<1>3. ASSUME NEW t \in DOMAIN e \ {0, 1}, l = Login(t, t)
      PROVE  /\ KnownLogin(e, m) /\ m.refresh = EndOf(s, l.refresh) /\ s[m.refresh] = None
             /\ m.access = NewestIn(s, DOMAIN e, l.access)
             /\ m.access = NewestIn(s, DOMAIN e, m.access)
             /\ IF s[l.refresh] = None THEN m = l
                ELSE m = Login(EndOf(s, l.refresh), EndOf(s, l.refresh)) /\ m.access > l.access
  <2>1. l.access = t /\ l.refresh = t
    BY <1>3 DEF Login
  <2>2. /\ end \in DOMAIN e /\ s[end] = None /\ end \in Nat /\ t \in Nat /\ t <= end
        /\ s[t] = None <=> end = t
    BY <2>1, EndIssued
  <2>3. end \in DOMAIN e \ {0, 1}
    BY <1>1, <1>3, <2>2
  <2>4. m = Login(end, end)
    BY <1>3, <2>1 DEF LatestIn
  <2>5. EndOf(s, end) = end
    BY <2>2, EndIssued
  <2>6. NewestIn(s, DOMAIN e, t) = end /\ NewestIn(s, DOMAIN e, end) = end
    BY <1>3, <2>1, <2>3, <2>5 DEF NewestIn
  <2> HIDE DEF end, m
  <2>7. m.access = end /\ m.refresh = end /\ KnownLogin(e, m)
    BY <2>3, <2>4 DEF Login, KnownLogin
  <2>8. IF s[t] = None THEN m = l ELSE m.access > t
    BY <1>3, <2>2, <2>4, <2>7
  <2> QED BY <2>1, <2>2, <2>4, <2>6, <2>7, <2>8 DEF m, end
<1> QED BY <1>2, <1>3 DEF KnownLogin

\* A token n renewed with k: n is the newest of all tokens whose newest k was
\* (the first refresh token stands for the access token it came with).
LEMMA NewestRenewed ==
    ASSUME Constants, NEW s, NEW e, Lines(s, e), NEW k \in DOMAIN e \ {0},
           NEW n \in Tokens \ DOMAIN e, NEW z, Extends(s, z, k, n), NEW t \in Tokens
    PROVE  LET old == IF k = 1 THEN 0 ELSE k IN
           /\ NewestIn(s, DOMAIN e, old) = old /\ NewestIn(s, DOMAIN e, n) = None
           /\ NewestIn(z, DOMAIN e \union {n}, t) =
                  IF t = n \/ NewestIn(s, DOMAIN e, t) = old THEN n ELSE NewestIn(s, DOMAIN e, t)
<1> DEFINE old == IF k = 1 THEN 0 ELSE k
<1>1. /\ {0, 1} \subseteq DOMAIN e /\ DOMAIN e \subseteq Tokens /\ Tokens \subseteq Nat /\ Later(s)
      /\ s[0] = None /\ None \notin Tokens /\ s[n] = None /\ n # k /\ s[k] = None
  BY DEF Lines, Constants, Tokens, None, Extends
<1>2. \A x \in Tokens : EndOf(z, x) = IF EndOf(s, x) = k THEN n ELSE EndOf(s, x)
  BY EndMoves
<1>3. z[1] = IF k = 1 THEN n ELSE s[1]
  BY <1>1 DEF Later, Extends
<1>4. EndOf(s, 0) = 0 /\ EndOf(s, k) = k /\ EndOf(s, n) = n
  BY <1>1, EndHere
<1>5. NewestIn(s, DOMAIN e, old) = old
  BY <1>1, <1>4 DEF NewestIn
<1>6. NewestIn(s, DOMAIN e, n) = None
  BY DEF NewestIn
<1>7. n \notin {0, 1} /\ n # None /\ n \in Tokens
  BY <1>1
<1>8. CASE t = n
  <2>1. NewestIn(z, DOMAIN e \union {n}, n) = EndOf(z, n)
    BY <1>7 DEF NewestIn
  <2> QED BY <1>1, <1>2, <1>4, <1>5, <1>6, <1>8, <2>1
<1>9. CASE t \notin DOMAIN e /\ t # n
  BY <1>1, <1>5, <1>6, <1>9 DEF NewestIn
<1>10. CASE t = 1
  BY <1>1, <1>5, <1>6, <1>7, <1>10 DEF NewestIn
<1>11. CASE t = 0
  <2>1. CASE k = 1
    <3>1. NewestIn(s, DOMAIN e, 0) = 0
      BY <1>1, <1>4, <2>1 DEF NewestIn
    <3>2. NewestIn(z, DOMAIN e \union {n}, 0) = EndOf(z, 1)
      BY <1>1, <1>3, <1>7, <2>1 DEF NewestIn
    <3>3. EndOf(z, 1) = n
      BY <1>1, <1>2, <1>4, <2>1
    <3> QED BY <1>5, <1>6, <1>11, <2>1, <3>1, <3>2, <3>3
  <2>2. CASE k # 1 /\ s[1] # None
    <3>1. NewestIn(s, DOMAIN e, 0) = EndOf(s, 1) /\ NewestIn(z, DOMAIN e \union {n}, 0) = EndOf(z, 1)
      BY <1>1, <1>3, <2>2 DEF NewestIn
    <3> QED BY <1>1, <1>2, <1>5, <1>6, <1>7, <1>11, <2>2, <3>1
  <2>3. CASE k # 1 /\ s[1] = None
    <3>1. NewestIn(s, DOMAIN e, 0) = EndOf(s, 0) /\ NewestIn(z, DOMAIN e \union {n}, 0) = EndOf(z, 0)
      BY <1>1, <1>3, <2>3 DEF NewestIn
    <3> QED BY <1>1, <1>2, <1>5, <1>6, <1>7, <1>11, <2>3, <3>1
  <2> QED BY <2>1, <2>2, <2>3
<1>12. CASE t \in DOMAIN e \ {0, 1}
  <2>1. NewestIn(s, DOMAIN e, t) = EndOf(s, t) /\ NewestIn(z, DOMAIN e \union {n}, t) = EndOf(z, t)
    BY <1>12 DEF NewestIn
  <2>2. EndOf(s, t) \in DOMAIN e \ {0, 1}
    <3>1. EndOf(s, t) \in DOMAIN e /\ t <= EndOf(s, t) /\ t \in Nat /\ EndOf(s, t) \in Nat
      BY <1>12, EndIssued
    <3>2. t > 1
      BY <1>12, <3>1
    <3> QED BY <3>1, <3>2
  <2>3. EndOf(s, t) = old <=> EndOf(s, t) = k
    BY <1>1, <2>2
  <2>4. t # n
    BY <1>12
  <2> QED BY <1>1, <1>2, <1>5, <1>6, <2>1, <2>3, <2>4
<1> QED BY <1>8, <1>9, <1>10, <1>11, <1>12

-----------------------------------------------------------------------------
(* The invariant. *)

Logins == [access : Tokens, refresh : Tokens]
Records == [failures : Nat, retryAt : Nat, ended : BOOLEAN]
CallRecords == [pc : {"idle", "read", "awaiting", "woken", "compare", "write"},
                cred : Logins, base : Logins, token : Tokens, force : BOOLEAN]

TypeOK ==
    /\ now \in Nat \ {0}
    /\ \E n \in 2 .. MaxToken + 1 : Issued = 0 .. n - 1
    /\ state \in [Tokens -> Records]
    /\ inflight \in SUBSET [token : Tokens, by : Callers]
    /\ call \in [Callers -> CallRecords]
    /\ answer \in [Callers -> Tokens \cup {None, Failed}]

\* A call k holds known logins. The one it renews is of the line of the one it
\* read; while it waits, that one's renewal is under way, and what it finds
\* renewed afterwards is usable.
CallOK(k, s, e, t, q) ==
    /\ k.pc # "idle" => KnownLogin(e, k.cred)
    /\ k.pc \in {"compare", "write"} => k.token \in DOMAIN e \ {0, 1}
    /\ k.pc \in {"awaiting", "woken"} =>
           /\ KnownLogin(e, k.base)
           /\ NewestIn(s, DOMAIN e, k.base.access) = NewestIn(s, DOMAIN e, k.cred.access)
           /\ k.base.access >= k.cred.access
    /\ k.pc = "awaiting" => \E r \in q : r.token = k.base.refresh
    /\ k.pc = "woken" /\ s[k.base.refresh] # None => e[EndOf(s, k.base.refresh)] > t

CallsOK == \A c \in Callers : CallOK(call[c], succ, exp, now, inflight)

InflightIssued == \A r \in inflight : r.token \in Issued \ {0}

LoginInv ==
    /\ TypeOK /\ Lines(succ, exp) /\ KnownLogin(exp, store) /\ CallsOK
    /\ InflightIssued /\ RenewedOnce

LEMMA KnownIssued ==
    ASSUME NEW e, {0, 1} \subseteq DOMAIN e, NEW l, KnownLogin(e, l)
    PROVE  /\ l.access \in DOMAIN e /\ l.refresh \in DOMAIN e \ {0} /\ l.access # 1
           /\ l.access # 0 => l.access \in DOMAIN e \ {0, 1}
           /\ l = Login(l.access, l.refresh)
BY DEF KnownLogin, Login

\* Successors z and expiries f after s and e keep what calls know.
Carries(s, e, z, f, t) ==
    /\ \A l : KnownLogin(e, l) => KnownLogin(f, l)
    /\ {0, 1} \subseteq DOMAIN e /\ DOMAIN e \subseteq DOMAIN f
    /\ \A x, y \in DOMAIN e :
           NewestIn(s, DOMAIN e, x) = NewestIn(s, DOMAIN e, y)
                 => NewestIn(z, DOMAIN f, x) = NewestIn(z, DOMAIN f, y)
    /\ \A b \in DOMAIN e :
           (s[b] # None => e[EndOf(s, b)] > t) => (z[b] # None => f[EndOf(z, b)] > t)

LEMMA CarriesSame ==
    ASSUME Constants, NEW s, NEW e, Lines(s, e), NEW t
    PROVE  Carries(s, e, s, e, t)
BY DEF Carries, Lines

LEMMA CallCarried ==
    ASSUME NEW s, NEW e, NEW z, NEW f, NEW t, Carries(s, e, z, f, t),
           NEW k \in CallRecords, NEW q, CallOK(k, s, e, t, q),
           NEW p, k.pc = "awaiting" => \E r \in p : r.token = k.base.refresh
    PROVE  CallOK(k, z, f, t, p)
<1>1. {0, 1} \subseteq DOMAIN e /\ DOMAIN e \subseteq DOMAIN f /\ \A l : KnownLogin(e, l)
          => KnownLogin(f, l)
  BY DEF Carries
<1>2. k.pc # "idle" => KnownLogin(f, k.cred)
  BY <1>1 DEF CallOK
<1>3. k.pc \in {"compare", "write"} => k.token \in DOMAIN f \ {0, 1}
  BY <1>1 DEF CallOK
<1>4. ASSUME k.pc \in {"awaiting", "woken"}
      PROVE  /\ KnownLogin(f, k.base) /\ k.base.access >= k.cred.access
             /\ NewestIn(z, DOMAIN f, k.base.access) = NewestIn(z, DOMAIN f, k.cred.access)
  <2>1. KnownLogin(e, k.base) /\ KnownLogin(e, k.cred)
        /\ NewestIn(s, DOMAIN e, k.base.access) = NewestIn(s, DOMAIN e, k.cred.access)
        /\ k.base.access >= k.cred.access
    BY <1>4 DEF CallOK
  <2>2. k.base.access \in DOMAIN e /\ k.cred.access \in DOMAIN e
    BY <1>1, <2>1, KnownIssued
  <2> QED BY <1>1, <2>1, <2>2 DEF Carries
<1>5. ASSUME k.pc = "woken", z[k.base.refresh] # None
      PROVE  f[EndOf(z, k.base.refresh)] > t
  <2>1. k.base.refresh \in DOMAIN e
    BY <1>1, <1>5, KnownIssued DEF CallOK
  <2>2. s[k.base.refresh] # None => e[EndOf(s, k.base.refresh)] > t
    BY <1>5 DEF CallOK
  <2> QED BY <1>5, <2>1, <2>2 DEF Carries
<1> QED BY <1>2, <1>3, <1>4, <1>5 DEF CallOK

\* A call is woken when the renewal it waits for is over.
LEMMA CallWoken ==
    ASSUME NEW s, NEW e, NEW z, NEW f, NEW t, Carries(s, e, z, f, t),
           NEW k \in CallRecords, NEW q, CallOK(k, s, e, t, q), k.pc = "awaiting",
           s[k.base.refresh] = None, NEW p
    PROVE  CallOK([k EXCEPT !.pc = "woken"], z, f, t, p)
<1> DEFINE w == [k EXCEPT !.pc = "woken"]
<1>1. w \in CallRecords /\ w.pc = "woken" /\ w.cred = k.cred /\ w.base = k.base
  BY DEF CallRecords
<1> HIDE DEF w
<1>2. CallOK(w, s, e, t, q)
  BY <1>1 DEF CallOK
<1>3. CallOK(w, z, f, t, p)
  BY <1>1, <1>2, CallCarried
<1> QED BY <1>3 DEF w

-----------------------------------------------------------------------------
(* What Cursor issues. *)

LEMMA TokensNumbered ==
    ASSUME Constants, TypeOK
    PROVE  /\ Tokens = 0 .. MaxToken /\ MaxToken \in Nat \ {0} /\ None \notin Tokens
           /\ NextToken \in Nat \ {0, 1} /\ Issued = 0 .. NextToken - 1 /\ Issued \subseteq Tokens
<1>1. Tokens = 0 .. MaxToken /\ MaxToken \in Nat \ {0} /\ None \notin Tokens
  BY DEF Constants, Tokens, None
<1>2. PICK n \in 2 .. MaxToken + 1 : Issued = 0 .. n - 1
  BY DEF TypeOK
<1>3. Cardinality(0 .. n - 1) = n
  <2>1. n - 1 \in Int /\ ~(0 > n - 1) /\ (n - 1) - 0 + 1 = n
    BY <1>1, <1>2
  <2> QED BY <2>1, FS_Interval
<1>4. NextToken = n
  BY <1>2, <1>3 DEF NextToken
<1> QED BY <1>1, <1>2, <1>4

LEMMA IssuesToken ==
    ASSUME Constants, TypeOK, Lines(succ, exp), NextToken <= MaxToken, Issues(NextToken)
    PROVE  /\ NextToken \in Tokens \ DOMAIN exp /\ NextToken \notin {0, 1}
           /\ DOMAIN exp' = DOMAIN exp \cup {NextToken}
           /\ exp'[NextToken] = now + Life /\ \A t \in DOMAIN exp : exp'[t] = exp[t]
           /\ \E n \in 2 .. MaxToken + 1 : DOMAIN exp' = 0 .. n - 1
           /\ Lines(succ, exp')
           /\ \A l : KnownLogin(exp, l) => KnownLogin(exp', l)
           /\ KnownLogin(exp', Login(NextToken, NextToken))
<1> DEFINE n == NextToken
<1>1. /\ Tokens = 0 .. MaxToken /\ MaxToken \in Nat \ {0}
      /\ n \in Nat \ {0, 1} /\ Issued = 0 .. n - 1 /\ Issued \subseteq Tokens /\ n <= MaxToken
  BY TokensNumbered
<1>2. exp' = [t \in Issued \cup {n} |-> IF t = n THEN now + Life ELSE exp[t]]
  BY DEF Issues
<1> HIDE DEF n
<1>3. n \in Tokens \ Issued
  BY <1>1
<1>4. /\ DOMAIN exp' = Issued \cup {n} /\ exp'[n] = now + Life /\ \A t \in Issued : exp'[t] = exp[t]
  BY <1>2, <1>3
<1>5. DOMAIN exp' = 0 .. (n + 1) - 1 /\ n + 1 \in 2 .. MaxToken + 1
  BY <1>1, <1>4
<1>6. now \in Nat \ {0} /\ Life \in Nat
  BY DEF TypeOK, Constants
<1>7. Lines(succ, exp')
  <2>1. /\ Later(succ) /\ exp \in [Issued -> Nat] /\ {0, 1} \subseteq Issued /\ exp[0] = Life
        /\ \A t \in Tokens : succ[t] # None => t # 0 /\ t \in Issued /\ succ[t] \in Issued
        /\ \A t \in Issued \ {0, 1} : exp[t] > Life
    BY DEF Lines, Issued
  <2>2. exp' \in [DOMAIN exp' -> Nat]
    BY <1>2, <1>6, <2>1
  <2>3. \A t \in DOMAIN exp' \ {0, 1} : exp'[t] > Life
    BY <1>3, <1>4, <1>6, <2>1
  <2> QED BY <1>1, <1>3, <1>4, <2>1, <2>2, <2>3 DEF Lines
<1>8. \A l : KnownLogin(exp, l) => KnownLogin(exp', l)
  BY <1>4 DEF KnownLogin, Issued
<1>9. KnownLogin(exp', Login(n, n))
  BY <1>1, <1>4 DEF KnownLogin
<1> QED BY <1>1, <1>3, <1>4, <1>5, <1>7, <1>8, <1>9 DEF n, Issued

\* A sign-in begins a line of its own.
LEMMA NewLine ==
    ASSUME Constants, TypeOK, Lines(succ, exp), NextToken <= MaxToken, Issues(NextToken)
    PROVE  /\ Carries(succ, exp, succ, exp', now)
           /\ \A t \in Tokens : NewestIn(succ, DOMAIN exp', t) =
                  IF t = NextToken THEN t ELSE NewestIn(succ, DOMAIN exp, t)
<1>1. /\ NextToken \in Tokens \ DOMAIN exp /\ NextToken \notin {0, 1} /\ DOMAIN exp' = DOMAIN exp \cup {NextToken}
      /\ \A t \in DOMAIN exp : exp'[t] = exp[t]
      /\ \A l : KnownLogin(exp, l) => KnownLogin(exp', l)
  BY IssuesToken
<1>2. Later(succ) /\ {0, 1} \subseteq DOMAIN exp /\ succ[NextToken] = None
  BY <1>1 DEF Lines
<1>3. EndOf(succ, NextToken) = NextToken
  BY <1>1, <1>2, EndHere
<1>4. \A t \in Tokens : NewestIn(succ, DOMAIN exp', t) =
          IF t = NextToken THEN t ELSE NewestIn(succ, DOMAIN exp, t)
  BY <1>1, <1>3 DEF NewestIn
<1>5. \A b \in DOMAIN exp : exp'[EndOf(succ, b)] = exp[EndOf(succ, b)]
  BY <1>1, EndIssued
<1>6. DOMAIN exp \subseteq Tokens
  BY DEF Lines
<1>7. Carries(succ, exp, succ, exp', now)
  BY <1>1, <1>2, <1>4, <1>5, <1>6 DEF Carries
<1> QED BY <1>4, <1>7

\* A renewal goes on with the line of the token it was for.
LEMMA LineGrows ==
    ASSUME Constants, LoginInv, NEW r \in inflight, Renewed(r)
    PROVE  /\ NextToken <= MaxToken /\ Issues(NextToken) /\ NextToken \in Tokens \ Issued
           /\ r.token \in DOMAIN exp \ {0} /\ succ[r.token] = None
           /\ succ' = [succ EXCEPT ![r.token] = NextToken]
           /\ Lines(succ', exp')
           /\ Carries(succ, exp, succ', exp', now)
<1> DEFINE n == NextToken
           k == r.token
<1>1. /\ n <= MaxToken /\ Issues(n) /\ succ' = [succ EXCEPT ![k] = n]
  BY DEF Renewed
<1>2. /\ Constants /\ TypeOK /\ Lines(succ, exp) /\ Later(succ) /\ k \in DOMAIN exp \ {0} /\ succ[k] = None
      /\ DOMAIN exp \subseteq Tokens /\ {0, 1} \subseteq DOMAIN exp
  BY DEF LoginInv, InflightIssued, RenewedOnce, Lines, Issued
<1>3. /\ n \in Tokens \ DOMAIN exp /\ n \notin {0, 1} /\ DOMAIN exp' = DOMAIN exp \cup {n}
      /\ exp'[n] = now + Life /\ \A t \in DOMAIN exp : exp'[t] = exp[t]
      /\ Lines(succ, exp') /\ \A l : KnownLogin(exp, l) => KnownLogin(exp', l)
  BY <1>1, <1>2, IssuesToken
<1>4. Tokens = 0 .. MaxToken /\ MaxToken \in Nat \ {0} /\ n \in Nat /\ Issued = 0 .. n - 1
  BY <1>2, TokensNumbered
<1> HIDE DEF n, k
<1>5. k < n
  BY <1>2, <1>4 DEF Issued
<1>6. Later(succ')
  BY <1>1, <1>2, <1>3, <1>5 DEF Later
<1>7. Lines(succ', exp')
  BY <1>1, <1>2, <1>3, <1>6 DEF Lines, Later
<1>8. Extends(succ, succ', k, n)
  BY <1>1, <1>2, <1>3, <1>4, <1>5, <1>6 DEF Extends, Lines
<1>9. \A t \in Tokens : EndOf(succ', t) = IF EndOf(succ, t) = k THEN n ELSE EndOf(succ, t)
  BY <1>2, <1>8, EndMoves
<1>10. \A x, y \in DOMAIN exp : NewestIn(succ, DOMAIN exp, x) = NewestIn(succ, DOMAIN exp, y) =>
           NewestIn(succ', DOMAIN exp', x) = NewestIn(succ', DOMAIN exp', y)
  <2> DEFINE old == IF k = 1 THEN 0 ELSE k
  <2>1. \A t \in Tokens : NewestIn(succ', DOMAIN exp', t) =
            IF t = n \/ NewestIn(succ, DOMAIN exp, t) = old THEN n ELSE NewestIn(succ, DOMAIN exp, t)
    BY <1>2, <1>3, <1>8, NewestRenewed
  <2> HIDE DEF old
  <2> QED BY <1>2, <1>3, <2>1
<1>11. ASSUME NEW b \in DOMAIN exp, succ[b] # None => exp[EndOf(succ, b)] > now, succ'[b] # None
       PROVE  exp'[EndOf(succ', b)] > now
  <2>1. CASE EndOf(succ, b) = k
    <3>1. EndOf(succ', b) = n
      BY <1>2, <1>9, <2>1
    <3>2. now + Life > now
      BY DEF LoginInv, TypeOK, Constants
    <3> QED BY <1>3, <3>1, <3>2
  <2>2. CASE EndOf(succ, b) # k
    <3>1. EndOf(succ', b) = EndOf(succ, b) /\ EndOf(succ, b) \in DOMAIN exp
      BY <1>2, <1>9, <2>2, EndIssued
    <3>2. b # k
      BY <1>2, <2>2, EndIssued
    <3>3. succ'[b] = succ[b]
      BY <1>1, <1>2, <3>2 DEF Later
    <3> QED BY <1>3, <1>11, <3>1, <3>3
  <2> QED BY <2>1, <2>2
<1>12. Carries(succ, exp, succ', exp', now)
  BY <1>2, <1>3, <1>10, <1>11 DEF Carries
<1> QED BY <1>1, <1>2, <1>3, <1>7, <1>12 DEF n, k, Issued

-----------------------------------------------------------------------------
(* What a call does. *)

LEMMA NewestToken ==
    ASSUME Constants, LoginInv, NEW l, KnownLogin(exp, l)
    PROVE  LET token == NewestIn(succ, DOMAIN exp, l.access) IN
           /\ token \in DOMAIN exp /\ token \in Tokens
           /\ token # l.access => token \in DOMAIN exp \ {0, 1}
<1> DEFINE m == LatestIn(succ, exp, l)
           token == NewestIn(succ, DOMAIN exp, l.access)
<1>1. Lines(succ, exp) /\ {0, 1} \subseteq DOMAIN exp /\ DOMAIN exp \subseteq Nat /\ DOMAIN exp \subseteq Tokens
  BY DEF LoginInv, Lines, Constants, Tokens
<1>2. /\ KnownLogin(exp, m) /\ m.access = token
      /\ IF succ[l.refresh] = None THEN m = l ELSE m.access > l.access
  BY <1>1, LatestIsNewest
<1> HIDE DEF m, token
<1>3. /\ m.access \in DOMAIN exp /\ (m.access # 0 => m.access \in DOMAIN exp \ {0, 1})
      /\ l.access \in DOMAIN exp
  BY <1>1, <1>2, KnownIssued
<1>4. m.access # l.access => m.access # 0
  BY <1>1, <1>2, <1>3
<1> QED BY <1>1, <1>2, <1>3, <1>4 DEF token

\* What resolveSession answers and stores.
LEMMA AnswersCall ==
    ASSUME Constants, LoginInv, NEW c \in Callers, call[c].pc # "idle",
           NEW token, token = NewestIn(succ, DOMAIN exp, call[c].cred.access), Answers(c, token)
    PROVE  /\ answer' = [answer EXCEPT ![c] = token] /\ token \in Tokens
           /\ \E k \in CallRecords :
                  /\ call' = [call EXCEPT ![c] = k] /\ k.pc \in {"idle", "compare"}
                  /\ CallOK(k, succ, exp, now, inflight)
<1>1. /\ call[c] \in CallRecords /\ KnownLogin(exp, call[c].cred) /\ 0 \in Tokens
  BY TokensNumbered DEF LoginInv, TypeOK, CallsOK, CallOK
<1>2. token \in Tokens /\ (token # call[c].cred.access => token \in DOMAIN exp \ {0, 1})
  BY <1>1, NewestToken
<1>3. Idle \in CallRecords /\ Idle.pc = "idle"
  BY <1>1 DEF Idle, CallRecords, Logins, Login
<1>4. CallOK(Idle, succ, exp, now, inflight)
  BY <1>3 DEF CallOK
<1>5. CASE token # call[c].cred.access /\ token # tried
  <2> DEFINE k == [Idle EXCEPT !.pc = "compare", !.cred = call[c].cred, !.token = token]
  <2>1. call' = [call EXCEPT ![c] = k]
    BY <1>5 DEF Answers
  <2>2. k.pc = "compare" /\ k.cred = call[c].cred /\ k.token = token
    BY DEF Idle
  <2>3. k \in CallRecords
    BY <1>1, <1>2 DEF Idle, CallRecords, Logins, Login
  <2> HIDE DEF k
  <2>4. CallOK(k, succ, exp, now, inflight)
    BY <1>1, <1>2, <1>5, <2>2 DEF CallOK
  <2> QED BY <1>2, <2>1, <2>2, <2>3, <2>4 DEF Answers
<1>6. CASE ~(token # call[c].cred.access /\ token # tried)
  <2>1. call' = [call EXCEPT ![c] = Idle]
    BY <1>6 DEF Answers
  <2> QED BY <1>2, <1>3, <1>4, <2>1 DEF Answers
<1> QED BY <1>5, <1>6

\* A call that has read a login fails, or is answered, or waits for a renewal.
AsksNow(c) == Fails(c) \/ \E token : Answers(c, token) /\ token = NewestIn(succ, DOMAIN exp, call[c].cred.access) /\ Usable(token)

AsksFor(c, base) ==
    /\ KnownLogin(exp, base) /\ succ[base.refresh] = None /\ ~state[base.refresh].ended
    /\ base.access >= call[c].cred.access
    /\ NewestIn(succ, DOMAIN exp, base.access) = NewestIn(succ, DOMAIN exp, call[c].cred.access)
    /\ call' = [call EXCEPT ![c] = [@ EXCEPT !.pc = "awaiting", !.base = base]]
    /\ inflight' = IF Requested(base.refresh) THEN inflight
                   ELSE inflight \union {[token |-> base.refresh, by |-> c]}
    /\ UNCHANGED <<answer, tried>>

LEMMA AsksOutcome ==
    ASSUME Constants, LoginInv, NEW c \in Callers, Asks(c)
    PROVE  /\ call[c].pc = "read" /\ UNCHANGED <<now, exp, store, succ, state>>
           /\ \/ AsksNow(c) /\ UNCHANGED inflight /\ (Fails(c) \/ ~call[c].force)
              \/ \E base : AsksFor(c, base)
<1> DEFINE cred == call[c].cred
           base == LatestIn(succ, exp, cred)
<1>1. /\ call[c].pc = "read" /\ UNCHANGED <<now, exp, store, succ, state>>
  BY DEF Asks
<1>2. Latest(cred) = base
  BY LatestDefined
<1>3. Lines(succ, exp) /\ KnownLogin(exp, cred) /\ {0, 1} \subseteq DOMAIN exp /\ DOMAIN exp \subseteq Nat
  BY <1>1 DEF LoginInv, CallsOK, CallOK, Lines, Constants, Tokens
<1>4. /\ KnownLogin(exp, base) /\ succ[base.refresh] = None
      /\ base.access = NewestIn(succ, DOMAIN exp, cred.access)
      /\ base.access = NewestIn(succ, DOMAIN exp, base.access)
      /\ IF succ[cred.refresh] = None THEN base = cred ELSE base.access > cred.access
  BY <1>3, LatestIsNewest
<1>5. \/ Fails(c) /\ UNCHANGED inflight
      \/ ~call[c].force /\ ~Due(base.access) /\ Answers(c, base.access) /\ UNCHANGED inflight
      \/ /\ ~state[base.refresh].ended
         /\ inflight' = IF Requested(base.refresh) THEN inflight
                        ELSE inflight \union {[token |-> base.refresh, by |-> c]}
         /\ call' = [call EXCEPT ![c] = [@ EXCEPT !.pc = "awaiting", !.base = base]]
         /\ UNCHANGED <<answer, tried>>
      \/ ~call[c].force /\ Usable(base.access) /\ Answers(c, base.access) /\ UNCHANGED inflight
  BY <1>2 DEF Asks
<1> HIDE DEF base
<1>6. base.access \in DOMAIN exp /\ cred.access \in DOMAIN exp
  BY <1>3, <1>4, KnownIssued
<1>7. base.access >= cred.access
  BY <1>3, <1>4, <1>6
<1>8. ~Due(base.access) => Usable(base.access)
  <2>1. exp[base.access] \in Nat /\ now \in Nat /\ Window \in Nat
    BY <1>3, <1>6 DEF Lines, LoginInv, TypeOK, Constants
  <2> QED BY <2>1 DEF Due, Usable
<1>9. CASE Fails(c) /\ UNCHANGED inflight
  BY <1>1, <1>9 DEF AsksNow
<1>10. CASE ~call[c].force /\ Usable(base.access) /\ Answers(c, base.access) /\ UNCHANGED inflight
  BY <1>1, <1>4, <1>10 DEF AsksNow
<1>11. CASE /\ ~state[base.refresh].ended
            /\ inflight' = IF Requested(base.refresh) THEN inflight
                           ELSE inflight \union {[token |-> base.refresh, by |-> c]}
            /\ call' = [call EXCEPT ![c] = [@ EXCEPT !.pc = "awaiting", !.base = base]]
            /\ UNCHANGED <<answer, tried>>
  <2>1. AsksFor(c, base)
    BY <1>4, <1>7, <1>11 DEF AsksFor
  <2> QED BY <1>1, <2>1
<1> QED BY <1>5, <1>8, <1>9, <1>10, <1>11

\* One that waited fails or is answered; a forced one not with the token it
\* came with, unless that token was not renewed.
LEMMA ContinuesOutcome ==
    ASSUME Constants, LoginInv, NEW c \in Callers, Continues(c)
    PROVE  /\ call[c].pc = "woken" /\ UNCHANGED <<now, exp, store, succ, state, inflight>>
           /\ AsksNow(c)
           /\ \A token \in Tokens : Answers(c, token) =>
                  token # call[c].cred.access \/ succ[call[c].base.refresh] = None
<1> DEFINE base == call[c].base
           cred == call[c].cred
           latest == LatestIn(succ, exp, base)
<1>1. call[c].pc = "woken" /\ UNCHANGED <<now, exp, store, succ, state, inflight>>
  BY DEF Continues
<1>2. Latest(base) = latest
  BY LatestDefined
<1>3. /\ Lines(succ, exp) /\ {0, 1} \subseteq DOMAIN exp /\ DOMAIN exp \subseteq Nat
      /\ KnownLogin(exp, base) /\ KnownLogin(exp, cred)
      /\ NewestIn(succ, DOMAIN exp, base.access) = NewestIn(succ, DOMAIN exp, cred.access)
      /\ base.access >= cred.access
      /\ succ[base.refresh] # None => exp[EndOf(succ, base.refresh)] > now
  BY <1>1 DEF LoginInv, CallsOK, CallOK, Lines, Constants, Tokens
<1>4. /\ latest.access = NewestIn(succ, DOMAIN exp, base.access)
      /\ IF succ[base.refresh] = None THEN latest = base
         ELSE latest = Login(EndOf(succ, base.refresh), EndOf(succ, base.refresh)) /\ latest.access > base.access
  BY <1>3, LatestIsNewest
<1>5. base.access \in DOMAIN exp /\ cred.access \in DOMAIN exp
  BY <1>3, KnownIssued
<1>6. IF latest.access # base.access THEN Answers(c, latest.access)
      ELSE Fails(c) \/ (Usable(base.access) /\ Answers(c, base.access))
  BY <1>2 DEF Continues
<1>7. CASE succ[base.refresh] = None
  <2>1. latest.access = base.access
    BY <1>4, <1>7
  <2> HIDE DEF latest
  <2>2. AsksNow(c)
    BY <1>3, <1>4, <1>6, <2>1 DEF AsksNow
  <2> QED BY <1>1, <1>7, <2>2
<1>8. CASE succ[base.refresh] # None
  <2>1. latest.access = EndOf(succ, base.refresh)
    BY <1>4, <1>8 DEF Login
  <2>2. latest.access \in Nat /\ latest.access > base.access
    <3>1. base.refresh \in DOMAIN exp
      BY <1>3, KnownIssued
    <3> QED BY <1>3, <1>4, <1>8, <2>1, <3>1, EndIssued
  <2>3. Usable(latest.access)
    BY <1>3, <1>8, <2>1 DEF Usable
  <2> HIDE DEF latest
  <2>4. latest.access # base.access /\ latest.access # cred.access
    BY <1>3, <1>5, <2>2
  <2>5. Answers(c, latest.access)
    BY <1>6, <2>4
  <2>6. AsksNow(c)
    BY <1>3, <1>4, <2>3, <2>5 DEF AsksNow
  <2>7. ASSUME NEW token \in Tokens, Answers(c, token)
        PROVE  token = latest.access
    <3>1. answer' = [answer EXCEPT ![c] = latest.access] /\ answer' = [answer EXCEPT ![c] = token]
      BY <2>5, <2>7 DEF Answers
    <3>2. answer \in [Callers -> Tokens \cup {None, Failed}]
      BY DEF LoginInv, TypeOK
    <3> QED BY <3>1, <3>2
  <2> QED BY <1>1, <2>4, <2>6, <2>7
<1> QED BY <1>7, <1>8

-----------------------------------------------------------------------------
(* The invariant is kept. *)

\* One call goes on; the others only see that renewals begin.
LEMMA CallMoves ==
    ASSUME Constants, LoginInv, UNCHANGED <<now, exp, succ>>,
           NEW c \in Callers, NEW k \in CallRecords, call' = [call EXCEPT ![c] = k],
           inflight \subseteq inflight', CallOK(k, succ, exp, now, inflight')
    PROVE  CallsOK' /\ call' \in [Callers -> CallRecords]
<1>1. call \in [Callers -> CallRecords] /\ Lines(succ, exp)
  BY DEF LoginInv, TypeOK
<1>2. Carries(succ, exp, succ, exp, now)
  BY <1>1, CarriesSame
<1>3. ASSUME NEW d \in Callers
      PROVE  CallOK(call'[d], succ, exp, now, inflight')
  <2>1. CASE d = c
    BY <1>1, <2>1
  <2>2. CASE d # c
    <3>1. call'[d] = call[d] /\ call[d] \in CallRecords /\ CallOK(call[d], succ, exp, now, inflight)
      BY <1>1, <2>2 DEF LoginInv, CallsOK
    <3>2. call[d].pc = "awaiting" => \E r \in inflight' : r.token = call[d].base.refresh
      BY <3>1 DEF CallOK
    <3> QED BY <1>2, <3>1, <3>2, CallCarried
  <2> QED BY <2>1, <2>2
<1> QED BY <1>1, <1>3 DEF CallsOK

LEMMA ReadsKeeps ==
    ASSUME Constants, LoginInv, NEW c \in Callers, NEW force \in BOOLEAN, Reads(c, force)
    PROVE  LoginInv'
<1> DEFINE k == [Idle EXCEPT !.pc = "read", !.cred = store, !.force = force]
<1>1. call' = [call EXCEPT ![c] = k] /\ UNCHANGED <<now, exp, store, succ, state, inflight, answer>>
  BY DEF Reads
<1>2. KnownLogin(exp, store) /\ {0, 1} \subseteq DOMAIN exp /\ DOMAIN exp \subseteq Tokens
  BY DEF LoginInv, Lines
<1>3. store \in Logins
  <2>1. store.access \in Tokens /\ store.refresh \in Tokens /\ store = Login(store.access, store.refresh)
    BY <1>2, KnownIssued
  <2> QED BY <2>1 DEF Login, Logins
<1>4. k \in CallRecords /\ k.pc = "read" /\ k.cred = store
  BY <1>2, <1>3 DEF Idle, CallRecords, Logins, Login
<1> HIDE DEF k
<1>5. CallOK(k, succ, exp, now, inflight')
  BY <1>2, <1>4 DEF CallOK
<1>6. CallsOK' /\ call' \in [Callers -> CallRecords]
  BY <1>1, <1>4, <1>5, CallMoves
<1> QED BY <1>1, <1>6 DEF LoginInv, TypeOK, Issued, InflightIssued, RenewedOnce

\* A call that ends: it fails, or is answered.
LEMMA AsksNowKeeps ==
    ASSUME Constants, LoginInv, NEW c \in Callers, call[c].pc \in {"read", "woken"}, AsksNow(c),
           UNCHANGED <<now, exp, store, succ, state, inflight>>
    PROVE  LoginInv'
<1>1. \E k \in CallRecords :
          call' = [call EXCEPT ![c] = k] /\ CallOK(k, succ, exp, now, inflight)
  <2>1. CASE Fails(c)
    <3>1. Idle \in CallRecords /\ Idle.pc = "idle"
      BY TokensNumbered DEF LoginInv, Idle, CallRecords, Logins, Login
    <3>2. CallOK(Idle, succ, exp, now, inflight)
      BY <3>1 DEF CallOK
    <3> QED BY <2>1, <3>1, <3>2 DEF Fails
  <2>2. CASE ~Fails(c)
    BY <2>2, AnswersCall DEF AsksNow
  <2> QED BY <2>1, <2>2
<1>2. CallsOK' /\ call' \in [Callers -> CallRecords]
  BY <1>1, CallMoves
<1>3. answer' \in [Callers -> Tokens \cup {None, Failed}]
  <2>1. \E a \in Tokens \cup {Failed} : answer' = [answer EXCEPT ![c] = a]
    BY AnswersCall DEF AsksNow, Fails
  <2> QED BY <2>1 DEF LoginInv, TypeOK
<1> QED BY <1>2, <1>3 DEF LoginInv, TypeOK, Issued, InflightIssued, RenewedOnce

LEMMA AsksForKeeps ==
    ASSUME Constants, LoginInv, NEW c \in Callers, call[c].pc = "read", NEW base, AsksFor(c, base),
           UNCHANGED <<now, exp, store, succ, state>>
    PROVE  LoginInv'
<1> DEFINE k == [call[c] EXCEPT !.pc = "awaiting", !.base = base]
           new == [token |-> base.refresh, by |-> c]
<1>1. /\ KnownLogin(exp, base) /\ succ[base.refresh] = None /\ ~state[base.refresh].ended
      /\ base.access >= call[c].cred.access
      /\ NewestIn(succ, DOMAIN exp, base.access) = NewestIn(succ, DOMAIN exp, call[c].cred.access)
      /\ call' = [call EXCEPT ![c] = k] /\ answer' = answer
      /\ inflight' = IF Requested(base.refresh) THEN inflight ELSE inflight \union {new}
  BY DEF AsksFor, LoginInv, TypeOK
<1>2. {0, 1} \subseteq DOMAIN exp /\ DOMAIN exp \subseteq Tokens /\ call[c] \in CallRecords
      /\ KnownLogin(exp, call[c].cred)
  BY DEF LoginInv, Lines, TypeOK, CallsOK, CallOK
<1>3. base.access \in Tokens /\ base.refresh \in DOMAIN exp \ {0} /\ base = Login(base.access, base.refresh)
  BY <1>1, <1>2, KnownIssued
<1>4. base \in Logins
  BY <1>2, <1>3 DEF Login, Logins
<1>5. k \in CallRecords /\ k.pc = "awaiting" /\ k.cred = call[c].cred /\ k.base = base
  BY <1>2, <1>4 DEF CallRecords
<1>6. new.token = base.refresh /\ new \in [token : Tokens, by : Callers]
  BY <1>2, <1>3
<1> HIDE DEF k, new
<1>7. \E r \in inflight' : r.token = base.refresh
  BY <1>1, <1>6 DEF Requested
<1>8. CallOK(k, succ, exp, now, inflight')
  BY <1>1, <1>2, <1>5, <1>7 DEF CallOK
<1>9. CallsOK' /\ call' \in [Callers -> CallRecords]
  BY <1>1, <1>5, <1>8, CallMoves
<1>10. inflight' \in SUBSET [token : Tokens, by : Callers] /\ InflightIssued'
  BY <1>1, <1>3, <1>6 DEF LoginInv, TypeOK, InflightIssued, Issued
<1>11. RenewedOnce'
  BY <1>1, <1>6 DEF LoginInv, RenewedOnce, Requested
<1> QED BY <1>1, <1>9, <1>10, <1>11 DEF LoginInv, TypeOK, Issued

\* A renewal settles, whatever came of it.
LEMMA SettleKeeps ==
    ASSUME Constants, LoginInv, NEW r \in inflight, Settle(r), Carries(succ, exp, succ', exp', now)
    PROVE  /\ CallsOK' /\ call' \in [Callers -> CallRecords] /\ KnownLogin(exp', store')
           /\ inflight' \in SUBSET [token : Tokens, by : Callers]
           /\ \A x \in inflight' : x \in inflight /\ x.token # r.token
           /\ UNCHANGED <<now, store, answer>>
           /\ InflightIssued'
<1>1. /\ inflight' = inflight \ {r} /\ UNCHANGED <<now, store, answer>>
      /\ call' = [c \in Callers |-> IF call[c].pc = "awaiting" /\ call[c].base.refresh = r.token
                                    THEN [call[c] EXCEPT !.pc = "woken"] ELSE call[c]]
  BY DEF Settle
<1>2. call \in [Callers -> CallRecords]
  BY DEF LoginInv, TypeOK
<1>3. \A x \in inflight' : x \in inflight /\ x.token # r.token
  BY <1>1 DEF LoginInv, RenewedOnce
<1>4. ASSUME NEW c \in Callers
      PROVE  CallOK(call'[c], succ', exp', now, inflight') /\ call'[c] \in CallRecords
  <2>1. call[c] \in CallRecords /\ CallOK(call[c], succ, exp, now, inflight)
    BY <1>2 DEF LoginInv, CallsOK
  <2>2. CASE call[c].pc = "awaiting" /\ call[c].base.refresh = r.token
    <3>1. call'[c] = [call[c] EXCEPT !.pc = "woken"]
      BY <1>1, <2>2
    <3>2. succ[call[c].base.refresh] = None
      BY <2>2 DEF LoginInv, RenewedOnce
    <3>3. [call[c] EXCEPT !.pc = "woken"] \in CallRecords
      BY <2>1 DEF CallRecords
    <3> QED BY <2>1, <2>2, <3>1, <3>2, <3>3, CallWoken
  <2>3. CASE ~(call[c].pc = "awaiting" /\ call[c].base.refresh = r.token)
    <3>1. call'[c] = call[c]
      BY <1>1, <2>3
    <3>2. call[c].pc = "awaiting" => \E x \in inflight' : x.token = call[c].base.refresh
      BY <1>1, <2>1, <2>3 DEF CallOK
    <3> QED BY <2>1, <3>1, <3>2, CallCarried
  <2> QED BY <2>2, <2>3
<1>5. call' \in [Callers -> CallRecords]
  BY <1>1, <1>4
<1>6. CallsOK'
  BY <1>1, <1>4 DEF CallsOK
<1>7. KnownLogin(exp', store')
  BY <1>1 DEF LoginInv, Carries
<1>8. InflightIssued'
  BY <1>3 DEF InflightIssued, LoginInv, Carries, Issued
<1> QED BY <1>1, <1>3, <1>5, <1>6, <1>7, <1>8 DEF LoginInv, TypeOK

LEMMA RenewedKeeps ==
    ASSUME Constants, LoginInv, NEW r \in inflight, Renewed(r)
    PROVE  LoginInv'
<1>1. /\ Settle(r) /\ state' = [state EXCEPT ![r.token] = Fresh] /\ succ' = [succ EXCEPT ![r.token] = NextToken]
      /\ NextToken <= MaxToken /\ Issues(NextToken)
  BY DEF Renewed
<1>2. /\ Lines(succ', exp') /\ Carries(succ, exp, succ', exp', now) /\ r.token \in DOMAIN exp \ {0}
      /\ NextToken \in Tokens
  BY LineGrows
<1>3. /\ CallsOK' /\ call' \in [Callers -> CallRecords] /\ KnownLogin(exp', store')
      /\ inflight' \in SUBSET [token : Tokens, by : Callers]
      /\ \A x \in inflight' : x \in inflight /\ x.token # r.token
      /\ UNCHANGED <<now, store, answer>> /\ InflightIssued'
  BY <1>1, <1>2, SettleKeeps
<1>4. \E n \in 2 .. MaxToken + 1 : Issued' = 0 .. n - 1
  <2>1. \E n \in 2 .. MaxToken + 1 : DOMAIN exp' = 0 .. n - 1
    BY <1>1, IssuesToken DEF LoginInv
  <2> QED BY <2>1 DEF Issued
<1>5. state' \in [Tokens -> Records]
  <2>1. Fresh \in Records
    BY DEF Fresh, Records
  <2> QED BY <1>1, <2>1 DEF LoginInv, TypeOK
<1>6. RenewedOnce'
  <2>1. ASSUME NEW x \in inflight'
        PROVE  succ'[x.token] = None /\ ~state'[x.token].ended
    <3>1. x \in inflight /\ x.token # r.token /\ x.token \in Tokens
      BY <1>3, <2>1
    <3>2. succ'[x.token] = succ[x.token] /\ state'[x.token] = state[x.token]
      BY <1>1, <3>1 DEF LoginInv, TypeOK, Lines, Later
    <3> QED BY <3>1, <3>2 DEF LoginInv, RenewedOnce
  <2> QED BY <1>3, <2>1 DEF LoginInv, RenewedOnce
<1> QED BY <1>2, <1>3, <1>4, <1>5, <1>6 DEF LoginInv, TypeOK

LEMMA FailureKeeps ==
    ASSUME Constants, LoginInv, NEW r \in inflight, TransientFailure(r) \/ SessionEnded(r)
    PROVE  LoginInv'
<1>1. Settle(r) /\ UNCHANGED <<exp, succ>>
  BY DEF TransientFailure, SessionEnded
<1>2. Carries(succ, exp, succ', exp', now)
  BY <1>1, CarriesSame DEF LoginInv
<1>3. /\ CallsOK' /\ call' \in [Callers -> CallRecords] /\ KnownLogin(exp', store')
      /\ inflight' \in SUBSET [token : Tokens, by : Callers]
      /\ \A x \in inflight' : x \in inflight /\ x.token # r.token
      /\ UNCHANGED <<now, store, answer>> /\ InflightIssued'
  BY <1>1, <1>2, SettleKeeps
<1>4. r.token \in Tokens /\ now \in Nat /\ state \in [Tokens -> Records]
  BY DEF LoginInv, TypeOK
<1>5. /\ state' \in [Tokens -> Records]
      /\ \A t \in Tokens : t # r.token => state'[t] = state[t]
  <2>1. CASE TransientFailure(r)
    <3> DEFINE f == Backoff(state[r.token].failures + 1)
               w == [state[r.token] EXCEPT !.failures = f, !.retryAt = now + f]
    <3>1. f \in Nat
      BY <1>4 DEF Backoff, Records, Constants
    <3>2. state' = [state EXCEPT ![r.token] = w]
      BY <1>4, <2>1 DEF TransientFailure
    <3>3. w \in Records
      <4>1. now + f \in Nat /\ state[r.token] \in Records
        BY <1>4, <3>1
      <4> HIDE DEF f
      <4> QED BY <3>1, <4>1 DEF Records
    <3> HIDE DEF w
    <3> QED BY <1>4, <3>2, <3>3
  <2>2. CASE SessionEnded(r)
    <3> DEFINE w == [state[r.token] EXCEPT !.ended = TRUE]
    <3>1. state' = [state EXCEPT ![r.token] = w]
      BY <1>4, <2>2 DEF SessionEnded
    <3>2. w \in Records
      BY <1>4 DEF Records
    <3> HIDE DEF w
    <3> QED BY <1>4, <3>1, <3>2
  <2> QED BY <2>1, <2>2
<1>6. RenewedOnce'
  <2>1. ASSUME NEW x \in inflight'
        PROVE  x \in inflight /\ succ'[x.token] = None /\ ~state'[x.token].ended
    <3>1. x \in inflight /\ x.token # r.token /\ x.token \in Tokens
      BY <1>3, <2>1
    <3> QED BY <1>1, <1>5, <3>1 DEF LoginInv, RenewedOnce
  <2> QED BY <2>1 DEF LoginInv, RenewedOnce
<1> QED BY <1>1, <1>3, <1>5, <1>6 DEF LoginInv, TypeOK, Issued

\* A call that stores what it was answered with, or leaves it.
LEMMA PersistKeeps ==
    ASSUME Constants, LoginInv, NEW c \in Callers, Compares(c) \/ Writes(c)
    PROVE  LoginInv'
<1>1. UNCHANGED <<now, exp, succ, state, inflight, answer>> /\ call[c].pc \in {"compare", "write"}
  BY DEF Compares, Writes
<1>2. /\ call[c] \in CallRecords /\ KnownLogin(exp, call[c].cred) /\ call[c].token \in DOMAIN exp \ {0, 1}
      /\ call \in [Callers -> CallRecords]
  BY <1>1 DEF LoginInv, TypeOK, CallsOK, CallOK
<1>3. Idle \in CallRecords /\ CallOK(Idle, succ, exp, now, inflight)
  <2>1. Idle \in CallRecords /\ Idle.pc = "idle"
    BY TokensNumbered DEF LoginInv, Idle, CallRecords, Logins, Login
  <2> QED BY <2>1 DEF CallOK
<1>4. \E k \in CallRecords : call' = [call EXCEPT ![c] = k] /\ CallOK(k, succ, exp, now, inflight)
  <2>1. CASE call' = [call EXCEPT ![c] = Idle]
    BY <1>3, <2>1
  <2>2. CASE Compares(c) /\ store = call[c].cred
    <3> DEFINE k == [call[c] EXCEPT !.pc = "write"]
    <3>1. call' = [call EXCEPT ![c] = k]
      BY <1>2, <2>2 DEF Compares
    <3>2. k \in CallRecords /\ k.pc = "write" /\ k.cred = call[c].cred /\ k.token = call[c].token
      BY <1>2 DEF CallRecords
    <3> HIDE DEF k
    <3>3. CallOK(k, succ, exp, now, inflight)
      BY <1>2, <3>2 DEF CallOK
    <3> QED BY <3>1, <3>2, <3>3
  <2>3. \/ call' = [call EXCEPT ![c] = Idle]
        \/ Compares(c) /\ store = call[c].cred
    BY DEF Compares, Writes
  <2> QED BY <2>1, <2>2, <2>3
<1>5. CallsOK' /\ call' \in [Callers -> CallRecords]
  BY <1>1, <1>4, CallMoves
<1>6. KnownLogin(exp', store')
  <2>1. store' = store \/ store' = Login(call[c].token, call[c].token)
    BY DEF Compares, Writes
  <2> QED BY <1>1, <1>2, <2>1 DEF LoginInv, KnownLogin
<1> QED BY <1>1, <1>5, <1>6 DEF LoginInv, TypeOK, Issued, InflightIssued, RenewedOnce

\* Calls and renewals stay, and more tokens are known.
LEMMA SignInKeeps ==
    ASSUME Constants, LoginInv, SignIn
    PROVE  LoginInv'
<1>1. /\ NextToken <= MaxToken /\ Issues(NextToken) /\ store' = Login(NextToken, NextToken)
      /\ UNCHANGED <<now, succ, state, inflight, call, answer>>
  BY DEF SignIn
<1>2. TypeOK /\ Lines(succ, exp)
  BY DEF LoginInv
<1>3. /\ DOMAIN exp' = DOMAIN exp \cup {NextToken} /\ \E n \in 2 .. MaxToken + 1 : DOMAIN exp' = 0 .. n - 1
      /\ Lines(succ, exp') /\ KnownLogin(exp', Login(NextToken, NextToken))
  BY <1>1, <1>2, IssuesToken
<1>4. Carries(succ, exp, succ, exp', now)
  BY <1>1, <1>2, NewLine
<1>5. ASSUME NEW c \in Callers
      PROVE  CallOK(call[c], succ, exp', now, inflight)
  <2>1. call[c] \in CallRecords /\ CallOK(call[c], succ, exp, now, inflight)
    BY <1>2 DEF LoginInv, CallsOK, TypeOK
  <2>2. call[c].pc = "awaiting" => \E x \in inflight : x.token = call[c].base.refresh
    BY <2>1 DEF CallOK
  <2> QED BY <1>4, <2>1, <2>2, CallCarried
<1>6. CallsOK'
  BY <1>1, <1>5 DEF CallsOK
<1>7. InflightIssued'
  BY <1>1, <1>3 DEF LoginInv, InflightIssued, Issued
<1>8. TypeOK'
  BY <1>1, <1>2, <1>3 DEF TypeOK, Issued
<1>9. RenewedOnce'
  BY <1>1 DEF LoginInv, RenewedOnce
<1> QED BY <1>1, <1>3, <1>6, <1>7, <1>8, <1>9 DEF LoginInv

\* No woken call waits for the time.
LEMMA TickKeeps ==
    ASSUME Constants, LoginInv, Tick
    PROVE  LoginInv'
<1>1. /\ now' = now + 1 /\ \A c \in Callers : call[c].pc # "woken"
      /\ UNCHANGED <<exp, store, succ, state, inflight, call, answer>>
  BY DEF Tick
<1>2. ASSUME NEW c \in Callers
      PROVE  CallOK(call[c], succ, exp, now', inflight)
  BY <1>1 DEF LoginInv, CallsOK, CallOK
<1>3. CallsOK'
  BY <1>1, <1>2 DEF CallsOK
<1>4. now' \in Nat \ {0}
  BY <1>1 DEF LoginInv, TypeOK
<1> QED BY <1>1, <1>3, <1>4 DEF LoginInv, TypeOK, Issued, InflightIssued, RenewedOnce

LEMMA StutterKeeps ==
    ASSUME Constants, LoginInv, UNCHANGED vars
    PROVE  LoginInv'
<1>1. UNCHANGED <<now, exp, store, succ, state, inflight, call, answer>>
  BY DEF vars
<1>2. CallsOK'
  BY <1>1 DEF LoginInv, CallsOK
<1> QED BY <1>1, <1>2 DEF LoginInv, TypeOK, Issued, InflightIssued, RenewedOnce

LEMMA LoginInit ==
    ASSUME Constants, Init
    PROVE  LoginInv
<1>1. /\ Tokens = 0 .. MaxToken /\ MaxToken \in Nat \ {0} /\ None \notin Tokens /\ {0, 1} \subseteq Tokens
      /\ Life \in Nat
  BY DEF Constants, Tokens, None
<1>2. /\ now = 1 /\ exp = [t \in {0, 1} |-> Life] /\ store = Login(0, 1)
      /\ succ = [t \in Tokens |-> None] /\ state = [t \in Tokens |-> Fresh]
      /\ inflight = {} /\ call = [c \in Callers |-> Idle] /\ answer = [c \in Callers |-> None]
  BY DEF Init
<1>3. Idle \in CallRecords /\ Idle.pc = "idle" /\ Fresh \in Records
  BY <1>1 DEF Idle, CallRecords, Logins, Login, Fresh, Records
<1>4. TypeOK
  <2>1. 2 \in 2 .. MaxToken + 1 /\ Issued = 0 .. 2 - 1
    BY <1>1, <1>2 DEF Issued
  <2>2. answer \in [Callers -> Tokens \cup {None, Failed}]
    BY <1>2
  <2>3. inflight \in SUBSET [token : Tokens, by : Callers] /\ now \in Nat \ {0}
    BY <1>2
  <2>4. state \in [Tokens -> Records] /\ call \in [Callers -> CallRecords]
    BY <1>2, <1>3
  <2> QED BY <2>1, <2>2, <2>3, <2>4 DEF TypeOK
<1>5. Lines(succ, exp)
  BY <1>1, <1>2 DEF Lines, Later
<1>6. CallsOK
  BY <1>2, <1>3 DEF CallsOK, CallOK
<1> QED BY <1>2, <1>4, <1>5, <1>6 DEF LoginInv, KnownLogin, InflightIssued, RenewedOnce

LEMMA LoginNext ==
    ASSUME Constants, LoginInv, [Next]_vars
    PROVE  LoginInv'
<1>1. ASSUME NEW c \in Callers, Asks(c)
      PROVE  LoginInv'
  BY <1>1, AsksOutcome, AsksNowKeeps, AsksForKeeps
<1>2. ASSUME NEW c \in Callers, Continues(c)
      PROVE  LoginInv'
  BY <1>2, ContinuesOutcome, AsksNowKeeps
<1> QED BY <1>1, <1>2, ReadsKeeps, PersistKeeps, RenewedKeeps, FailureKeeps, SignInKeeps,
        TickKeeps, StutterKeeps DEF Next

-----------------------------------------------------------------------------
(* The theorems. *)

\* However many calls hold a login, one renewal of it is under way at a time,
\* and none for a refresh token that was renewed or ended before
\* (refreshCursorSession, renewSessionIfDue).
THEOREM RenewalsAreSingle ==
    ASSUME Constants
    PROVE  Spec => []RenewedOnce
<1>1. LoginInv => RenewedOnce
  BY DEF LoginInv
<1>2. Init => LoginInv
  BY LoginInit
<1>3. LoginInv /\ [Next]_vars => LoginInv'
  BY LoginNext
<1> QED BY <1>1, <1>2, <1>3, PTL DEF Spec

\* Only the end of resolveSession answers.
LEMMA WhoAnswers ==
    ASSUME Constants, LoginInv, [Next]_vars, NEW c \in Callers, Answered(c)
    PROVE  Asks(c) \/ Continues(c)
<1>1. call \in [Callers -> CallRecords]
  BY DEF LoginInv, TypeOK
<1>2. call[c].pc \in {"read", "woken"} /\ call'[c].pc \in {"idle", "compare"}
  BY DEF Answered
<1>3. ASSUME NEW d \in Callers, NEW k, call' = [call EXCEPT ![d] = k], d # c
      PROVE  FALSE
  BY <1>1, <1>2, <1>3
<1>4. ASSUME NEW d \in Callers, Asks(d)
      PROVE  d = c
  <2>1. \E k : call' = [call EXCEPT ![d] = k]
    BY <1>4, AsksOutcome DEF AsksNow, AsksFor, Fails, Answers
  <2> QED BY <1>3, <2>1
<1>5. ASSUME NEW d \in Callers, Continues(d)
      PROVE  d = c
  <2>1. \E k : call' = [call EXCEPT ![d] = k]
    BY <1>5, ContinuesOutcome DEF AsksNow, Fails, Answers
  <2> QED BY <1>3, <2>1
<1>6. ASSUME NEW d \in Callers, NEW force \in BOOLEAN, Reads(d, force)
      PROVE  FALSE
  BY <1>1, <1>2, <1>6 DEF Reads
<1>7. ASSUME NEW d \in Callers, Compares(d) \/ Writes(d)
      PROVE  FALSE
  BY <1>1, <1>2, <1>7 DEF Compares, Writes
<1>8. ASSUME NEW r, Settle(r)
      PROVE  FALSE
  <2>1. call'[c] = call[c] \/ call'[c] = [call[c] EXCEPT !.pc = "woken"]
    BY <1>8 DEF Settle
  <2>2. [call[c] EXCEPT !.pc = "woken"].pc = "woken"
    BY <1>1 DEF CallRecords
  <2> QED BY <1>2, <2>1, <2>2
<1>9. ASSUME call' = call
      PROVE  FALSE
  BY <1>2, <1>9
<1> QED BY <1>4, <1>5, <1>6, <1>7, <1>8, <1>9
        DEF Next, Renewed, TransientFailure, SessionEnded, SignIn, Tick, vars

\* No call is answered with an expired token, and a forced one is answered with
\* the token Cursor rejected only if its login's renewal failed, also when the
\* renewal it waited for was begun by a call that was not forced
\* (renewSessionIfDue).
THEOREM AnswersServe ==
    ASSUME Constants
    PROVE  Spec => AnswerServes
<1>1. Init => LoginInv
  BY LoginInit
<1>2. LoginInv /\ [Next]_vars => LoginInv'
  BY LoginNext
<1>3. ASSUME LoginInv, [Next]_vars, NEW c \in Callers, Answered(c)
      PROVE  /\ Usable(answer'[c])
             /\ call[c].force => answer'[c] # call[c].cred.access \/ succ[call[c].base.refresh] = None
  <2>1. answer \in [Callers -> Tokens \cup {None, Failed}] /\ Failed \notin Tokens /\ answer'[c] \in Tokens
    BY <1>3, TokensNumbered DEF LoginInv, TypeOK, Answered, Failed, Constants
  <2>2. ASSUME NEW token, Answers(c, token)
        PROVE  answer'[c] = token
    BY <2>1, <2>2 DEF Answers
  <2>3. ~Fails(c)
    BY <2>1 DEF Fails
  <2>4. CASE Asks(c)
    <3>1. ASSUME NEW base, AsksFor(c, base)
          PROVE  FALSE
      <4>1. call \in [Callers -> CallRecords]
        BY <1>3 DEF LoginInv, TypeOK
      <4>2. call'[c].pc = "awaiting"
        BY <3>1, <4>1 DEF AsksFor, CallRecords
      <4> QED BY <1>3, <4>2 DEF Answered
    <3>2. AsksNow(c) /\ ~call[c].force
      BY <1>3, <2>3, <2>4, <3>1, AsksOutcome
    <3> QED BY <2>2, <2>3, <3>2 DEF AsksNow
  <2>5. CASE Continues(c)
    <3>1. /\ AsksNow(c)
          /\ \A token \in Tokens : Answers(c, token) =>
                 token # call[c].cred.access \/ succ[call[c].base.refresh] = None
      BY <1>3, <2>5, ContinuesOutcome
    <3>2. PICK token : Answers(c, token) /\ Usable(token)
      BY <2>3, <3>1 DEF AsksNow
    <3>3. token = answer'[c] /\ token \in Tokens
      BY <2>1, <2>2, <3>2
    <3> QED BY <3>1, <3>2, <3>3
  <2> QED BY <1>3, <2>4, <2>5, WhoAnswers
<1>4. LoginInv /\ [Next]_vars => [\A c \in Callers : Answered(c) =>
           /\ Usable(answer'[c])
           /\ call[c].force => answer'[c] # call[c].cred.access \/ succ[call[c].base.refresh] = None]_vars
  BY <1>3
<1> QED BY <1>1, <1>2, <1>4, PTL DEF Spec, AnswerServes

-----------------------------------------------------------------------------
(* The refinement. *)

\* What the abstract state is mapped to.
LineNewest == [t \in Tokens |-> NewestOf(t)]
Asking == {"read", "awaiting", "woken"}
AskedWith(k) == IF k.pc \in Asking THEN k.cred.access ELSE None
LineAsks == [c \in Callers |-> AskedWith(call[c])]

LEMMA LineNow ==
    /\ \A t \in Tokens : LineNewest[t] = NewestIn(succ, DOMAIN exp, t)
    /\ LineNewest' = [t \in Tokens |-> NewestIn(succ', DOMAIN exp', t)]
    /\ LineNewest = [t \in Tokens |-> NewestIn(succ, DOMAIN exp, t)]
BY NewestDefined DEF LineNewest, Issued

LEMMA LineStays ==
    ASSUME UNCHANGED <<succ, exp>>
    PROVE  LineNewest' = LineNewest
BY LineNow

LEMMA AsksMove ==
    ASSUME call \in [Callers -> CallRecords], NEW c \in Callers, NEW k, call' = [call EXCEPT ![c] = k]
    PROVE  LineAsks' = [LineAsks EXCEPT ![c] = AskedWith(k)]
BY DEF LineAsks

LEMMA AsksStay ==
    ASSUME call \in [Callers -> CallRecords], NEW c \in Callers, NEW k, call' = [call EXCEPT ![c] = k],
           AskedWith(k) = AskedWith(call[c])
    PROVE  LineAsks' = LineAsks
BY DEF LineAsks

LEMMA LineStutter ==
    ASSUME UNCHANGED <<LineNewest, LineAsks, answer>>
    PROVE  UNCHANGED Line!vars
BY DEF Line!vars, LineNewest, LineAsks, AskedWith, Asking

\* The steps of the line, on what it is mapped to.
LEMMA LineSteps ==
    /\ \A c \in Callers, t \in Tokens :
           /\ LineAsks[c] = None /\ LineNewest[t] # None
           /\ LineAsks' = [LineAsks EXCEPT ![c] = t] /\ LineNewest' = LineNewest /\ answer' = answer
           => Line!Next
    /\ \A c \in Callers :
           /\ LineAsks[c] # None
           /\ \/ answer' = [answer EXCEPT ![c] = LineNewest[LineAsks[c]]]
              \/ answer' = [answer EXCEPT ![c] = Failed]
           /\ LineAsks' = [LineAsks EXCEPT ![c] = None] /\ LineNewest' = LineNewest
           => Line!Next
    /\ \A t \in Tokens :
           /\ LineNewest[t] = None /\ LineNewest' = [LineNewest EXCEPT ![t] = t]
           /\ LineAsks' = LineAsks /\ answer' = answer
           => Line!Next
    /\ \A t, u \in Tokens :
           /\ LineNewest[t] = t /\ LineNewest[u] = None
           /\ LineNewest' = [x \in Tokens |-> IF x = u \/ LineNewest[x] = t THEN u ELSE LineNewest[x]]
           /\ LineAsks' = LineAsks /\ answer' = answer
           => Line!Next
<1>1. ASSUME NEW c \in Callers, NEW t \in Tokens,
             LineAsks[c] = None, LineNewest[t] # None,
             LineAsks' = [LineAsks EXCEPT ![c] = t], LineNewest' = LineNewest, answer' = answer
      PROVE  Line!Next
  <2>1. Line!Ask(c, t)
    BY <1>1 DEF Line!Ask, LineNewest, LineAsks, AskedWith, Asking
  <2> QED BY <2>1 DEF Line!Next
<1>2. ASSUME NEW c \in Callers, LineAsks[c] # None,
             \/ answer' = [answer EXCEPT ![c] = LineNewest[LineAsks[c]]]
             \/ answer' = [answer EXCEPT ![c] = Failed],
             LineAsks' = [LineAsks EXCEPT ![c] = None], LineNewest' = LineNewest
      PROVE  Line!Next
  <2>1. Line!Answer(c)
    BY <1>2 DEF Line!Answer, LineNewest, LineAsks, AskedWith, Asking
  <2> QED BY <2>1 DEF Line!Next
<1>3. ASSUME NEW t \in Tokens, LineNewest[t] = None, LineNewest' = [LineNewest EXCEPT ![t] = t],
             LineAsks' = LineAsks, answer' = answer
      PROVE  Line!Next
  <2>1. Line!Login(t)
    BY <1>3 DEF Line!Login, LineNewest, LineAsks, AskedWith, Asking
  <2> QED BY <2>1 DEF Line!Next
<1>4. ASSUME NEW t \in Tokens, NEW u \in Tokens, LineNewest[t] = t, LineNewest[u] = None,
             LineNewest' = [x \in Tokens |-> IF x = u \/ LineNewest[x] = t THEN u ELSE LineNewest[x]],
             LineAsks' = LineAsks, answer' = answer
      PROVE  Line!Next
  <2>1. Line!Renew(t, u)
    BY <1>4 DEF Line!Renew, LineNewest, LineAsks, AskedWith, Asking
  <2> QED BY <2>1 DEF Line!Next
<1> QED BY <1>1, <1>2, <1>3, <1>4

LEMMA LineInit ==
    ASSUME Constants, Init
    PROVE  Line!Init
<1>1. LoginInv
  BY LoginInit
<1>2. /\ exp = [t \in {0, 1} |-> Life] /\ succ = [t \in Tokens |-> None]
      /\ call = [c \in Callers |-> Idle] /\ answer = [c \in Callers |-> None]
  BY DEF Init
<1>3. /\ Tokens = 0 .. MaxToken /\ MaxToken \in Nat \ {0} /\ None \notin Tokens /\ 0 \in Tokens /\ 1 \in Tokens
  BY DEF Constants, Tokens, None
<1>4. EndOf(succ, 0) = 0
  BY <1>1, <1>2, <1>3, EndHere DEF LoginInv, Lines
<1>5. LineNewest = [u \in Tokens |-> IF u = 0 THEN 0 ELSE None]
  <2>1. ASSUME NEW t \in Tokens
        PROVE  NewestIn(succ, DOMAIN exp, t) = IF t = 0 THEN 0 ELSE None
    BY <1>2, <1>3, <1>4 DEF NewestIn
  <2> QED BY <2>1, LineNow
<1>6. LineAsks = [c \in Callers |-> None]
  BY <1>2 DEF LineAsks, AskedWith, Asking, Idle
<1>7. \E t \in Tokens : LineNewest = [u \in Tokens |-> IF u = t THEN t ELSE None]
  BY <1>3, <1>5
<1> QED BY <1>2, <1>6, <1>7 DEF Line!Init, LineNewest, LineAsks, AskedWith, Asking

\* A call asks with the access token it read, is answered with the newest of
\* that token's line, or fails; waiting and storing are not seen.
LEMMA CallImplements ==
    ASSUME Constants, LoginInv, NEW c \in Callers,
           (\E force \in BOOLEAN : Reads(c, force)) \/ Asks(c) \/ Continues(c) \/ Compares(c) \/ Writes(c)
    PROVE  Line!Next \/ UNCHANGED Line!vars
<1>1. call \in [Callers -> CallRecords] /\ None \notin Tokens
  BY TokensNumbered DEF LoginInv, TypeOK
<1>2. LineAsks[c] = AskedWith(call[c])
  BY DEF LineAsks
<1>3. ASSUME NEW force \in BOOLEAN, Reads(c, force)
      PROVE  Line!Next
  <2> DEFINE k == [Idle EXCEPT !.pc = "read", !.cred = store, !.force = force]
  <2>1. call[c].pc = "idle" /\ call' = [call EXCEPT ![c] = k] /\ UNCHANGED <<exp, succ, answer>>
    BY <1>3 DEF Reads
  <2>2. AskedWith(k) = store.access
    BY DEF AskedWith, Asking, Idle
  <2> HIDE DEF k
  <2>3. LineAsks[c] = None
    BY <1>2, <2>1 DEF AskedWith, Asking
  <2>4. LineAsks' = [LineAsks EXCEPT ![c] = store.access]
    BY <1>1, <2>1, <2>2, AsksMove
  <2>5. KnownLogin(exp, store) /\ {0, 1} \subseteq DOMAIN exp /\ DOMAIN exp \subseteq Tokens
    BY DEF LoginInv, Lines
  <2>6. store.access \in Tokens /\ NewestIn(succ, DOMAIN exp, store.access) \in Tokens
    BY <2>5, NewestToken, KnownIssued
  <2>7. LineNewest[store.access] # None
    BY <1>1, <2>6, LineNow
  <2>8. LineNewest' = LineNewest
    BY <2>1, LineStays
  <2> QED BY <2>1, <2>3, <2>4, <2>6, <2>7, <2>8, LineSteps
<1>4. ASSUME call[c].pc \in {"read", "woken"}, AsksNow(c), UNCHANGED <<exp, succ>>
      PROVE  Line!Next
  <2>1. KnownLogin(exp, call[c].cred) /\ {0, 1} \subseteq DOMAIN exp /\ DOMAIN exp \subseteq Tokens
    BY <1>4 DEF LoginInv, Lines, CallsOK, CallOK
  <2>2. call[c].cred.access \in Tokens
    BY <2>1, KnownIssued
  <2>3. LineAsks[c] = call[c].cred.access /\ LineAsks[c] # None
    BY <1>1, <1>2, <1>4, <2>2 DEF AskedWith, Asking
  <2>4. LineNewest[LineAsks[c]] = NewestIn(succ, DOMAIN exp, call[c].cred.access)
    BY <2>2, <2>3, LineNow
  <2>5. \E k : call' = [call EXCEPT ![c] = k] /\ k.pc \in {"idle", "compare"}
    <3>1. CASE Fails(c)
      <4>1. call' = [call EXCEPT ![c] = Idle] /\ Idle.pc = "idle"
        BY <3>1 DEF Fails, Idle
      <4> QED BY <4>1
    <3>2. CASE ~Fails(c)
      BY <1>4, <3>2, AnswersCall DEF AsksNow
    <3> QED BY <3>1, <3>2
  <2>6. LineAsks' = [LineAsks EXCEPT ![c] = None]
    <3>1. PICK k : call' = [call EXCEPT ![c] = k] /\ k.pc \in {"idle", "compare"}
      BY <2>5
    <3>2. AskedWith(k) = None
      BY <3>1 DEF AskedWith, Asking
    <3> QED BY <1>1, <3>1, <3>2, AsksMove
  <2>7. \/ answer' = [answer EXCEPT ![c] = LineNewest[LineAsks[c]]]
        \/ answer' = [answer EXCEPT ![c] = Failed]
    BY <1>4, <2>4 DEF AsksNow, Fails, Answers
  <2>8. LineNewest' = LineNewest
    BY <1>4, LineStays
  <2> QED BY <2>3, <2>6, <2>7, <2>8, LineSteps
<1>5. ASSUME NEW base, call[c].pc = "read", AsksFor(c, base), UNCHANGED <<exp, succ>>
      PROVE  UNCHANGED Line!vars
  <2> DEFINE k == [call[c] EXCEPT !.pc = "awaiting", !.base = base]
  <2>1. call' = [call EXCEPT ![c] = k] /\ answer' = answer
    BY <1>1, <1>5 DEF AsksFor
  <2>2. k.pc = "awaiting" /\ k.cred = call[c].cred
    BY <1>1 DEF CallRecords
  <2> HIDE DEF k
  <2>3. AskedWith(k) = AskedWith(call[c])
    BY <1>5, <2>2 DEF AskedWith, Asking
  <2>4. LineAsks' = LineAsks
    BY <1>1, <2>1, <2>3, AsksStay
  <2> QED BY <1>5, <2>1, <2>4, LineStays, LineStutter
<1>6. ASSUME Compares(c) \/ Writes(c)
      PROVE  UNCHANGED Line!vars
  <2>1. call[c].pc \in {"compare", "write"} /\ UNCHANGED <<exp, succ, answer>>
    BY <1>6 DEF Compares, Writes
  <2>2. \E k : call' = [call EXCEPT ![c] = k] /\ k.pc \in {"idle", "write"}
    <3>1. Idle.pc = "idle"
      BY DEF Idle
    <3>2. [call[c] EXCEPT !.pc = "write"].pc = "write"
      BY <1>1 DEF CallRecords
    <3>3. \/ call' = [call EXCEPT ![c] = Idle]
          \/ call' = [call EXCEPT ![c] = [call[c] EXCEPT !.pc = "write"]]
      BY <1>1, <1>6 DEF Compares, Writes
    <3> QED BY <3>1, <3>2, <3>3
  <2>3. PICK k : call' = [call EXCEPT ![c] = k] /\ k.pc \in {"idle", "write"}
    BY <2>2
  <2>4. AskedWith(k) = AskedWith(call[c])
    BY <2>1, <2>3 DEF AskedWith, Asking
  <2>5. LineAsks' = LineAsks
    BY <1>1, <2>3, <2>4, AsksStay
  <2> QED BY <2>1, <2>5, LineStays, LineStutter
<1>7. CASE Asks(c)
  BY <1>4, <1>5, <1>7, AsksOutcome
<1>8. CASE Continues(c)
  BY <1>4, <1>8, ContinuesOutcome
<1> QED BY <1>3, <1>6, <1>7, <1>8

\* A renewal that ends wakes calls, which ask on.
LEMMA SettleImplements ==
    ASSUME LoginInv, NEW r, Settle(r)
    PROVE  LineAsks' = LineAsks /\ answer' = answer
<1>1. call \in [Callers -> CallRecords]
  BY DEF LoginInv, TypeOK
<1>2. ASSUME NEW c \in Callers
      PROVE  AskedWith(call'[c]) = AskedWith(call[c])
  <2>1. CASE call'[c] = call[c]
    BY <2>1
  <2>2. CASE call[c].pc = "awaiting" /\ call'[c] = [call[c] EXCEPT !.pc = "woken"]
    <3>1. call'[c].pc = "woken" /\ call'[c].cred = call[c].cred
      BY <1>1, <2>2 DEF CallRecords
    <3> QED BY <2>2, <3>1 DEF AskedWith, Asking
  <2>3. call'[c] = call[c] \/ (call[c].pc = "awaiting" /\ call'[c] = [call[c] EXCEPT !.pc = "woken"])
    BY DEF Settle
  <2> QED BY <2>1, <2>2, <2>3
<1>3. LineAsks' = [c \in Callers |-> AskedWith(call'[c])]
  BY DEF LineAsks, AskedWith, Asking
<1> QED BY <1>2, <1>3 DEF LineAsks, Settle

\* A token renewed ends its line; one of a sign-in begins a line.
LEMMA TokenImplements ==
    ASSUME Constants, LoginInv, (\E r \in inflight : Renewed(r)) \/ SignIn
    PROVE  Line!Next
<1>1. CASE \E r \in inflight : Renewed(r)
  <2>1. PICK r \in inflight : Renewed(r)
    BY <1>1
  <2> DEFINE n == NextToken
             old == IF r.token = 1 THEN 0 ELSE r.token
  <2>2. /\ n <= MaxToken /\ Issues(n) /\ n \in Tokens \ DOMAIN exp
        /\ r.token \in DOMAIN exp \ {0} /\ succ[r.token] = None
        /\ succ' = [succ EXCEPT ![r.token] = n] /\ Lines(succ', exp')
    BY <2>1, LineGrows DEF Issued
  <2>3. TypeOK /\ Lines(succ, exp) /\ {0, 1} \subseteq DOMAIN exp /\ DOMAIN exp \subseteq Tokens
    BY DEF LoginInv, Lines
  <2>4. DOMAIN exp' = DOMAIN exp \union {n}
    BY <2>2, <2>3, IssuesToken
  <2>5. Extends(succ, succ', r.token, n)
    BY <2>2, <2>3 DEF Extends, Lines
  <2>6. ASSUME NEW t \in Tokens
        PROVE  /\ LineNewest[old] = old /\ LineNewest[n] = None
               /\ LineNewest'[t] = IF t = n \/ LineNewest[t] = old THEN n ELSE LineNewest[t]
    <3> HIDE DEF n
    <3>1. /\ NewestIn(succ, DOMAIN exp, old) = old /\ NewestIn(succ, DOMAIN exp, n) = None
          /\ NewestIn(succ', DOMAIN exp \union {n}, t) =
                 IF t = n \/ NewestIn(succ, DOMAIN exp, t) = old THEN n ELSE NewestIn(succ, DOMAIN exp, t)
      BY <2>2, <2>3, <2>5, NewestRenewed, SMTT(30)
    <3>2. old \in Tokens /\ n \in Tokens
      BY <2>2, <2>3
    <3> QED BY <2>4, <3>1, <3>2, LineNow
  <2>7. LineNewest' = [x \in Tokens |-> IF x = n \/ LineNewest[x] = old THEN n ELSE LineNewest[x]]
    <3> HIDE DEF n, old
    <3> QED BY <2>6, LineNow
  <2>8. LineAsks' = LineAsks /\ answer' = answer
    BY <2>1, SettleImplements DEF Renewed
  <2>9. old \in Tokens /\ n \in Tokens
    BY <2>2, <2>3
  <2> HIDE DEF n, old
  <2> QED BY <2>6, <2>7, <2>8, <2>9, LineSteps
<1>2. CASE SignIn
  <2> DEFINE n == NextToken
  <2>1. n <= MaxToken /\ Issues(n) /\ UNCHANGED <<now, succ, call, answer>> /\ TypeOK /\ Lines(succ, exp)
    BY <1>2 DEF SignIn, LoginInv
  <2>2. n \in Tokens \ DOMAIN exp
    BY <2>1, IssuesToken
  <2>3. \A t \in Tokens : NewestIn(succ, DOMAIN exp', t) = IF t = n THEN t ELSE NewestIn(succ, DOMAIN exp, t)
    BY <2>1, NewLine
  <2> HIDE DEF n
  <2>4. LineNewest[n] = None
    BY <2>2, LineNow DEF NewestIn
  <2>5. LineNewest' = [LineNewest EXCEPT ![n] = n]
    BY <2>1, <2>2, <2>3, LineNow
  <2>6. LineAsks' = LineAsks
    BY <2>1 DEF LineAsks, AskedWith, Asking
  <2> QED BY <2>1, <2>2, <2>4, <2>5, <2>6, LineSteps
<1> QED BY <1>1, <1>2

LEMMA RestImplements ==
    ASSUME LoginInv, (\E r \in inflight : TransientFailure(r) \/ SessionEnded(r)) \/ Tick \/ UNCHANGED vars
    PROVE  UNCHANGED Line!vars
<1>1. UNCHANGED <<succ, exp>>
  BY DEF TransientFailure, SessionEnded, Tick, vars
<1>2. LineAsks' = LineAsks /\ answer' = answer
  <2>1. CASE \E r \in inflight : Settle(r)
    BY <2>1, SettleImplements
  <2>2. CASE UNCHANGED <<call, answer>>
    BY <2>2 DEF LineAsks, AskedWith, Asking
  <2> QED BY <2>1, <2>2 DEF TransientFailure, SessionEnded, Tick, vars
<1> QED BY <1>1, <1>2, LineStays, LineStutter

\* The renewal implements the line of tokens: whatever calls, failures, sign-ins
\* and other processes interleave, and whatever of it gets stored, only the
\* newest token of a login is renewed, and a call gets the newest token of the
\* login it read, or fails (renewSessionIfDue, latestSessionTokens).
THEOREM RenewalIsALine ==
    ASSUME Constants
    PROVE  Spec => TokensStayNewest
<1>1. Init => LoginInv
  BY LoginInit
<1>2. LoginInv /\ [Next]_vars => LoginInv'
  BY LoginNext
<1>3. Init => Line!Init
  BY LineInit
<1>4. LoginInv /\ [Next]_vars => [Line!Next]_(Line!vars)
  BY CallImplements, TokenImplements, RestImplements DEF Next
<1> QED BY <1>1, <1>2, <1>3, <1>4, PTL DEF Spec, TokensStayNewest, Line!Spec

-----------------------------------------------------------------------------
(***************************************************************************)
(* The token of an API key (ApiKeyRenewal)                                 *)
(***************************************************************************)

VARIABLES
    keyNow, born, lastIssued, stored, keyToken, backoff, rejected, exchange,
    keyCall, keyAnswer

Key == INSTANCE ApiKeyRenewal WITH
    now <- keyNow, issued <- lastIssued, token <- keyToken, call <- keyCall, answer <- keyAnswer

\* A token outlives the window in which it is exchanged.
KeyConstants == MaxToken \in Nat \ {0} /\ {Life, Window} \subseteq Nat /\ Window < Life

KeyCalls == [pc : {"idle", "awaiting", "woken"}, force : BOOLEAN, prior : Key!Tokens \union {0}, since : Nat]

KeyTypes ==
    /\ keyNow \in Nat \ {0} /\ lastIssued \in Key!Tokens
    /\ born \in [Key!Tokens -> Nat]
    /\ stored \in {0} \union (1..lastIssued) /\ keyToken \in {0} \union (1..lastIssued)
    /\ exchange \in {"none", "asked", "forced"}
    /\ keyCall \in [Callers -> KeyCalls] /\ keyAnswer \in [Callers -> Nat]

\* No token lives longer than the cached one; until there is one, none was exchanged.
CacheLivesLongest ==
    /\ \A t \in 1..lastIssued : born[t] <= keyNow /\ (keyToken # 0 => born[t] <= born[keyToken])
    /\ keyToken = 0 => lastIssued = 1 /\ born[1] < keyNow

\* An exchange that no forced call began is there for a token that is not fresh.
AskedForOld == exchange = "asked" /\ keyToken # 0 => born[keyToken] < keyNow

\* A forced call was answered before it asked, and once an exchange succeeded
\* the cache holds another token than that.
ForcedAccounted ==
    \A c \in Callers :
        keyCall[c].pc # "idle" =>
            /\ keyCall[c].since <= lastIssued /\ keyCall[c].prior <= keyCall[c].since
            /\ keyCall[c].force => keyCall[c].prior # 0
            /\ lastIssued > keyCall[c].since => keyToken # keyCall[c].prior

PriorsIssued == \A c \in Callers : keyCall[c].prior <= lastIssued

KeyInv == KeyTypes /\ CacheLivesLongest /\ AskedForOld /\ ForcedAccounted /\ PriorsIssued

LEMMA KeyInit == ASSUME KeyConstants, Key!Init PROVE KeyInv
BY DEF Key!Init, KeyInv, KeyTypes, KeyCalls, CacheLivesLongest, AskedForOld, ForcedAccounted,
       PriorsIssued, KeyConstants, Key!Tokens, Key!None, Key!Steady

\* An answer is a token already issued, or none.
LEMMA AnswerKeeps ==
    ASSUME KeyConstants, KeyInv, NEW c \in Callers, NEW result \in (1..lastIssued) \union {Key!Failed},
           Key!Done(c, result)
    PROVE  /\ stored' \in {0} \union (1..lastIssued)
           /\ keyCall' \in [Callers -> KeyCalls] /\ keyAnswer' \in [Callers -> Nat]
           /\ \A d \in Callers : keyCall'[d] = keyCall[d] \/ (keyCall'[d].pc = "idle" /\ keyCall'[d].prior <= lastIssued)
<1>1. keyCall'[c].pc = "idle" /\ keyCall'[c].prior <= lastIssued /\ keyCall'[c] \in KeyCalls
  <2>1. keyCall'[c] = [pc |-> "idle", force |-> FALSE, since |-> 0,
                       prior |-> IF result \in Key!Tokens THEN result ELSE 0]
    BY DEF Key!Done, KeyInv, KeyTypes, Key!None
  <2>2. result \in Key!Tokens => result <= lastIssued
    BY DEF Key!Tokens, Key!Failed, KeyConstants, KeyInv, KeyTypes
  <2> QED BY <2>1, <2>2 DEF KeyCalls, KeyInv, KeyTypes, Key!Tokens
<1>2. keyCall' = [keyCall EXCEPT ![c] = keyCall'[c]]
  BY DEF Key!Done, KeyInv, KeyTypes
<1>3. result \in Nat /\ stored' \in {stored, result} /\ (result = Key!Failed => stored' = stored)
  BY DEF Key!Done, KeyInv, KeyTypes, Key!Tokens, Key!Failed, KeyConstants
<1>4. \A d \in Callers : d # c => keyCall'[d] = keyCall[d]
  BY <1>2 DEF KeyInv, KeyTypes
<1> QED BY <1>1, <1>2, <1>3, <1>4 DEF Key!Done, KeyInv, KeyTypes

LEMMA AsksKeeps ==
    ASSUME KeyConstants, KeyInv, NEW c \in Callers, NEW force \in BOOLEAN, NEW seeded \in BOOLEAN,
           Key!Asks(c, force, seeded)
    PROVE  KeyInv'
<1> DEFINE cached == IF seeded THEN Key!LongerLived(keyToken, stored) ELSE keyToken
<1>1. UNCHANGED <<keyNow, born, lastIssued>> /\ keyToken' = cached
  BY DEF Key!Asks
<1>2. keyToken' \in {0} \union (1..lastIssued) /\ (keyToken # 0 => keyToken' = keyToken)
      /\ (keyToken' # 0 /\ keyToken = 0 => keyToken' = 1 /\ lastIssued = 1)
  BY <1>1 DEF KeyInv, KeyTypes, CacheLivesLongest, Key!Asks, Key!LongerLived, Key!Expiry, Key!None,
     KeyConstants, Key!Tokens
<1>3. CacheLivesLongest'
  BY <1>1, <1>2 DEF KeyInv, KeyTypes, CacheLivesLongest, Key!Tokens
<1> DEFINE serves == cached # Key!None /\ ~force /\ ~Key!ExpiringSoon(cached)
<1>4. ASSUME NEW result \in (1..lastIssued) \union {Key!Failed}, Key!Done(c, result), UNCHANGED exchange
      PROVE  KeyInv'
  <2>1. AskedForOld'
    BY <1>1, <1>2, <1>4 DEF KeyInv, AskedForOld, KeyTypes, CacheLivesLongest
  <2>2. KeyTypes'
    BY <1>1, <1>2, <1>4, AnswerKeeps DEF KeyInv, KeyTypes
  <2>3. ForcedAccounted' /\ PriorsIssued'
    <3> SUFFICES ASSUME NEW d \in Callers
                 PROVE  ForcedAccounted!(d)' /\ keyCall'[d].prior <= lastIssued'
      BY DEF ForcedAccounted, PriorsIssued
    <3>1. CASE keyCall'[d] = keyCall[d]
      BY <1>1, <1>2, <3>1 DEF KeyInv, KeyTypes, KeyCalls, ForcedAccounted, PriorsIssued, Key!Tokens
    <3> QED BY <1>1, <1>4, <3>1, AnswerKeeps
  <2> QED BY <1>3, <2>1, <2>2, <2>3 DEF KeyInv
<1>5. cached # 0 => cached \in 1..lastIssued
  BY <1>1, <1>2
<1>6. CASE /\ ~serves
           /\ exchange' = IF exchange # "none" THEN exchange ELSE IF force THEN "forced" ELSE "asked"
           /\ keyCall' = [keyCall EXCEPT ![c].pc = "awaiting", ![c].force = force, ![c].since = lastIssued]
           /\ UNCHANGED <<keyAnswer, stored>>
  <2>1. KeyTypes'
    <3>1. [keyCall[c] EXCEPT !.pc = "awaiting", !.force = force, !.since = lastIssued] \in KeyCalls
      <4>1. keyCall[c] \in KeyCalls /\ lastIssued \in Nat
        BY DEF KeyInv, KeyTypes, Key!Tokens
      <4> QED BY <4>1 DEF KeyCalls
    <3>2. keyCall' = [keyCall EXCEPT ![c] = [keyCall[c] EXCEPT !.pc = "awaiting", !.force = force, !.since = lastIssued]]
      BY <1>6 DEF KeyInv, KeyTypes
    <3>3. keyCall' \in [Callers -> KeyCalls]
      BY <3>1, <3>2 DEF KeyInv, KeyTypes
    <3>4. exchange' \in {"none", "asked", "forced"}
      BY <1>6 DEF KeyInv, KeyTypes
    <3> QED BY <1>1, <1>2, <1>6, <3>3, <3>4 DEF KeyInv, KeyTypes
  <2>2. AskedForOld'
    BY <1>1, <1>2, <1>6
       DEF KeyInv, AskedForOld, KeyTypes, CacheLivesLongest, Key!ExpiringSoon, Key!Expiry, Key!None,
           KeyConstants, Key!Tokens
  <2>3. force => keyCall[c].prior # 0
    BY DEF Key!Asks, Key!None
  <2>4. ForcedAccounted' /\ PriorsIssued'
    <3> SUFFICES ASSUME NEW d \in Callers
                 PROVE  ForcedAccounted!(d)' /\ keyCall'[d].prior <= lastIssued'
      BY DEF ForcedAccounted, PriorsIssued
    <3>1. CASE d = c
      <4>1. keyCall'[c] = [keyCall[c] EXCEPT !.pc = "awaiting", !.force = force, !.since = lastIssued]
        BY <1>6 DEF KeyInv, KeyTypes
      <4> QED BY <1>1, <2>3, <3>1, <4>1 DEF KeyInv, KeyTypes, KeyCalls, PriorsIssued, Key!Tokens
    <3>2. CASE d # c
      <4>1. keyCall'[d] = keyCall[d]
        BY <1>6, <3>2 DEF KeyInv, KeyTypes
      <4> QED BY <1>1, <1>2, <4>1 DEF KeyInv, KeyTypes, KeyCalls, ForcedAccounted, PriorsIssued, Key!Tokens
    <3> QED BY <3>1, <3>2
  <2> QED BY <1>3, <2>1, <2>2, <2>4 DEF KeyInv
<1> QED BY <1>4, <1>5, <1>6 DEF Key!Asks, Key!Falls, Key!None

LEMMA SettlesKeeps ==
    ASSUME KeyConstants, KeyInv, Key!Settles
    PROVE  /\ exchange' = "none" /\ UNCHANGED <<keyNow, stored, keyAnswer>>
           /\ keyCall' \in [Callers -> KeyCalls]
           /\ \A c \in Callers : /\ keyCall'[c].force = keyCall[c].force /\ keyCall'[c].prior = keyCall[c].prior
                                 /\ keyCall'[c].since = keyCall[c].since
                                 /\ (keyCall'[c].pc = "idle") = (keyCall[c].pc = "idle")
BY DEF Key!Settles, KeyInv, KeyTypes, KeyCalls

LEMMA ExchangedKeeps ==
    ASSUME KeyConstants, KeyInv, Key!Exchanged
    PROVE  KeyInv'
<1>1. lastIssued' = lastIssued + 1 /\ lastIssued' \in Key!Tokens /\ born' = [born EXCEPT ![lastIssued + 1] = keyNow] /\ Key!Settles
  BY DEF Key!Exchanged, KeyInv, KeyTypes, KeyConstants, Key!Tokens
<1>2. born'[lastIssued + 1] = keyNow /\ \A t \in 1..lastIssued : born'[t] = born[t]
  BY <1>1 DEF KeyInv, KeyTypes, Key!Tokens
<1>3. keyToken' = lastIssued + 1
  BY DEF Key!Exchanged, Key!Cached, Key!Settles, Key!Expiry, Key!None, KeyInv, KeyTypes, AskedForOld,
         CacheLivesLongest, KeyConstants, Key!Tokens
<1>4. KeyTypes'
  BY <1>1, <1>3, SettlesKeeps DEF KeyInv, KeyTypes, Key!Tokens
<1>5. CacheLivesLongest'
  BY <1>1, <1>2, <1>3, SettlesKeeps DEF KeyInv, KeyTypes, CacheLivesLongest, Key!Tokens
<1>6. ForcedAccounted' /\ PriorsIssued'
  BY <1>1, <1>3, SettlesKeeps DEF KeyInv, KeyTypes, KeyCalls, ForcedAccounted, PriorsIssued, Key!Tokens
<1> QED BY <1>4, <1>5, <1>6, SettlesKeeps, <1>1 DEF KeyInv, AskedForOld

LEMMA ContinuesKeeps ==
    ASSUME KeyConstants, KeyInv, NEW c \in Callers, Key!Continues(c)
    PROVE  KeyInv'
<1>1. UNCHANGED <<keyNow, born, lastIssued, keyToken, exchange>>
  BY DEF Key!Continues
<1>2. PICK result \in (1..lastIssued) \union {Key!Failed} : Key!Done(c, result)
  BY DEF Key!Continues, Key!Falls, KeyInv, KeyTypes, Key!None
<1> QED
  BY <1>1, <1>2, AnswerKeeps
     DEF KeyInv, KeyTypes, CacheLivesLongest, AskedForOld, ForcedAccounted, PriorsIssued

LEMMA KeyNext == ASSUME KeyConstants, KeyInv, [Key!Next]_(Key!vars) PROVE KeyInv'
<1>1. CASE Key!ExchangeFails \/ Key!KeyRejected
  <2>1. Key!Settles /\ UNCHANGED <<born, lastIssued, keyToken>>
    BY <1>1 DEF Key!ExchangeFails, Key!KeyRejected
  <2> QED BY <2>1, SettlesKeeps
             DEF KeyInv, KeyTypes, CacheLivesLongest, AskedForOld, ForcedAccounted, PriorsIssued
<1>2. CASE Key!Tick
  <2>1. keyNow' = keyNow + 1 /\ UNCHANGED <<born, lastIssued, stored, keyToken, exchange, keyCall,
                                            keyAnswer>>
    BY <1>2 DEF Key!Tick
  <2>2. KeyTypes'
    BY <2>1 DEF KeyInv, KeyTypes
  <2>3. keyNow \in Nat /\ lastIssued \in Key!Tokens /\ born \in [Key!Tokens -> Nat] /\ keyToken \in {0} \union (1..lastIssued)
    BY DEF KeyInv, KeyTypes
  <2>5. \A t \in 1..lastIssued : born[t] \in Nat
    BY <2>3 DEF Key!Tokens, KeyConstants
  <2>6. CacheLivesLongest'
    BY <2>1, <2>3, <2>5 DEF KeyInv, CacheLivesLongest
  <2>7. AskedForOld'
    BY <2>1, <2>3, <2>5 DEF KeyInv, AskedForOld
  <2>4. ForcedAccounted' /\ PriorsIssued'
    BY <2>1 DEF KeyInv, ForcedAccounted, PriorsIssued
  <2> QED BY <2>2, <2>4, <2>6, <2>7 DEF KeyInv
<1>3. CASE UNCHANGED Key!vars
  BY <1>3 DEF Key!vars, KeyInv, KeyTypes, CacheLivesLongest, AskedForOld, ForcedAccounted, PriorsIssued
<1> QED BY <1>1, <1>2, <1>3, AsksKeeps, ExchangedKeeps, ContinuesKeeps DEF Key!Next

\* A forced call that an exchange served is not answered with the token Cursor
\* rejected, whichever call began the exchange (auth-renewal.ts:306).
THEOREM RejectedKeysReplaced ==
    ASSUME KeyConstants
    PROVE  Key!Spec => Key!RejectedTokenReplaced
<1> DEFINE Replaced ==
      \A c \in Callers :
          keyCall[c].pc = "woken" /\ keyCall'[c].pc = "idle" /\ keyCall[c].force /\ lastIssued > keyCall[c].since =>
              keyAnswer'[c] # keyCall[c].prior
<1>1. Key!Init => KeyInv
  BY KeyInit
<1>2. KeyInv /\ [Key!Next]_(Key!vars) => KeyInv'
  BY KeyNext
<1>3. KeyInv /\ [Key!Next]_(Key!vars) => [Replaced]_(Key!vars)
  <2> SUFFICES ASSUME KeyInv, Key!Next, NEW c \in Callers, keyCall[c].pc = "woken", keyCall'[c].pc = "idle",
                      keyCall[c].force, lastIssued > keyCall[c].since
               PROVE  keyAnswer'[c] # keyCall[c].prior
    OBVIOUS
  <2>1. keyCall[c].prior # 0 /\ keyToken # keyCall[c].prior /\ keyCall[c].prior \in Key!Tokens
    BY DEF KeyInv, KeyTypes, KeyCalls, ForcedAccounted
  <2>2. Key!Continues(c)
    <3>1. ~Key!Tick /\ ~(\E d \in Callers : d # c /\ Key!Continues(d))
      BY DEF Key!Tick, Key!Continues, Key!Falls, Key!Done, KeyInv, KeyTypes
    <3>2. ~Key!Settles
      BY DEF Key!Settles, KeyInv, KeyTypes
    <3>3. \A d \in Callers : \A force, seeded \in BOOLEAN : ~Key!Asks(d, force, seeded)
      BY DEF Key!Asks, Key!Falls, Key!Done, KeyInv, KeyTypes
    <3> QED BY <3>1, <3>2, <3>3 DEF Key!Next, Key!Exchanged, Key!ExchangeFails, Key!KeyRejected
  <2>3. keyAnswer'[c] \in {keyToken, MaxToken + 1}
    BY <2>2 DEF Key!Continues, Key!Falls, Key!Done, Key!Failed, KeyInv, KeyTypes
  <2> QED BY <2>1, <2>3 DEF Key!Tokens, KeyConstants
<1> QED BY <1>1, <1>2, <1>3, PTL DEF Key!Spec, Key!RejectedTokenReplaced
=============================================================================
