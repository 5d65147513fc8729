---------------------------- MODULE CommandsProofs ----------------------------
(***************************************************************************)
(* Theorems about Commands, for any lines, names and files: what the codec *)
(* of Protocol does to any strings, and from it that the server and both   *)
(* clients understand what was meant.                                      *)
(***************************************************************************)
EXTENDS Commands, SequenceTheorems, WellFoundedInduction, TLAPS

\* The codes of the messages, each in its first field.
MessageCodes ==
  { "REGISTER", "EXIT", "WHO", "SEND_MSG", "SEND_FILE", "CREATE_GROUP", "JOIN_GROUP", "SEND_GROUP",
    "OK", "INVALID_REQUEST_ERR", "USERS_LIST", "NO_MSG_DST_ERR", "MSG_EXISTS", "MSG_QUEUED",
    "MSG_SENT", "FILE_QUEUED", "FILE_SENT", "GROUP_EXISTS", "GROUP_CREATED", "NO_GROUP_ERR",
    "USER_ALREADY_IN_GROUP", "USER_ADDED_TO_GROUP", "NOT_IN_GROUP_ERR", "MSG_INCOMING",
    "FILE_INCOMING" }

\* The strings; the provers do not know that a literal is one.
Char ==
  STRING \cup MessageCodes
    \cup {FieldSep, MsgSep, EscField, EscMsg, Nul, Space, "table", "#"}
Text == Seq(Char)

-----------------------------------------------------------------------------
(* Recursion over the characters of a string.                              *)

\* Induction over the natural numbers, for a set of them.
LEMMA Induct ==
  ASSUME NEW S, 0 \in S, \A n \in Nat : n \in S => n + 1 \in S
  PROVE  Nat \subseteq S
<1> DEFINE R == {p \in Nat \X Nat : p[1] < p[2]}  Missing == Nat \ S
<1>1. IsWellFoundedOn(R, Nat)
  BY NatLessThanWellFounded DEF OpToRel
<1>2. SUFFICES ASSUME Missing # {} PROVE FALSE
  OBVIOUS
<1>3. PICK x \in Missing : \A y \in Missing : <<y, x>> \notin R
  <2>1. Missing \subseteq Nat
    OBVIOUS
  <2> HIDE DEF R, Missing
  <2> QED
    BY <1>1, <1>2, <2>1, WFMin
<1>4. x \in Nat /\ x # 0 /\ x - 1 \in Nat /\ (x - 1) + 1 = x
  OBVIOUS
<1>5. <<x - 1, x>> \in R
  BY <1>4
<1>6. x - 1 \in S
  BY <1>3, <1>4, <1>5
<1> QED
  BY <1>4, <1>6

\* f begins with x and goes on by step.
Iterates(f, n, x, step) == f[0] = x /\ \A i \in 1..n : f[i] = step[<<i, f[i - 1]>>]

\* What holds at 0 and goes from one number to the next holds up to n.
LEMMA InductUpTo ==
  ASSUME NEW n \in Nat, NEW S, 0 \in S, \A i \in 1..n : i - 1 \in S => i \in S
  PROVE  \A i \in 0..n : i \in S
<1> DEFINE R == {k \in Nat : k <= n => k \in S}
<1>1. 0 \in R
  OBVIOUS
<1>2. ASSUME NEW k \in Nat, k \in R PROVE k + 1 \in R
  <2>1. CASE k + 1 <= n
    <3>1. k + 1 \in 1..n /\ (k + 1) - 1 = k /\ k \in S
      BY <1>2, <2>1
    <3> QED
      BY <3>1
  <2>2. CASE ~ (k + 1 <= n)
    BY <2>2
  <2> QED
    BY <2>1, <2>2
<1>3. Nat \subseteq R
  <2> HIDE DEF R
  <2> QED
    BY <1>1, <1>2, Induct
<1> QED
  BY <1>3

\* A recursive function over 0 to n exists.
LEMMA Recursion ==
  ASSUME NEW n \in Nat, NEW T, NEW x \in T, NEW step \in [(1..n) \X T -> T]
  PROVE  \E f \in [0..n -> T] : Iterates(f, n, x, step)
<1> DEFINE Good(f, k) == f[0] = x /\ \A i \in 1..k : f[i] = step[<<i, f[i - 1]>>]
           S == {k \in Nat : k <= n => \E f \in [0..k -> T] : Good(f, k)}
<1>1. 0 \in S
  <2>1. [i \in 0..0 |-> x] \in [0..0 -> T] /\ Good([i \in 0..0 |-> x], 0)
    OBVIOUS
  <2> QED
    BY <2>1
<1>2. ASSUME NEW k \in Nat, k \in S, k + 1 <= n PROVE \E f \in [0..k + 1 -> T] : Good(f, k + 1)
  <2>1. PICK f \in [0..k -> T] : Good(f, k)
    BY <1>2
  <2> DEFINE m == k + 1  g == [i \in 0..m |-> IF i = m THEN step[<<m, f[k]>>] ELSE f[i]]
  <2>2. m \in 1..n /\ m - 1 = k /\ f[k] \in T /\ k \in 0..m /\ k # m
    BY <1>2, <2>1
  <2>3. step[<<m, f[k]>>] \in T
    BY <2>2
  <2>4. g \in [0..m -> T]
    <3>1. \A i \in 0..m : i # m => i \in 0..k
      OBVIOUS
    <3> QED
      BY <2>1, <2>3, <3>1
  <2>5. ASSUME NEW i \in 1..m PROVE g[i] = step[<<i, g[i - 1]>>]
    <3>1. CASE i = m
      <4>1. g[i] = step[<<m, f[k]>>] /\ g[i - 1] = f[k]
        BY <2>2, <3>1
      <4> QED
        BY <3>1, <4>1
    <3>2. CASE i # m
      <4>1. i \in 1..k /\ i - 1 \in 0..m /\ i - 1 # m /\ i \in 0..m
        BY <3>2
      <4>2. g[i] = f[i] /\ g[i - 1] = f[i - 1]
        BY <3>2, <4>1
      <4>3. f[i] = step[<<i, f[i - 1]>>]
        BY <2>1, <4>1
      <4> QED
        BY <4>2, <4>3
    <3> QED
      BY <3>1, <3>2
  <2>6. g[0] = x
    BY <2>1, <2>2
  <2> QED
    BY <2>4, <2>5, <2>6
<1>3. Nat \subseteq S
  <2> HIDE DEF Good
  <2>1. \A k \in Nat : k \in S => k + 1 \in S
    BY <1>2
  <2> HIDE DEF S
  <2> QED
    BY <1>1, <2>1, Induct
<1>4. \E f \in [0..n -> T] : Good(f, n)
  BY <1>3
<1> QED
  BY <1>4 DEF Iterates

-----------------------------------------------------------------------------
(* What split returns.                                                     *)

\* The tokens of one character more, g being those of fewer.
TokensAt(s, delim, g, i) ==
  IF i = 0 THEN <<>>
  ELSE IF s[i] = delim THEN g[i - 1]
  ELSE IF i = 1 \/ s[i - 1] = delim THEN Append(g[i - 1], <<s[i]>>)
  ELSE [g[i - 1] EXCEPT ![Len(g[i - 1])] = Append(@, s[i])]

\* The tokens of the first characters, for each number of them.
IsTokens(s, delim, g) == g = [i \in 0..Len(s) |-> TokensAt(s, delim, g, i)]

\* The function that split is defined with exists, and its values are lists of
\* tokens.
LEMMA SplitTokens ==
  ASSUME NEW s \in Text, NEW delim
  PROVE  \E g : /\ IsTokens(s, delim, g) /\ Split(s, delim) = g[Len(s)]
                /\ \A i \in 0..Len(s) : g[i] \in Seq(Text)
<1> DEFINE n == Len(s)
           Next1(i, t) == IF s[i] = delim THEN t
                          ELSE IF i = 1 \/ s[i - 1] = delim THEN Append(t, <<s[i]>>)
                          ELSE [t EXCEPT ![Len(t)] = Append(@, s[i])]
           step == [p \in (1..n) \X Seq(Text) |-> Next1(p[1], p[2])]
<1>0. n \in Nat /\ \A i \in 1..n : s[i] \in Char
  BY DEF Text
<1>1. ASSUME NEW i \in 1..n, NEW t \in Seq(Text) PROVE Next1(i, t) \in Seq(Text)
  <2>1. Append(t, <<s[i]>>) \in Seq(Text)
    <3>1. <<s[i]>> \in Text
      BY <1>0 DEF Text
    <3> QED
      BY <3>1
  <2>2. [t EXCEPT ![Len(t)] = Append(@, s[i])] \in Seq(Text)
    <3>1. CASE t = <<>>
      <4> DEFINE u == [t EXCEPT ![Len(t)] = Append(@, s[i])]
      <4>1. DOMAIN t = {} /\ DOMAIN u = DOMAIN t
        BY <3>1
      <4>2. u = [j \in {} |-> <<>>] /\ t = [j \in {} |-> <<>>]
        BY <3>1, <4>1
      <4> QED
        BY <3>1, <4>2
    <3>2. CASE t # <<>>
      <4>1. Len(t) \in 1..Len(t) /\ t[Len(t)] \in Text
        BY <3>2, EmptySeq
      <4>2. Append(t[Len(t)], s[i]) \in Text
        BY <1>0, <4>1 DEF Text
      <4> QED
        BY <4>1, <4>2, ExceptSeq
    <3> QED
      BY <3>1, <3>2
  <2> QED
    BY <2>1, <2>2
<1>2. step \in [(1..n) \X Seq(Text) -> Seq(Text)]
  <2> HIDE DEF Next1
  <2>1. \A p \in (1..n) \X Seq(Text) : p[1] \in 1..n /\ p[2] \in Seq(Text)
    OBVIOUS
  <2> QED
    BY <1>1, <2>1
<1>3. PICK f \in [0..n -> Seq(Text)] : f[0] = <<>> /\ \A i \in 1..n : f[i] = step[<<i, f[i - 1]>>]
  <2>1. <<>> \in Seq(Text)
    OBVIOUS
  <2> DEFINE T == Seq(Text)  x == <<>>
  <2>2. n \in Nat /\ x \in T /\ step \in [(1..n) \X T -> T]
    BY <1>0, <1>2, <2>1
  <2> HIDE DEF step, n, T, x
  <2>3. \E f \in [0..n -> T] : Iterates(f, n, x, step)
    BY <2>2, Recursion
  <2> QED
    BY <2>3 DEF T, x, Iterates
<1>4. \A i \in 0..n : f[i] = TokensAt(s, delim, f, i)
  <2>1. ASSUME NEW i \in 1..n PROVE f[i] = TokensAt(s, delim, f, i)
    <3>1. i - 1 \in 0..n /\ i # 0
      OBVIOUS
    <3>2. f[i] = Next1(i, f[i - 1])
      BY <1>3, <3>1
    <3> QED
      BY <3>1, <3>2 DEF TokensAt
  <2>2. f[0] = TokensAt(s, delim, f, 0)
    BY <1>3 DEF TokensAt
  <2> QED
    BY <1>0, <2>1, <2>2
<1>5. IsTokens(s, delim, f)
  BY <1>4 DEF IsTokens
<1> DEFINE h == CHOOSE g : IsTokens(s, delim, g)
<1>6. IsTokens(s, delim, h)
  BY <1>5
<1>7. Split(s, delim) = h[n]
  BY DEF Split, IsTokens, TokensAt
<1> HIDE DEF h
<1>8. \A i \in 0..n : h[i] = TokensAt(s, delim, h, i)
  BY <1>6 DEF IsTokens
<1>9. \A i \in 0..n : h[i] \in Seq(Text)
  <2> DEFINE S == {k \in Nat : k <= n => h[k] \in Seq(Text)}
  <2>1. 0 \in S
    <3>1. 0 \in 0..n
      BY <1>0
    <3>2. h[0] = TokensAt(s, delim, h, 0)
      BY <1>8, <3>1
    <3>3. h[0] = <<>>
      BY <3>2 DEF TokensAt
    <3>4. <<>> \in Seq(Text)
      OBVIOUS
    <3> QED
      BY <3>3, <3>4
  <2>2. ASSUME NEW k \in Nat, k \in S, k + 1 <= n PROVE h[k + 1] \in Seq(Text)
    <3>1. k + 1 \in 1..n /\ k + 1 \in 0..n /\ (k + 1) - 1 = k /\ k + 1 # 0 /\ h[k] \in Seq(Text)
      BY <1>0, <2>2
    <3>2. h[k + 1] = Next1(k + 1, h[k])
      BY <1>8, <3>1 DEF TokensAt
    <3> QED
      BY <1>1, <3>1, <3>2
  <2>3. \A k \in Nat : k \in S => k + 1 \in S
    BY <2>2
  <2>4. Nat \subseteq S
    <3> HIDE DEF S
    <3> QED
      BY <2>1, <2>3, Induct
  <2> QED
    BY <1>0, <2>4
<1> QED
  BY <1>6, <1>7, <1>9

\* An empty string has no tokens.
LEMMA SplitEmpty ==
  ASSUME NEW delim
  PROVE  Split(<<>>, delim) = <<>>
<1>1. <<>> \in Text /\ Len(<<>>) = 0
  BY DEF Text
<1>2. PICK g : IsTokens(<<>>, delim, g) /\ Split(<<>>, delim) = g[0]
  BY <1>1, SplitTokens
<1>3. g[0] = TokensAt(<<>>, delim, g, 0)
  BY <1>1, <1>2 DEF IsTokens
<1> QED
  BY <1>2, <1>3 DEF TokensAt

\* The tokens of a string are strings.
LEMMA SplitType ==
  ASSUME NEW s \in Text, NEW delim
  PROVE  Split(s, delim) \in Seq(Text)
<1>1. Len(s) \in Nat
  BY DEF Text
<1> QED
  BY <1>1, SplitTokens

\* How the tokens grow with the string.
LEMMA SplitNext ==
  ASSUME NEW s \in Text, NEW c \in Char, NEW delim
  PROVE  Split(Append(s, c), delim) =
           IF c = delim THEN Split(s, delim)
           ELSE IF s = <<>> \/ s[Len(s)] = delim THEN Append(Split(s, delim), <<c>>)
           ELSE [Split(s, delim) EXCEPT ![Len(Split(s, delim))] = Append(@, c)]
<1> DEFINE t == Append(s, c)  n == Len(s)
<1>0. /\ t \in Text /\ n \in Nat /\ Len(t) = n + 1
      /\ t[n + 1] = c /\ \A i \in 1..n : t[i] = s[i]
  <2>1. s \in Seq(Char) /\ t = Append(s, c)
    BY DEF Text
  <2> HIDE DEF t
  <2> QED
    BY <2>1, AppendProperties DEF Text
<1>1. PICK g : /\ IsTokens(s, delim, g) /\ Split(s, delim) = g[n]
               /\ \A i \in 0..n : g[i] \in Seq(Text)
  BY SplitTokens
<1>2. PICK h : IsTokens(t, delim, h) /\ Split(t, delim) = h[n + 1]
  <2> HIDE DEF t
  <2>1. PICK h : IsTokens(t, delim, h) /\ Split(t, delim) = h[Len(t)]
    BY <1>0, SplitTokens
  <2> QED
    BY <1>0, <2>1
<1> HIDE DEF t
<1>3. \A i \in 0..n : g[i] = TokensAt(s, delim, g, i)
  BY <1>1 DEF IsTokens
<1>4. \A i \in 0..n + 1 : h[i] = TokensAt(t, delim, h, i)
  BY <1>0, <1>2 DEF IsTokens
<1>5. \A i \in 0..n : g[i] = h[i]
  <2> DEFINE S == {k \in Nat : k <= n => g[k] = h[k]}
  <2>1. 0 \in S
    <3>1. 0 \in 0..n /\ 0 \in 0..n + 1
      BY <1>0
    <3>2. g[0] = TokensAt(s, delim, g, 0) /\ h[0] = TokensAt(t, delim, h, 0)
      BY <1>3, <1>4, <3>1
    <3>3. g[0] = h[0]
      BY <3>2 DEF TokensAt
    <3> QED
      BY <3>3
  <2>2. ASSUME NEW k \in Nat, k \in S, k + 1 <= n PROVE g[k + 1] = h[k + 1]
    <3> DEFINE m == k + 1
    <3>1. m \in 1..n /\ m \in 0..n /\ m \in 0..n + 1 /\ m - 1 = k /\ m # 0 /\ g[k] = h[k]
      BY <1>0, <2>2
    <3>2. t[m] = s[m] /\ (m = 1 \/ t[m - 1] = s[m - 1])
      <4>1. m = 1 \/ m - 1 \in 1..n
        BY <3>1
      <4> HIDE DEF m
      <4> QED
        BY <1>0, <3>1, <4>1
    <3>3. g[m] = TokensAt(s, delim, g, m) /\ h[m] = TokensAt(t, delim, h, m)
      BY <1>3, <1>4, <3>1
    <3> HIDE DEF m
    <3>4. g[m] = h[m]
      BY <3>1, <3>2, <3>3 DEF TokensAt
    <3> QED
      BY <3>4 DEF m
  <2>3. \A k \in Nat : k \in S => k + 1 \in S
    BY <2>2
  <2>4. Nat \subseteq S
    <3> HIDE DEF S
    <3> QED
      BY <2>1, <2>3, Induct
  <2> QED
    BY <1>0, <2>4
<1>6. h[n] = Split(s, delim)
  BY <1>0, <1>1, <1>5
<1>7. h[n + 1] = TokensAt(t, delim, h, n + 1)
  BY <1>0, <1>4
<1>8. (n + 1) - 1 = n /\ n + 1 # 0 /\ t[n + 1] = c /\ (n + 1 = 1 <=> s = <<>>)
  BY <1>0, EmptySeq DEF Text
<1>9. s # <<>> => t[n] = s[n]
  BY <1>0, <1>8
<1> QED
  BY <1>2, <1>6, <1>7, <1>8, <1>9 DEF TokensAt, t

-----------------------------------------------------------------------------
(* Fields of a string.                                                     *)

\* No character of f is delim.
Without(f, delim) == \A i \in DOMAIN f : f[i] # delim

\* Behind s a token begins.
AtStart(s, delim) == s = <<>> \/ s[Len(s)] = delim

\* A character behind two strings.
LEMMA AppendBehind ==
  ASSUME NEW s \in Text, NEW f \in Text, NEW c \in Char
  PROVE  /\ s \o f \in Text /\ Append(s \o f, c) \in Text
         /\ s \o Append(f, c) = Append(s \o f, c)
<1> DEFINE x == <<c>>
<1>1. s \in Seq(Char) /\ f \in Seq(Char) /\ x \in Seq(Char)
  BY DEF Text
<1>2. s \o f \in Seq(Char)
  BY <1>1, ConcatProperties
<1>3. Append(f, c) = f \o x /\ Append(s \o f, c) = (s \o f) \o x /\ Append(s \o f, c) \in Seq(Char)
  BY <1>1, <1>2, AppendIsConcat, AppendProperties
<1> HIDE DEF x
<1>4. (s \o f) \o x = s \o (f \o x)
  BY <1>1, ConcatAssociative
<1> QED
  BY <1>2, <1>3, <1>4 DEF Text

\* To grow the last element is to append another.
LEMMA ExceptLast ==
  ASSUME NEW S, NEW t \in Seq(S), NEW u \in S, NEW v \in S, NEW n \in Nat, n = Len(t) + 1
  PROVE  [Append(t, u) EXCEPT ![n] = v] = Append(t, v)
<1> DEFINE a == Append(t, u)  b == Append(t, v)  c == [a EXCEPT ![n] = v]
<1>1. /\ a \in Seq(S) /\ Len(a) = n /\ \A i \in 1..Len(t) : a[i] = t[i]
      /\ b \in Seq(S) /\ Len(b) = n /\ b[n] = v /\ \A i \in 1..Len(t) : b[i] = t[i]
  BY AppendProperties
<1>2. n \in 1..Len(a) /\ Len(t) \in Nat
  BY <1>1
<1> HIDE DEF a, b
<1>3. c \in Seq(S) /\ Len(c) = n /\ \A j \in 1..n : c[j] = IF j = n THEN v ELSE a[j]
  BY <1>1, <1>2, ExceptSeq
<1> HIDE DEF c
<1>4. \A j \in 1..n : c[j] = b[j]
  BY <1>1, <1>2, <1>3
<1>5. c = b
  BY <1>1, <1>3, <1>4, SeqEqual
<1> QED
  BY <1>5 DEF a, b, c

\* A string is its characters but the last, and the last.
LEMMA FirstChars ==
  ASSUME NEW f \in Text, NEW k \in 1..Len(f)
  PROVE  /\ SubSeq(f, 1, k) \in Text /\ Len(SubSeq(f, 1, k)) = k /\ SubSeq(f, 1, k) # <<>>
         /\ \A i \in 1..k : SubSeq(f, 1, k)[i] = f[i]
         /\ SubSeq(f, 1, k) = Append(SubSeq(f, 1, k - 1), f[k])
         /\ SubSeq(f, 1, k - 1) \in Text
<1> DEFINE u == SubSeq(f, 1, k)  v == SubSeq(f, 1, k - 1)
<1>0. f \in Seq(Char) /\ Len(f) \in Nat /\ k \in Nat /\ k <= Len(f) /\ k - 1 \in Nat
      /\ \A i \in 1..Len(f) : f[i] \in Char
  BY DEF Text
<1>1. u \in Seq(Char) /\ Len(u) = k /\ \A i \in 1..k : u[i] = f[i]
  BY <1>0, SubSeqProperties
<1>2. v \in Seq(Char) /\ Len(v) = k - 1 /\ \A i \in 1..k - 1 : v[i] = f[i]
  BY <1>0, SubSeqProperties
<1> HIDE DEF u, v
<1> DEFINE a == Append(v, f[k])
<1>3. a \in Seq(Char) /\ Len(a) = k /\ a[k] = f[k] /\ \A i \in 1..k - 1 : a[i] = f[i]
  BY <1>0, <1>2, AppendProperties
<1> HIDE DEF a
<1>4. \A i \in 1..k : a[i] = u[i]
  BY <1>0, <1>1, <1>3
<1>5. u = a
  BY <1>1, <1>3, <1>4, SeqEqual
<1>6. u # <<>>
  BY <1>0, <1>1
<1> QED
  BY <1>1, <1>2, <1>5, <1>6 DEF Text, u, v, a

\* A text without delimiters behind a place where a token begins is a token.
LEMMA SplitToken ==
  ASSUME NEW s \in Text, NEW f \in Text, NEW delim,
         AtStart(s, delim), f # <<>>, Without(f, delim)
  PROVE  Split(s \o f, delim) = Append(Split(s, delim), f)
<1> DEFINE t == Split(s, delim)  n == Len(f)  P(k) == SubSeq(f, 1, k)
<1>0. /\ n \in Nat /\ n # 0 /\ t \in Seq(Text) /\ Len(t) \in Nat
      /\ s \in Seq(Char) /\ \A k \in 1..n : f[k] \in Char /\ f[k] # delim
  BY SplitType DEF Text, Without
<1> HIDE DEF t
<1> DEFINE S == {k \in 0..n : k = 0 \/ Split(s \o P(k), delim) = Append(t, P(k))}
<1>1. 0 \in S
  BY <1>0
<1>2. ASSUME NEW k \in 1..n, k - 1 \in S PROVE k \in S
  <2> DEFINE u == P(k)  v == P(k - 1)  w == s \o v
  <2>1. /\ u \in Text /\ v \in Text /\ u = Append(v, f[k]) /\ Len(u) = k /\ f[k] \in Char
        /\ f[k] # delim
    BY <1>0, FirstChars
  <2>2. k = 1 => v = <<>>
    BY SubSeqEmpty
  <2>3. k # 1 => k - 1 \in 1..n
    BY <1>0
  <2>4. k # 1 => v[k - 1] = f[k - 1] /\ Len(v) = k - 1 /\ v # <<>>
    <3>1. SUFFICES ASSUME k # 1 PROVE v[k - 1] = f[k - 1] /\ Len(v) = k - 1 /\ v # <<>>
      OBVIOUS
    <3> DEFINE j == k - 1
    <3>2. j \in 1..Len(f) /\ j \in 1..j
      BY <2>3, <3>1
    <3> HIDE DEF j
    <3> QED
      BY <3>2, FirstChars DEF j
  <2>5. k # 1 => Split(w, delim) = Append(t, v)
    BY <1>2, <2>3
  <2> HIDE DEF u, v
  <2>6. w \in Text /\ s \o u = Append(w, f[k])
    <3>1. v \in Text /\ f[k] \in Char
      BY <2>1
    <3>2. w \in Text /\ s \o Append(v, f[k]) = Append(w, f[k])
      BY <3>1, AppendBehind
    <3> QED
      BY <2>1, <3>2
  <2>7. k = 1 => w = s
    BY <1>0, <2>2, ConcatEmptySeq
  <2>8. k # 1 => w # <<>> /\ w[Len(w)] = f[k - 1] /\ f[k - 1] # delim
    <3>1. SUFFICES ASSUME k # 1 PROVE w # <<>> /\ w[Len(w)] = f[k - 1]
      BY <1>0, <2>3
    <3>2. v \in Seq(Char) /\ Len(v) \in Nat /\ Len(s) \in Nat /\ Len(v) # 0
      BY <1>0, <2>1, <2>4, <3>1, EmptySeq DEF Text
    <3>3. Len(w) = Len(s) + Len(v) /\ w[Len(s) + Len(v)] = v[Len(v)]
      BY <1>0, <3>2, ConcatProperties
    <3>4. w # <<>>
      BY <3>2, <3>3
    <3> QED
      BY <2>4, <3>1, <3>3, <3>4
  <2> HIDE DEF w
  <2>9. Split(s \o u, delim) = Append(t, u)
    <3>1. CASE k = 1
      <4>1. Split(s \o u, delim) = Append(t, <<f[k]>>)
        BY <2>1, <2>6, <2>7, <3>1, SplitNext DEF AtStart, t
      <4>2. u = <<f[k]>>
        BY <2>1, <2>2, <3>1
      <4> QED
        BY <4>1, <4>2
    <3>2. CASE k # 1
      <4> DEFINE a == Append(t, v)  l == Len(a)
      <4>1. Split(s \o u, delim) = [a EXCEPT ![l] = Append(@, f[k])]
        <5>1. Split(Append(w, f[k]), delim) =
                [Split(w, delim) EXCEPT ![Len(Split(w, delim))] = Append(@, f[k])]
          <6>1. w \in Text /\ f[k] \in Char /\ f[k] # delim /\ w # <<>> /\ w[Len(w)] # delim
            BY <2>1, <2>6, <2>8, <3>2
          <6> QED
            BY <6>1, SplitNext
        <5> QED
          BY <2>5, <2>6, <3>2, <5>1
      <4>2. l = Len(t) + 1 /\ l \in Nat /\ a[l] = v
        BY <1>0, <2>1, AppendProperties
      <4> HIDE DEF l
      <4>3. [a EXCEPT ![l] = u] = Append(t, u)
        <5>1. u \in Text /\ v \in Text
          BY <2>1
        <5> QED
          BY <1>0, <4>2, <5>1, ExceptLast
      <4> HIDE DEF a
      <4> QED
        BY <2>1, <4>1, <4>2, <4>3
    <3> QED
      BY <3>1, <3>2
  <2> QED
    BY <2>9 DEF u
<1>3. \A k \in 0..n : k \in S
  <2> HIDE DEF S
  <2> QED
    BY <1>0, <1>1, <1>2, InductUpTo
<1>4. n \in 0..n /\ P(n) = f
  BY <1>0, SubSeqFull DEF Text
<1> QED
  BY <1>0, <1>3, <1>4 DEF t

\* A field, and the delimiter behind it.
LEMMA SplitField ==
  ASSUME NEW s \in Text, NEW f \in Text, NEW delim \in Char,
         AtStart(s, delim), Without(f, delim)
  PROVE  /\ Append(s \o f, delim) \in Text /\ AtStart(Append(s \o f, delim), delim)
         /\ Split(Append(s \o f, delim), delim) =
              IF f = <<>> THEN Split(s, delim) ELSE Append(Split(s, delim), f)
<1> DEFINE w == s \o f
<1>1. w \in Text /\ (f = <<>> => w = s)
  BY ConcatProperties, ConcatEmptySeq DEF Text
<1>2. f # <<>> => Split(w, delim) = Append(Split(s, delim), f)
  BY SplitToken
<1> HIDE DEF w
<1>3. Split(Append(w, delim), delim) = Split(w, delim)
  BY <1>1, SplitNext
<1>4. Append(w, delim) \in Text /\ Append(w, delim)[Len(Append(w, delim))] = delim
  BY <1>1, AppendProperties DEF Text
<1> QED
  BY <1>1, <1>2, <1>3, <1>4 DEF AtStart, w

-----------------------------------------------------------------------------
(* What sanitize and desanitize do to a field.                             *)

\* The separators, their escapes, the NUL and the space are characters.
LEMMA Characters ==
  /\ FieldSep \in Char /\ MsgSep \in Char /\ EscField \in Char /\ EscMsg \in Char
  /\ Nul \in Char /\ Space \in Char
BY DEF Char

\* So is every code, and none is a separator.
LEMMA CodeChars ==
  ASSUME NEW m \in MessageCodes
  PROVE  m \in Char /\ m # FieldSep /\ m # MsgSep
BY DEF Char, MessageCodes, FieldSep, MsgSep

\* A field is sent without separators, is as empty as it was, and means what
\* it meant.
LEMMA Sanitized ==
  ASSUME NEW s \in Text
  PROVE  /\ Sanitize(s) \in Text /\ (Sanitize(s) = <<>> <=> s = <<>>)
         /\ Without(Sanitize(s), FieldSep) /\ Without(Sanitize(s), MsgSep)
         /\ Desanitize(Sanitize(s)) = Desanitize(s)
<1> DEFINE t == Sanitize(s)  n == Len(s)
           San(c) == CASE c = FieldSep -> EscField [] c = MsgSep -> EscMsg [] OTHER -> c
           Des(c) == CASE c = EscField -> FieldSep [] c = EscMsg -> MsgSep [] OTHER -> c
<1>1. n \in Nat /\ DOMAIN s = 1..n /\ \A i \in 1..n : s[i] \in Char
  BY DEF Text
<1>2. \A c \in Char : /\ San(c) \in Char /\ San(c) # FieldSep /\ San(c) # MsgSep
                      /\ Des(San(c)) = Des(c)
  BY Characters DEF FieldSep, MsgSep, EscField, EscMsg
<1>3. DOMAIN t = 1..n /\ \A i \in 1..n : t[i] = San(s[i])
  BY <1>1 DEF Sanitize
<1>4. t \in [1..n -> Char]
  <2>1. \A i \in 1..n : t[i] \in Char
    BY <1>1, <1>2, <1>3
  <2>2. t = [i \in 1..n |-> t[i]]
    BY <1>1 DEF Sanitize
  <2> HIDE DEF t
  <2> QED
    BY <2>1, <2>2
<1> HIDE DEF San, Des
<1>5. t \in Seq(Char)
  <2> HIDE DEF t
  <2> QED
    BY <1>1, <1>4
<1>6. Desanitize(t) = Desanitize(s)
  <2>1. Desanitize(t) = [i \in 1..n |-> Des(t[i])]
    BY <1>3 DEF Desanitize, Des
  <2>2. Desanitize(s) = [i \in 1..n |-> Des(s[i])]
    BY <1>1 DEF Desanitize, Des
  <2>3. \A i \in 1..n : Des(t[i]) = Des(s[i])
    BY <1>1, <1>2, <1>3
  <2> HIDE DEF t
  <2> QED
    BY <2>1, <2>2, <2>3
<1>7. Without(t, FieldSep) /\ Without(t, MsgSep)
  <2> HIDE DEF t
  <2> QED
    BY <1>1, <1>2, <1>3 DEF Without
<1>8. t = <<>> <=> s = <<>>
  <2> HIDE DEF t
  <2>1. Len(t) = n /\ s \in Seq(Char)
    BY <1>1, <1>3, <1>5 DEF Text
  <2> QED
    BY <1>5, <2>1, EmptySeq
<1> QED
  BY <1>5, <1>6, <1>7, <1>8 DEF Text

\* An escape is replaced once and for all.
LEMMA Desanitized ==
  ASSUME NEW s \in Text
  PROVE  /\ Desanitize(s) \in Text /\ (Desanitize(s) = <<>> <=> s = <<>>)
         /\ Desanitize(Desanitize(s)) = Desanitize(s)
         /\ Without(s, Space) => Without(Desanitize(s), Space)
<1> DEFINE t == Desanitize(s)  n == Len(s)
           Des(c) == CASE c = EscField -> FieldSep [] c = EscMsg -> MsgSep [] OTHER -> c
<1>1. n \in Nat /\ DOMAIN s = 1..n /\ \A i \in 1..n : s[i] \in Char
  BY DEF Text
<1>2. \A c \in Char : Des(c) \in Char /\ Des(Des(c)) = Des(c) /\ (c # Space => Des(c) # Space)
  BY Characters DEF FieldSep, MsgSep, EscField, EscMsg, Space
<1>3. DOMAIN t = 1..n /\ \A i \in 1..n : t[i] = Des(s[i])
  BY <1>1 DEF Desanitize
<1>4. t = [i \in 1..n |-> t[i]]
  BY <1>1 DEF Desanitize
<1>5. Desanitize(t) = [i \in 1..n |-> Des(t[i])]
  BY <1>3 DEF Desanitize
<1> HIDE DEF t, Des
<1>6. \A i \in 1..n : t[i] \in Char /\ Des(t[i]) = t[i]
  BY <1>1, <1>2, <1>3
<1>7. t \in [1..n -> Char]
  BY <1>4, <1>6
<1>8. t \in Seq(Char)
  BY <1>1, <1>7
<1>9. Desanitize(t) = t
  BY <1>4, <1>5, <1>6
<1>10. t = <<>> <=> s = <<>>
  <2>1. Len(t) = n /\ s \in Seq(Char)
    BY <1>1, <1>3, <1>8 DEF Text
  <2> QED
    BY <1>8, <2>1, EmptySeq
<1>11. Without(s, Space) => Without(t, Space)
  BY <1>1, <1>2, <1>3 DEF Without
<1> QED
  BY <1>8, <1>9, <1>10, <1>11 DEF Text, t

-----------------------------------------------------------------------------
(* Frames.                                                                 *)

\* The frame of the code m with its first fields, for each number of them.
IsFrame(m, args, g) ==
  g = [i \in 0..Len(args) |-> IF i = 0 THEN <<m, FieldSep>> ELSE AddField(g[i - 1], args[i])]

\* A frame is built field by field.
LEMMA FrameFields ==
  ASSUME NEW m \in Char, NEW args \in Seq(Text)
  PROVE  \E g : /\ g[0] = <<m, FieldSep>> /\ \A i \in 0..Len(args) : g[i] \in Text
                /\ \A i \in 1..Len(args) : g[i] = Append(g[i - 1] \o Sanitize(args[i]), FieldSep)
                /\ HostToNetMsg(m, args) = Append(g[Len(args)], MsgSep)
<1> DEFINE n == Len(args)  x == <<m, FieldSep>>
           step == [p \in (1..n) \X Text |-> AddField(p[2], args[p[1]])]
<1>0. n \in Nat /\ (\A i \in 1..n : args[i] \in Text) /\ x \in Text
  BY Characters DEF Text
<1>1. ASSUME NEW i \in 1..n, NEW t \in Text
      PROVE  AddField(t, args[i]) \in Text /\ AddField(t, args[i]) = Append(t \o Sanitize(args[i]), FieldSep)
  <2> DEFINE f == Sanitize(args[i])  w == t \o f
  <2>1. t \in Seq(Char) /\ f \in Seq(Char)
    BY <1>0, Sanitized DEF Text
  <2>2. w \in Seq(Char)
    BY <2>1, ConcatProperties
  <2>3. AddField(t, args[i]) = w \o <<FieldSep>>
    BY DEF AddField
  <2> HIDE DEF w
  <2>4. Append(w, FieldSep) = w \o <<FieldSep>> /\ Append(w, FieldSep) \in Seq(Char)
    BY <2>2, Characters, AppendIsConcat, AppendProperties
  <2> QED
    BY <2>3, <2>4 DEF Text, w
<1>2. step \in [(1..n) \X Text -> Text]
  <2>1. \A p \in (1..n) \X Text : p[1] \in 1..n /\ p[2] \in Text
    OBVIOUS
  <2> QED
    BY <1>1, <2>1
<1>3. PICK f \in [0..n -> Text] : Iterates(f, n, x, step)
  <2> HIDE DEF step, n, x
  <2> QED
    BY <1>0, <1>2, Recursion
<1>4. \A i \in 1..n : i # 0 /\ i - 1 \in 0..n /\ i \in 0..n
  BY <1>0
<1>5. IsFrame(m, args, f)
  <2>1. \A i \in 1..n : f[i] = AddField(f[i - 1], args[i])
    BY <1>3, <1>4 DEF Iterates
  <2>2. \A i \in 0..n : f[i] = IF i = 0 THEN x ELSE AddField(f[i - 1], args[i])
    BY <1>0, <1>3, <2>1 DEF Iterates
  <2> QED
    BY <2>2 DEF IsFrame
<1> DEFINE h == CHOOSE g : IsFrame(m, args, g)
<1>6. IsFrame(m, args, h)
  BY <1>5
<1>7. HostToNetMsg(m, args) = Append(h[n], MsgSep)
  BY DEF HostToNetMsg, IsFrame
<1> HIDE DEF h
<1>8. h[0] = x /\ \A i \in 1..n : h[i] = AddField(h[i - 1], args[i])
  <2>1. \A i \in 0..n : h[i] = IF i = 0 THEN x ELSE AddField(h[i - 1], args[i])
    BY <1>6 DEF IsFrame
  <2>2. 0 \in 0..n
    BY <1>0
  <2> QED
    BY <1>4, <2>1, <2>2
<1>9. \A i \in 0..n : h[i] \in Text
  <2> DEFINE S == {i \in 0..n : h[i] \in Text}
  <2>1. 0 \in S
    BY <1>0, <1>8
  <2>2. ASSUME NEW i \in 1..n, i - 1 \in S PROVE i \in S
    BY <1>1, <1>4, <1>8, <2>2
  <2> HIDE DEF S
  <2>3. \A i \in 0..n : i \in S
    BY <1>0, <2>1, <2>2, InductUpTo
  <2> QED
    BY <2>3 DEF S
<1>10. \A i \in 1..n : h[i] = Append(h[i - 1] \o Sanitize(args[i]), FieldSep)
  BY <1>1, <1>4, <1>8, <1>9
<1> QED
  BY <1>7, <1>8, <1>9, <1>10

\* A frame's only separator of messages is its end: recv returns the rest.
LEMMA FrameContent ==
  ASSUME NEW g \in Text, Without(g, MsgSep), NEW lead
  PROVE  Content(Append(g, MsgSep), lead) = lead \o g
<1> DEFINE f == Append(g, MsgSep)  n == Len(g)  I == {i \in 1..Len(f) : f[i] = MsgSep}
<1>1. /\ g \in Seq(Char) /\ n \in Nat /\ f \in Seq(Char) /\ Len(f) = n + 1
      /\ f[n + 1] = MsgSep /\ \A i \in 1..n : f[i] = g[i] /\ g[i] # MsgSep
  BY Characters, AppendProperties DEF Text, Without
<1> HIDE DEF f
<1>2. I = {n + 1}
  BY <1>1
<1>3. SelectInSeq(f, LAMBDA c : c = MsgSep) = IF I # {} THEN Min(I) ELSE 0
  BY DEF SelectInSeq
<1>4. Min(I) = n + 1
  BY <1>1, <1>2 DEF Min
<1>5. SelectInSeq(f, LAMBDA c : c = MsgSep) - 1 = n
  BY <1>1, <1>2, <1>3, <1>4
<1>6. SubSeq(f, 1, n) = g
  <2> DEFINE u == SubSeq(f, 1, n)
  <2>1. u \in Seq(Char) /\ Len(u) = n /\ \A i \in 1..n : u[i] = f[i]
    <3>1. \A i \in 1..n : f[i] \in Char
      BY <1>1
    <3> QED
      BY <1>1, <3>1, SubSeqProperties
  <2> HIDE DEF u
  <2>2. u = g
    BY <1>1, <2>1, SeqEqual
  <2> QED
    BY <2>2 DEF u
<1> QED
  BY <1>5, <1>6 DEF Content, f

-----------------------------------------------------------------------------
(* What is received of a message.                                          *)

\* What may be left in front of a message has one character at most.
LEMMA LeadTypes ==
  ASSUME NEW lead \in Leads
  PROVE  lead \in Text /\ Len(lead) \in {0, 1}
<1>1. <<>> \in Text /\ <<Nul>> \in Text /\ Len(<<Nul>>) = 1
  BY Characters DEF Text
<1> QED
  BY <1>1 DEF Leads

\* The first token of a frame is its code, behind what is left in front of it.
LEMMA SplitCode ==
  ASSUME NEW m \in MessageCodes, NEW lead \in Leads, NEW w, w = lead \o <<m, FieldSep>>
  PROVE  /\ w \in Text /\ AtStart(w, FieldSep) /\ Split(w, FieldSep) = << lead \o <<m>> >>
         /\ lead \o <<m>> \in Text
<1> DEFINE f == lead \o <<m>>
<1>1. m \in Char /\ m # FieldSep
  BY CodeChars
<1>2. lead \in Seq(Char) /\ <<m>> \in Seq(Char) /\ <<FieldSep>> \in Seq(Char) /\ <<m, FieldSep>> \in Seq(Char)
  BY <1>1, Characters, LeadTypes DEF Text
<1>3. f \in Seq(Char) /\ Len(f) = Len(lead) + 1
      /\ \A i \in 1..Len(f) : f[i] = IF i <= Len(lead) THEN lead[i] ELSE m
  BY <1>2, ConcatProperties
<1>4. \A i \in 1..Len(lead) : lead[i] # FieldSep
  <2>1. Nul # FieldSep /\ Len(<<Nul>>) = 1 /\ <<Nul>>[1] = Nul
    BY DEF Nul, FieldSep
  <2>2. lead = <<>> \/ lead = <<Nul>>
    BY DEF Leads
  <2>3. lead = <<>> => Len(lead) = 0
    OBVIOUS
  <2> QED
    BY <2>1, <2>2, <2>3
<1>5. w = Append(f, FieldSep)
  <2>1. w = f \o <<FieldSep>>
    <3>1. <<m, FieldSep>> = <<m>> \o <<FieldSep>>
      OBVIOUS
    <3>2. (lead \o <<m>>) \o <<FieldSep>> = lead \o (<<m>> \o <<FieldSep>>)
      BY <1>2, ConcatAssociative
    <3> QED
      BY <3>1, <3>2
  <2> HIDE DEF f
  <2> QED
    BY <1>3, <2>1, Characters, AppendIsConcat
<1> HIDE DEF f
<1>6. f \in Text /\ f # <<>> /\ Without(f, FieldSep)
  <2>1. Len(lead) \in Nat
    BY <1>2
  <2>2. f # <<>>
    BY <1>3, <2>1
  <2> QED
    BY <1>1, <1>3, <1>4, <2>2 DEF Without, Text
<1>7. <<>> \in Text /\ AtStart(<<>>, FieldSep)
  BY DEF Text, AtStart
<1>8. Split(Append(<<>> \o f, FieldSep), FieldSep) = Append(Split(<<>>, FieldSep), f)
      /\ Append(<<>> \o f, FieldSep) \in Text /\ AtStart(Append(<<>> \o f, FieldSep), FieldSep)
  BY <1>6, <1>7, Characters, SplitField
<1>9. <<>> \o f = f
  BY <1>3, ConcatEmptySeq
<1>10. Append(<<>>, f) = <<f>>
  OBVIOUS
<1>11. Split(w, FieldSep) = <<f>>
  BY <1>5, <1>8, <1>9, <1>10, SplitEmpty
<1> QED
  BY <1>5, <1>6, <1>8, <1>9, <1>11 DEF f

\* All is understood of a message but its first k fields.
Understood(str, m, args, k) ==
  /\ NetToHostHeader(str) = m
  /\ Len(NetToHostMsg(str)) = Len(args) - k
  /\ \A i \in 1..Len(args) - k : NetToHostMsg(str)[i] = Desanitize(args[k + i])

\* What is understood of a message whose first k fields are empty, and no
\* others: its code, and those that are not empty.
LEMMA Received ==
  ASSUME NEW m \in MessageCodes, NEW args \in Seq(Text), NEW lead \in Leads,
         NEW k \in 0..Len(args),
         \A i \in 1..Len(args) : args[i] = <<>> <=> i <= k,
         NEW str, str = Content(HostToNetMsg(m, args), lead)
  PROVE  Understood(str, m, args, k)
<1> DEFINE n == Len(args)  San(i) == Sanitize(args[i])
<1>0. n \in Nat /\ k \in 0..n /\ \A i \in 1..n : args[i] \in Text
  OBVIOUS
<1>1. m \in Char /\ m # FieldSep /\ m # MsgSep
  BY CodeChars
<1>2. PICK g : /\ g[0] = <<m, FieldSep>> /\ \A i \in 0..n : g[i] \in Text
               /\ \A i \in 1..n : g[i] = Append(g[i - 1] \o San(i), FieldSep)
               /\ HostToNetMsg(m, args) = Append(g[n], MsgSep)
  BY <1>1, FrameFields
<1>3. \A i \in 1..n : /\ San(i) \in Text /\ Without(San(i), FieldSep) /\ Without(San(i), MsgSep)
                      /\ San(i) = <<>> <=> i <= k
                      /\ Desanitize(San(i)) = Desanitize(args[i])
  BY <1>0, Sanitized
<1>4. \A i \in 1..n : i - 1 \in 0..n /\ i \in 0..n /\ i \in Nat
  BY <1>0
<1> HIDE DEF n, San
<1>5. str = lead \o g[n]
  <2> DEFINE S == {i \in 0..n : Without(g[i], MsgSep)}
  <2>1. 0 \in S
    <3>1. Without(<<m, FieldSep>>, MsgSep)
      <4> DEFINE x == <<m, FieldSep>>
      <4>1. DOMAIN x = 1..2 /\ x[1] = m /\ x[2] = FieldSep /\ FieldSep # MsgSep
        BY DEF FieldSep, MsgSep
      <4> HIDE DEF x
      <4>2. \A i \in 1..2 : x[i] # MsgSep
        BY <1>1, <4>1
      <4>3. Without(x, MsgSep)
        BY <4>1, <4>2 DEF Without
      <4> QED
        BY <4>3 DEF x
    <3>2. 0 \in 0..n /\ g[0] = <<m, FieldSep>>
      BY <1>0, <1>2
    <3>3. Without(g[0], MsgSep)
      BY <3>1, <3>2
    <3> QED
      BY <3>2, <3>3
  <2>2. ASSUME NEW i \in 1..n, i - 1 \in S PROVE i \in S
    <3> DEFINE a == g[i - 1]  b == San(i)  c == a \o b  d == Append(c, FieldSep)
    <3>1. a \in Text /\ b \in Text /\ Without(a, MsgSep) /\ Without(b, MsgSep) /\ g[i] = d
      BY <1>2, <1>3, <1>4, <2>2
    <3> HIDE DEF a, b
    <3>2. /\ a \in Seq(Char) /\ b \in Seq(Char) /\ Len(a) \in Nat /\ Len(b) \in Nat
          /\ \A j \in 1..Len(a) : a[j] # MsgSep
          /\ \A j \in 1..Len(b) : b[j] # MsgSep
      BY <3>1 DEF Text, Without
    <3>3. c \in Seq(Char) /\ Len(c) = Len(a) + Len(b)
          /\ \A j \in 1..Len(c) : c[j] = IF j <= Len(a) THEN a[j] ELSE b[j - Len(a)]
      BY <3>2, ConcatProperties
    <3> HIDE DEF c
    <3>4. ASSUME NEW j \in 1..Len(c) PROVE c[j] # MsgSep
      <4>1. CASE j <= Len(a)
        BY <3>2, <3>3, <4>1
      <4>2. CASE ~(j <= Len(a))
        <5>1. j - Len(a) \in 1..Len(b)
          BY <3>2, <3>3, <4>2
        <5> QED
          BY <3>2, <3>3, <4>2, <5>1
      <4> QED
        BY <4>1, <4>2
    <3>5. d \in Seq(Char) /\ Len(d) = Len(c) + 1 /\ d[Len(c) + 1] = FieldSep
          /\ \A j \in 1..Len(c) : d[j] = c[j]
      BY <3>3, Characters, AppendProperties
    <3> HIDE DEF d
    <3>6. \A j \in 1..Len(d) : d[j] # MsgSep
      <4>1. Len(c) \in Nat /\ FieldSep # MsgSep
        BY <3>3 DEF FieldSep, MsgSep
      <4> QED
        BY <3>4, <3>5, <4>1
    <3>7. Without(d, MsgSep)
      BY <3>5, <3>6 DEF Without
    <3> QED
      BY <1>4, <3>1, <3>7
  <2> HIDE DEF S
  <2>3. \A i \in 0..n : i \in S
    BY <1>0, <2>1, <2>2, InductUpTo
  <2>4. Without(g[n], MsgSep) /\ g[n] \in Text
    BY <1>0, <1>2, <2>3 DEF S
  <2> QED
    BY <1>2, <2>4, FrameContent
<1> DEFINE head == lead \o <<m>>  w(i) == lead \o g[i]  toks(i) == Split(w(i), FieldSep)
           long(i) == IF i <= k THEN 1 ELSE 1 + i - k
           Good(i) == /\ w(i) \in Text /\ AtStart(w(i), FieldSep)
                      /\ toks(i) \in Seq(Text) /\ Len(toks(i)) = long(i) /\ toks(i)[1] = head
                      /\ \A j \in 1..i - k : toks(i)[j + 1] = San(k + j)
<1>6. ASSUME NEW i \in 1..n PROVE w(i) = Append(w(i - 1) \o San(i), FieldSep)
  <2> DEFINE a == g[i - 1]  b == San(i)
  <2>1. lead \in Text /\ a \in Text /\ b \in Text
    BY <1>2, <1>3, <1>4, LeadTypes
  <2>2. w(i) = lead \o Append(a \o b, FieldSep)
    BY <1>2, <1>4
  <2>3. w(i - 1) = lead \o a
    OBVIOUS
  <2> HIDE DEF a, b, w
  <2>4. a \o b \in Text /\ lead \o a \in Text
    BY <2>1, Characters, AppendBehind
  <2>5. lead \o Append(a \o b, FieldSep) = Append(lead \o (a \o b), FieldSep)
    BY <2>1, <2>4, Characters, AppendBehind
  <2>6. (lead \o a) \o b = lead \o (a \o b)
    <3>1. lead \in Seq(Char) /\ a \in Seq(Char) /\ b \in Seq(Char)
      BY <2>1 DEF Text
    <3> QED
      BY <3>1, ConcatAssociative
  <2> QED
    BY <2>2, <2>3, <2>5, <2>6 DEF b
<1>7. Good(0)
  <2>1. w(0) = lead \o <<m, FieldSep>>
    BY <1>2
  <2>2. /\ w(0) \in Text /\ AtStart(w(0), FieldSep) /\ toks(0) = <<head>> /\ head \in Text
    <3> HIDE DEF w
    <3> QED
      BY <2>1, SplitCode DEF w
  <2>3. 1..0 - k = {} /\ 0 <= k
    BY <1>0
  <2> HIDE DEF w, toks, head
  <2>4. toks(0) \in Seq(Text) /\ Len(toks(0)) = 1 /\ toks(0)[1] = head
    BY <2>2
  <2>5. long(0) = 1
    BY <2>3
  <2> HIDE DEF long
  <2> QED
    BY <2>2, <2>3, <2>4, <2>5
<1>8. ASSUME NEW i \in 1..n, Good(i - 1) PROVE Good(i)
  <2> DEFINE p == i - 1  a == w(p)  f == San(i)  t == toks(p)
  <2>1. /\ a \in Text /\ AtStart(a, FieldSep) /\ t \in Seq(Text) /\ Len(t) = long(p) /\ t[1] = head
        /\ \A j \in 1..p - k : t[j + 1] = San(k + j)
    BY <1>8
  <2>2. f \in Text /\ Without(f, FieldSep) /\ (f = <<>> <=> i <= k)
    BY <1>3
  <2>3. w(i) = Append(a \o f, FieldSep)
    BY <1>6
  <2>4. t = Split(a, FieldSep)
    OBVIOUS
  <2> HIDE DEF w, toks, head, a, f, t
  <2>5. w(i) \in Text /\ AtStart(w(i), FieldSep)
        /\ Split(w(i), FieldSep) = IF f = <<>> THEN t ELSE Append(t, f)
    BY <2>1, <2>2, <2>3, <2>4, Characters, SplitField
  <2>6. toks(i) = IF i <= k THEN t ELSE Append(t, f)
    BY <2>2, <2>5 DEF toks
  <2>7. i \in Nat /\ p \in Nat /\ p = i - 1 /\ k \in Nat
    BY <1>0, <1>4
  <2> HIDE DEF p
  <2>8. CASE i <= k
    <3>1. toks(i) = t /\ long(i) = long(p) /\ 1..i - k = {}
      BY <2>6, <2>7, <2>8
    <3> QED
      BY <2>1, <2>5, <3>1
  <2>9. CASE ~(i <= k)
    <3> DEFINE l == Len(t)  u == Append(t, f)
    <3>1. l = i - k /\ l \in Nat /\ l # 0 /\ long(i) = l + 1 /\ p - k = l - 1 /\ k + l = i
      <4>1. Len(t) = long(p) /\ (p <= k => long(p) = 1) /\ (~(p <= k) => long(p) = 1 + p - k)
            /\ long(i) = 1 + i - k
        BY <2>1, <2>9
      <4> HIDE DEF long
      <4> QED
        BY <2>7, <2>9, <4>1
    <3>2. u \in Seq(Text) /\ Len(u) = l + 1 /\ u[l + 1] = f /\ \A j \in 1..l : u[j] = t[j]
      <4>1. t \in Seq(Text) /\ f \in Text
        BY <2>1, <2>2
      <4> QED
        BY <4>1, AppendProperties
    <3>3. toks(i) = u
      BY <2>6, <2>9
    <3> HIDE DEF l, u
    <3>4. ASSUME NEW j \in 1..i - k PROVE u[j + 1] = San(k + j)
      <4>1. CASE j = l
        <5>1. u[j + 1] = San(i) /\ k + j = i
          BY <3>1, <3>2, <4>1 DEF f
        <5> QED
          BY <5>1
      <4>2. CASE j # l
        <5>1. j \in 1..p - k /\ j + 1 \in 1..l
          BY <3>1, <4>2
        <5> QED
          BY <2>1, <3>2, <5>1
      <4> QED
        BY <4>1, <4>2
    <3>5. 1 \in 1..l
      BY <3>1
    <3> HIDE DEF long
    <3> QED
      BY <2>1, <2>5, <3>1, <3>2, <3>3, <3>4, <3>5
  <2> QED
    BY <2>8, <2>9
<1> HIDE DEF Good
<1>9. Good(n)
  <2> DEFINE S == {i \in 0..n : Good(i)}
  <2>1. 0 \in S
    BY <1>0, <1>7
  <2>2. \A i \in 1..n : i - 1 \in S => i \in S
    BY <1>4, <1>8
  <2> HIDE DEF S
  <2>3. n \in S
    BY <1>0, <2>1, <2>2, InductUpTo
  <2> QED
    BY <2>3 DEF S
<1> DEFINE tok == Split(str, FieldSep)
<1>10. /\ tok \in Seq(Text) /\ Len(tok) = 1 + (n - k) /\ tok[1] = head
       /\ \A j \in 1..n - k : tok[j + 1] = San(k + j)
  <2>1. Len(tok) = long(n) /\ long(n) = 1 + (n - k)
    BY <1>0, <1>5, <1>9 DEF Good
  <2> QED
    BY <1>5, <1>9, <2>1 DEF Good
<1> HIDE DEF tok
<1>11. NetToHostHeader(str) = m
  <2>1. tok # <<>>
    BY <1>0, <1>10
  <2>2. Len(head) \in {1, 2} /\ head[Len(head)] = m
    <3>1. lead \in Seq(Char) /\ <<m>> \in Seq(Char) /\ Len(<<m>>) = 1 /\ <<m>>[1] = m
      BY <1>1, LeadTypes DEF Text
    <3>2. Len(lead) \in {0, 1}
      BY LeadTypes
    <3>3. Len(head) = Len(lead) + 1 /\ head[Len(lead) + 1] = <<m>>[1]
      BY <3>1, <3>2, ConcatProperties
    <3>4. <<m>>[1] = m
      OBVIOUS
    <3> HIDE DEF head
    <3>5. head[Len(head)] = m
      BY <3>3, <3>4
    <3>6. Len(head) \in {1, 2}
      <4>1. Len(head) = Len(lead) + 1
        BY <3>3
      <4>2. Len(lead) = 0 \/ Len(lead) = 1
        BY <3>2
      <4> DEFINE l == Len(lead)
      <4>3. Len(head) = l + 1 /\ (l = 0 \/ l = 1)
        BY <4>1, <4>2
      <4> HIDE DEF l
      <4>4. Len(head) = 1 \/ Len(head) = 2
        BY <4>3
      <4> QED
        BY <4>4
    <3> QED
      BY <3>5, <3>6
  <2> HIDE DEF head
  <2> QED
    BY <1>10, <2>1, <2>2 DEF NetToHostHeader, Last, tok
<1>12. NetToHostMsg(str) = [i \in 1..n - k |-> Desanitize(tok[i + 1])]
  <2>1. Len(tok) - 1 = n - k
    BY <1>0, <1>10
  <2> QED
    BY <2>1 DEF NetToHostMsg, tok
<1>13. Len(NetToHostMsg(str)) = n - k
  <2>1. n - k \in Nat
    BY <1>0
  <2> QED
    BY <1>12, <2>1
<1>14. ASSUME NEW i \in 1..n - k PROVE NetToHostMsg(str)[i] = Desanitize(args[k + i])
  <2>1. k + i \in 1..n
    BY <1>0
  <2>2. NetToHostMsg(str)[i] = Desanitize(San(k + i))
    BY <1>10, <1>12
  <2> QED
    BY <1>3, <2>1, <2>2
<1> QED
  BY <1>11, <1>13, <1>14 DEF n, Understood

-----------------------------------------------------------------------------
(* The words of a line.                                                    *)

\* Induction over the characters of a string, for a set of strings.
LEMMA TextInduct ==
  ASSUME NEW S, <<>> \in S, \A s \in Text, c \in Char : s \in S => Append(s, c) \in S
  PROVE  Text \subseteq S
<1> SUFFICES ASSUME NEW f \in Text PROVE f \in S
  OBVIOUS
<1> DEFINE n == Len(f)  P(k) == SubSeq(f, 1, k)  R == {k \in 0..n : P(k) \in S}
<1>0. n \in Nat /\ \A k \in 1..n : f[k] \in Char
  BY DEF Text
<1>1. 0 \in R
  <2>1. P(0) = <<>>
    BY SubSeqEmpty
  <2>2. 0 \in 0..n
    BY <1>0
  <2> HIDE DEF P, n
  <2> QED
    BY <2>1, <2>2
<1>2. ASSUME NEW k \in 1..n, k - 1 \in R PROVE k \in R
  <2>1. P(k) = Append(P(k - 1), f[k]) /\ P(k - 1) \in Text
    BY FirstChars
  <2>2. P(k - 1) \in S
    BY <1>2
  <2> HIDE DEF P
  <2>3. P(k) \in S
    BY <1>0, <2>1, <2>2
  <2> QED
    BY <1>0, <2>3
<1>3. n \in R
  <2> HIDE DEF R, n
  <2>1. \A k \in 0..n : k \in R
    BY <1>0, <1>1, <1>2, InductUpTo
  <2> QED
    BY <1>0, <2>1
<1>4. P(n) = f
  BY SubSeqFull DEF Text
<1> QED
  BY <1>3, <1>4

\* Where s is not delim.
Solid(s, delim) == {i \in DOMAIN s : s[i] # delim}

\* The tokens t have two characters at least.
Long(t) == Len(t) > 1 \/ (Len(t) = 1 /\ Len(t[1]) > 1)

\* The tokens of s are not empty and hold no delimiter; there are none, one of one
\* character, or more of either, as there are characters that are no delimiters.
Words(s, delim, t) ==
  /\ \A i \in DOMAIN t : t[i] # <<>> /\ Without(t[i], delim)
  /\ \/ t = <<>> /\ Solid(s, delim) = {}
     \/ \E i \in DOMAIN s : t = << <<s[i]>> >> /\ Solid(s, delim) = {i}
     \/ Long(t) /\ \E i, j \in Solid(s, delim) : i # j

\* One character more keeps what is said of the tokens.
LEMMA WordsNext ==
  ASSUME NEW s \in Text, NEW c \in Char, NEW delim, Words(s, delim, Split(s, delim))
  PROVE  Words(Append(s, c), delim, Split(Append(s, c), delim))
<1> DEFINE w == Append(s, c)  n == Len(s)  t == Split(s, delim)  u == Split(w, delim)
<1>0. /\ n \in Nat /\ w \in Seq(Char) /\ Len(w) = n + 1 /\ w[n + 1] = c /\ DOMAIN s = 1..n
      /\ DOMAIN w = 1..n + 1 /\ (\A i \in 1..n : w[i] = s[i]) /\ (s = <<>> => n = 0)
      /\ (n = 0 => s = <<>>)
  BY AppendProperties, EmptySeq DEF Text
<1>1. t \in Seq(Text) /\ Words(s, delim, t)
  BY SplitType
<1>2. u = IF c = delim THEN t
          ELSE IF s = <<>> \/ s[n] = delim THEN Append(t, <<c>>)
          ELSE [t EXCEPT ![Len(t)] = Append(@, c)]
  BY SplitNext
<1> HIDE DEF w, t, u, n
<1>3. Solid(w, delim) = IF c = delim THEN Solid(s, delim) ELSE Solid(s, delim) \cup {n + 1}
  <2>1. \A i \in 1..n + 1 : i # n + 1 => i \in 1..n
    BY <1>0
  <2>2. \A i \in 1..n : i \in 1..n + 1 /\ i # n + 1
    BY <1>0
  <2> QED
    BY <1>0, <2>1, <2>2 DEF Solid
<1>4. Solid(s, delim) \subseteq 1..n /\ n + 1 \notin Solid(s, delim) /\ n + 1 \in DOMAIN w
  BY <1>0 DEF Solid
<1>5. Len(t) \in Nat /\ \A i \in 1..Len(t) : t[i] \in Text /\ Len(t[i]) \in Nat
                                             /\ t[i] # <<>> /\ Without(t[i], delim) /\ Len(t[i]) # 0
  BY <1>1, EmptySeq DEF Words, Text
<1>6. CASE c = delim
  <2>1. u = t /\ Solid(w, delim) = Solid(s, delim)
    BY <1>2, <1>3, <1>6
  <2>2. \A i \in DOMAIN s : i \in DOMAIN w /\ w[i] = s[i]
    BY <1>0
  <2>3. Words(w, delim, t)
    BY <1>1, <2>1, <2>2 DEF Words
  <2> QED
    BY <2>1, <2>3 DEF u, w
<1>7. CASE c # delim /\ (s = <<>> \/ s[n] = delim)
  <2>1. u = Append(t, <<c>>) /\ Solid(w, delim) = Solid(s, delim) \cup {n + 1}
    BY <1>2, <1>3, <1>7
  <2>2. <<c>> \in Text /\ <<c>> # <<>> /\ Without(<<c>>, delim)
    BY <1>7 DEF Text, Without
  <2>3. u \in Seq(Text) /\ Len(u) = Len(t) + 1 /\ u[Len(t) + 1] = <<c>>
        /\ \A i \in 1..Len(t) : u[i] = t[i]
    BY <1>1, <2>1, <2>2, AppendProperties
  <2>4. ASSUME NEW i \in 1..Len(u) PROVE u[i] # <<>> /\ Without(u[i], delim)
    <3>1. CASE i = Len(t) + 1
      BY <2>2, <2>3, <3>1
    <3>2. CASE i # Len(t) + 1
      <4>1. i \in 1..Len(t)
        BY <1>5, <2>3, <3>2
      <4> QED
        BY <1>5, <2>3, <4>1
    <3> QED
      BY <3>1, <3>2
  <2>5. \/ u = << <<w[n + 1]>> >> /\ Solid(w, delim) = {n + 1}
        \/ Long(u) /\ \E i, j \in Solid(w, delim) : i # j
    <3>1. CASE t = <<>> /\ Solid(s, delim) = {}
      <4>1. u = << <<c>> >>
        BY <2>1, <3>1
      <4> QED
        BY <1>0, <2>1, <3>1, <4>1
    <3>2. CASE t # <<>> /\ Solid(s, delim) # {}
      <4>1. Len(t) # 0
        BY <1>1, <3>2, EmptySeq
      <4>2. Len(u) > 1
        BY <1>5, <2>3, <4>1
      <4>3. PICK i \in Solid(s, delim) : i # n + 1
        BY <1>4, <3>2
      <4> QED
        BY <2>1, <4>2, <4>3 DEF Long
    <3>3. t = <<>> <=> Solid(s, delim) = {}
      <4>1. \A i : << <<s[i]>> >> # <<>>
        OBVIOUS
      <4>2. Long(<<>>) = FALSE
        BY DEF Long
      <4> QED
        BY <1>1, <4>1, <4>2 DEF Words
    <3> QED
      BY <3>1, <3>2, <3>3
  <2>6. DOMAIN u = 1..Len(u)
    BY <2>3
  <2>7. Words(w, delim, u)
    BY <1>4, <2>4, <2>5, <2>6 DEF Words
  <2> QED
    BY <2>7 DEF u, w
<1>8. CASE c # delim /\ s # <<>> /\ s[n] # delim
  <2> DEFINE l == Len(t)  v == Append(t[l], c)
  <2>1. n \in Solid(s, delim)
    BY <1>0, <1>8 DEF Solid
  <2>2. t # <<>> /\ l \in 1..l
    <3>1. t # <<>>
      BY <1>1, <2>1 DEF Words, Long
    <3> QED
      BY <1>1, <1>5, <3>1, EmptySeq
  <2>3. v \in Text /\ Len(v) = Len(t[l]) + 1 /\ Len(v) > 1 /\ v # <<>>
    <3>1. t[l] \in Seq(Char) /\ Len(t[l]) \in Nat /\ Len(t[l]) # 0
      BY <1>5, <2>2 DEF Text
    <3> QED
      BY <3>1, AppendProperties DEF Text
  <2>4. Without(v, delim)
    <3>1. t[l] \in Text /\ Without(t[l], delim)
      BY <1>5, <2>2
    <3> DEFINE x == t[l]
    <3> HIDE DEF x
    <3>2. x \in Seq(Char) /\ Len(x) \in Nat /\ \A i \in 1..Len(x) : x[i] # delim
      BY <3>1 DEF Text, Without, x
    <3> DEFINE y == Append(x, c)
    <3>3. y \in Seq(Char) /\ Len(y) = Len(x) + 1 /\ y[Len(x) + 1] = c /\ \A i \in 1..Len(x) : y[i] = x[i]
      BY <3>2, AppendProperties
    <3> HIDE DEF y
    <3>4. \A i \in 1..Len(y) : y[i] # delim
      BY <1>8, <3>2, <3>3
    <3>5. Without(y, delim)
      BY <3>3, <3>4 DEF Without
    <3> QED
      BY <3>5 DEF x, y
  <2>5. u = [t EXCEPT ![l] = v]
    BY <1>2, <1>8
  <2> HIDE DEF v, l
  <2>6. u \in Seq(Text) /\ Len(u) = Len(t) /\ \A j \in 1..Len(t) : u[j] = IF j = l THEN v ELSE t[j]
    BY <1>1, <2>2, <2>3, <2>5, ExceptSeq DEF l
  <2>7. ASSUME NEW i \in 1..Len(u) PROVE u[i] # <<>> /\ Without(u[i], delim)
    BY <1>5, <2>3, <2>4, <2>6
  <2>8. Long(u)
    <3>1. CASE Len(t) = 1
      <4>1. u[1] = v
        BY <2>6, <3>1 DEF l
      <4> QED
        BY <2>3, <2>6, <3>1, <4>1 DEF Long
    <3>2. CASE Len(t) # 1
      BY <1>5, <2>2, <2>6, <3>2 DEF Long, l
    <3> QED
      BY <3>1, <3>2
  <2>9. \E i, j \in Solid(w, delim) : i # j
    BY <1>3, <1>4, <1>8, <2>1
  <2>10. Words(w, delim, u)
    <3>1. DOMAIN u = 1..Len(u)
      BY <2>6
    <3> QED
      BY <2>7, <2>8, <2>9, <3>1 DEF Words
  <2> QED
    BY <2>10 DEF u, w
<1> QED
  BY <1>6, <1>7, <1>8

\* The tokens of any string.
LEMMA WordsOf ==
  ASSUME NEW s \in Text, NEW delim
  PROVE  Words(s, delim, Split(s, delim))
<1> DEFINE S == {f \in Text : Words(f, delim, Split(f, delim))}
<1>1. <<>> \in S
  <2>1. Solid(<<>>, delim) = {} /\ <<>> \in Text /\ DOMAIN <<>> = {}
    BY DEF Solid, Text
  <2>2. Words(<<>>, delim, <<>>)
    BY <2>1 DEF Words
  <2> QED
    BY <2>1, <2>2, SplitEmpty
<1>2. \A f \in Text, c \in Char : f \in S => Append(f, c) \in S
  <2>1. \A f \in Text, c \in Char : Append(f, c) \in Text
    BY AppendProperties DEF Text
  <2> QED
    BY <2>1, WordsNext
<1> HIDE DEF S
<1>3. Text \subseteq S
  BY <1>1, <1>2, TextInduct
<1> QED
  BY <1>3 DEF S

\* What join has made of the first tokens, for each number of them.
IsJoin(tokens, delim, pos, g) ==
  g = [i \in 0..Len(tokens) |->
         IF i <= pos THEN <<>>
         ELSE IF i = pos + 1 THEN tokens[i]
         ELSE g[i - 1] \o <<delim>> \o tokens[i]]

\* What join makes of tokens is a string, and not empty when there are tokens.
LEMMA Joined ==
  ASSUME NEW tokens \in Seq(Text), NEW delim \in Char, NEW pos \in Nat,
         \A i \in 1..Len(tokens) : tokens[i] # <<>>
  PROVE  /\ Join(tokens, delim, pos) \in Text
         /\ Join(tokens, delim, pos) = <<>> <=> Len(tokens) <= pos
<1> DEFINE n == Len(tokens)  x == <<>>
           Next1(i, t) == IF i <= pos THEN <<>>
                          ELSE IF i = pos + 1 THEN tokens[i] ELSE t \o <<delim>> \o tokens[i]
           step == [p \in (1..n) \X Text |-> Next1(p[1], p[2])]
<1>0. n \in Nat /\ (\A i \in 1..n : tokens[i] \in Text) /\ x \in Text
  BY DEF Text
<1>1. ASSUME NEW i \in 1..n, NEW t \in Text
      PROVE  Next1(i, t) \in Text /\ (Next1(i, t) = <<>> <=> i <= pos)
  <2>1. t \in Seq(Char) /\ <<delim>> \in Seq(Char) /\ tokens[i] \in Seq(Char)
    BY <1>0 DEF Text
  <2>2. t \o <<delim>> \in Seq(Char)
    BY <2>1, ConcatProperties
  <2> DEFINE a == t \o <<delim>>
  <2> HIDE DEF a
  <2>3. a \in Seq(Char)
    BY <2>2 DEF a
  <2>4. a \o tokens[i] \in Seq(Char) /\ (a \o tokens[i] = <<>> => tokens[i] = <<>>)
    BY <2>1, <2>3, ConcatProperties, ConcatEqualIffEmpty
  <2> QED
    BY <2>1, <2>4 DEF Text, a
<1>2. step \in [(1..n) \X Text -> Text]
  <2> HIDE DEF Next1
  <2>1. \A p \in (1..n) \X Text : p[1] \in 1..n /\ p[2] \in Text
    OBVIOUS
  <2> QED
    BY <1>1, <2>1
<1>3. PICK f \in [0..n -> Text] : Iterates(f, n, x, step)
  <2> HIDE DEF step, n, x
  <2> QED
    BY <1>0, <1>2, Recursion
<1>4. \A i \in 1..n : i # 0 /\ i - 1 \in 0..n /\ i \in 0..n
  BY <1>0
<1>5. 0 \in 0..n /\ \A i \in 0..n : i = 0 => i <= pos
  BY <1>0
<1>6. IsJoin(tokens, delim, pos, f)
  <2>1. \A i \in 1..n : f[i] = Next1(i, f[i - 1])
    BY <1>3, <1>4 DEF Iterates
  <2>2. f[0] = <<>>
    BY <1>3 DEF Iterates
  <2>3. \A i \in 0..n : i = 0 \/ i \in 1..n
    BY <1>0
  <2>4. \A i \in 0..n : f[i] = Next1(i, f[i - 1])
    BY <1>5, <2>1, <2>2, <2>3
  <2> QED
    BY <2>4 DEF IsJoin
<1> DEFINE h == CHOOSE g : IsJoin(tokens, delim, pos, g)
<1>7. IsJoin(tokens, delim, pos, h)
  BY <1>6
<1>8. Join(tokens, delim, pos) = h[n]
  BY DEF Join, IsJoin
<1> HIDE DEF h
<1>9. \A i \in 0..n : h[i] = Next1(i, h[i - 1])
  BY <1>7 DEF IsJoin
<1>10. \A i \in 0..n : h[i] \in Text /\ (h[i] = <<>> <=> i <= pos)
  <2> DEFINE S == {i \in 0..n : h[i] \in Text /\ (h[i] = <<>> <=> i <= pos)}
  <2>1. 0 \in S
    <3>1. h[0] = <<>>
      BY <1>5, <1>9
    <3> QED
      BY <1>0, <1>5, <3>1
  <2>2. ASSUME NEW i \in 1..n, i - 1 \in S PROVE i \in S
    <3>1. h[i] = Next1(i, h[i - 1]) /\ h[i - 1] \in Text
      BY <1>4, <1>9, <2>2
    <3> HIDE DEF Next1
    <3> QED
      BY <1>1, <1>4, <3>1
  <2> HIDE DEF S, n
  <2>3. \A i \in 0..n : i \in S
    BY <1>0, <2>1, <2>2, InductUpTo
  <2> QED
    BY <2>3 DEF S
<1> QED
  <2>1. n \in 0..n
    BY <1>0
  <2> QED
    BY <1>8, <1>10, <2>1

-----------------------------------------------------------------------------
(* The two tests for exit.                                                 *)

\* A set of indices has a first and a last one.
LEMMA Extremes ==
  ASSUME NEW n \in Nat, NEW T \in SUBSET (1..n), T # {}
  PROVE  /\ Min(T) \in T /\ Max(T) \in T
         /\ \A x \in T : Min(T) <= x /\ x <= Max(T)
<1> DEFINE Ends(U) == \E lo, hi \in U : \A x \in U : lo <= x /\ x <= hi
           S == {k \in 0..n : \A U \in SUBSET (1..k) : U # {} => Ends(U)}
<1>1. 0 \in S
  <2>1. 0 \in 0..n /\ \A U \in SUBSET (1..0) : U = {}
    OBVIOUS
  <2> HIDE DEF Ends
  <2> QED
    BY <2>1
<1>2. ASSUME NEW k \in 1..n, k - 1 \in S PROVE k \in S
  <2>1. ASSUME NEW U \in SUBSET (1..k), U # {} PROVE Ends(U)
    <3> DEFINE V == U \ {k}
    <3>1. V \in SUBSET (1..k - 1)
      OBVIOUS
    <3>2. CASE V = {}
      <4>1. U = {k}
        BY <2>1, <3>2
      <4> QED
        BY <4>1
    <3>3. CASE V # {}
      <4>1. PICK lo, hi \in V : \A x \in V : lo <= x /\ x <= hi
        BY <1>2, <3>1, <3>3
      <4>2. CASE k \in U
        <5>1. \A x \in U : lo <= x /\ x <= k
          BY <3>1, <4>1, <4>2
        <5> QED
          BY <4>1, <4>2, <5>1
      <4>3. CASE k \notin U
        <5>1. V = U
          BY <4>3
        <5> QED
          BY <4>1, <5>1
      <4> QED
        BY <4>2, <4>3
    <3> QED
      BY <3>2, <3>3
  <2> HIDE DEF Ends
  <2> QED
    BY <2>1
<1>3. n \in S
  <2> HIDE DEF S
  <2>1. \A k \in 0..n : k \in S
    BY <1>1, <1>2, InductUpTo
  <2> QED
    BY <2>1
<1>4. PICK lo, hi \in T : \A x \in T : lo <= x /\ x <= hi
  BY <1>3
<1>5. T \subseteq Int
  OBVIOUS
<1>6. Min(T) \in T /\ \A x \in T : Min(T) <= x
  BY <1>4 DEF Min
<1>7. Max(T) \in T /\ \A x \in T : x <= Max(T)
  BY <1>4, <1>5 DEF Max
<1> QED
  BY <1>6, <1>7

\* Only a string of one character has the lower case of one.
LEMMA LowerWord ==
  ASSUME NEW s \in Text, NEW c, Lower(s) = <<c>>
  PROVE  Len(s) = 1
<1>1. s \in Seq(Char) /\ Len(s) \in Nat /\ DOMAIN s = 1..Len(s)
  BY DEF Text
<1>2. DOMAIN Lower(s) = 1..Len(s)
  BY <1>1 DEF Lower
<1>3. DOMAIN <<c>> = {1}
  OBVIOUS
<1>4. 1..Len(s) = {1}
  BY <1>2, <1>3
<1> QED
  BY <1>1, <1>4

\* A line is the word exit when it is trimmed if and only if it is split into
\* that one word.
LEMMA ExitWord ==
  ASSUME NEW l \in Text, NEW w, w = Split(l, Space)
  PROVE  EndsLoop(l) <=> Len(w) = 1 /\ Lower(w[1]) = <<"exit">>
<1> DEFINE n == Len(l)  T == Solid(l, Space)
<1>0. n \in Nat /\ l \in Seq(Char) /\ T \in SUBSET (1..n) /\ w \in Seq(Text)
  BY SplitType DEF Text, Solid
<1>1. Trim(l) = IF T = {} THEN <<>> ELSE SubSeq(l, Min(T), Max(T))
  BY DEF Trim, Solid
<1>2. Words(l, Space, w)
  BY WordsOf
<1> HIDE DEF n, T
<1>3. CASE w = <<>> /\ T = {}
  <2>1. Trim(l) = <<>> /\ <<>> \in Text /\ Len(<<>>) = 0
    BY <1>1, <1>3 DEF Text
  <2>2. Lower(Trim(l)) # <<"exit">>
    BY <2>1, LowerWord
  <2> QED
    BY <1>3, <2>1, <2>2 DEF EndsLoop
<1>4. ASSUME NEW i \in DOMAIN l, w = << <<l[i]>> >>, T = {i}
      PROVE  EndsLoop(l) <=> Len(w) = 1 /\ Lower(w[1]) = <<"exit">>
  <2>1. i \in 1..n /\ l[i] \in Char /\ i \in Int
    BY <1>0 DEF n
  <2>2. Min(T) = i /\ Max(T) = i
    BY <1>0, <1>4, Extremes
  <2>3. SubSeq(l, i, i) = <<l[i]>>
    <3> DEFINE a == SubSeq(l, i, i)  b == <<l[i]>>
    <3>1. a \in Seq(Char) /\ Len(a) = 1 /\ \A k \in 1..1 : a[k] = l[i + k - 1]
      <4>1. i - i + 1 = 1 /\ i <= i /\ \A x \in i..i : l[x] \in Char
        BY <2>1
      <4> QED
        BY <2>1, <4>1, SubSeqProperties
    <3>2. b \in Seq(Char) /\ Len(b) = 1 /\ b[1] = l[i] /\ i + 1 - 1 = i
      BY <2>1
    <3> HIDE DEF a, b
    <3>3. a[1] = b[1]
      BY <3>1, <3>2
    <3>4. a = b
      BY <3>1, <3>2, <3>3, SeqEqual
    <3> QED
      BY <3>4 DEF a, b
  <2>4. Trim(l) = <<l[i]>>
    BY <1>1, <1>4, <2>2, <2>3
  <2>5. Len(w) = 1 /\ w[1] = <<l[i]>>
    BY <1>4
  <2> QED
    BY <2>4, <2>5 DEF EndsLoop
<1>5. ASSUME Long(w), NEW i \in T, NEW j \in T, i # j
      PROVE  EndsLoop(l) <=> Len(w) = 1 /\ Lower(w[1]) = <<"exit">>
  <2> DEFINE lo == Min(T)  hi == Max(T)  u == SubSeq(l, lo, hi)
  <2>1. lo \in T /\ hi \in T /\ \A x \in T : lo <= x /\ x <= hi
    BY <1>0, <1>5, Extremes
  <2> HIDE DEF lo, hi
  <2>2. lo \in 1..n /\ hi \in 1..n /\ lo < hi
    <3>1. lo <= i /\ i <= hi /\ lo <= j /\ j <= hi /\ lo \in 1..n /\ hi \in 1..n /\ i \in Int /\ j \in Int
      BY <1>0, <1>5, <2>1
    <3> QED
      BY <1>5, <3>1
  <2>3. u \in Seq(Char) /\ Len(u) = hi - lo + 1
    <3>1. \A x \in lo..hi : l[x] \in Char
      BY <1>0, <2>2 DEF n
    <3> QED
      BY <1>0, <2>2, <3>1, SubSeqProperties
  <2>4. Trim(l) = u
    BY <1>1, <1>5 DEF lo, hi
  <2> HIDE DEF u
  <2>5. Lower(Trim(l)) # <<"exit">>
    <3>1. Len(u) # 1
      BY <1>0, <2>2, <2>3
    <3> QED
      BY <2>3, <2>4, <3>1, LowerWord DEF Text
  <2>6. ~(Len(w) = 1 /\ Lower(w[1]) = <<"exit">>)
    <3>1. SUFFICES ASSUME Len(w) = 1, Lower(w[1]) = <<"exit">> PROVE FALSE
      OBVIOUS
    <3>2. w[1] \in Text /\ Len(w[1]) > 1 /\ Len(w[1]) \in Nat
      <4>0. Len(w[1]) > 1
        BY <1>5, <3>1 DEF Long
      <4>3. \A k \in 1..Len(w) : w[k] \in Text
        BY <1>0
      <4>1. w[1] \in Text /\ Len(w[1]) > 1
        BY <3>1, <4>0, <4>3
      <4>2. w[1] \in Seq(Char)
        BY <4>1 DEF Text
      <4> QED
        BY <4>1, <4>2
    <3>3. Len(w[1]) = 1
      BY <3>1, <3>2, LowerWord
    <3> QED
      BY <3>2, <3>3
  <2> QED
    BY <2>5, <2>6 DEF EndsLoop
<1> QED
  BY <1>2, <1>3, <1>4, <1>5 DEF Words, T

-----------------------------------------------------------------------------
(* What is understood of a message, by the number of its fields.           *)

\* A code alone: EXIT, WHO and most answers.
LEMMA NoFields ==
  ASSUME NEW m \in MessageCodes, NEW lead \in Leads, NEW str, str = Content(HostToNetMsg(m, <<>>), lead)
  PROVE  NetToHostHeader(str) = m
<1> DEFINE args == <<>>
<1>1. args \in Seq(Text) /\ Len(args) = 0 /\ 0 \in 0..Len(args)
  OBVIOUS
<1>2. \A i \in 1..Len(args) : args[i] = <<>> <=> i <= 0
  BY <1>1
<1>3. str = Content(HostToNetMsg(m, args), lead)
  OBVIOUS
<1> HIDE DEF args
<1>4. args \in Seq(Text)
  BY <1>1
<1> DEFINE k == 0
<1>5. k \in 0..Len(args) /\ \A i \in 1..Len(args) : args[i] = <<>> <=> i <= k
  BY <1>1, <1>2
<1> HIDE DEF k
<1> QED
  BY <1>3, <1>4, <1>5, Received DEF Understood

\* A code with a name, a group, an identifier or the table.
LEMMA OneField ==
  ASSUME NEW m \in MessageCodes, NEW lead \in Leads, NEW a \in Text,
         NEW str, str = Content(HostToNetMsg(m, <<a>>), lead)
  PROVE  /\ NetToHostHeader(str) = m
         /\ NetToHostField(str) = Desanitize(a) /\ NetToHostJoinGroup(str) = Desanitize(a)
         /\ a # <<>> => NetToHostId(str) = Desanitize(a)
<1> DEFINE args == <<a>>  t == NetToHostMsg(str)
<1>1. args \in Seq(Text) /\ Len(args) = 1 /\ args[1] = a
  OBVIOUS
<1>2. str = Content(HostToNetMsg(m, args), lead)
  OBVIOUS
<1> HIDE DEF args
<1>3. CASE a = <<>>
  <2> DEFINE k == 1
  <2>0. args \in Seq(Text)
    BY <1>1
  <2>1. k \in 0..Len(args) /\ \A i \in 1..Len(args) : args[i] = <<>> <=> i <= k
    BY <1>1, <1>3
  <2>2. NetToHostHeader(str) = m /\ Len(t) = Len(args) - k
    <3> HIDE DEF k
    <3>1. Understood(str, m, args, k)
      BY <1>2, <2>0, <2>1, Received
    <3> QED
      BY <3>1 DEF Understood
  <2>3. Len(t) = 0
    BY <1>1, <2>2
  <2>4. Desanitize(a) = <<>>
    BY <1>3, Desanitized
  <2> HIDE DEF t
  <2> QED
    BY <1>3, <2>2, <2>3, <2>4 DEF NetToHostField, NetToHostJoinGroup, t
<1>4. CASE a # <<>>
  <2> DEFINE k == 0
  <2>0. args \in Seq(Text)
    BY <1>1
  <2>1. k \in 0..Len(args) /\ \A i \in 1..Len(args) : args[i] = <<>> <=> i <= k
    BY <1>1, <1>4
  <2>2. NetToHostHeader(str) = m /\ Len(t) = Len(args) - k
        /\ \A i \in 1..Len(args) - k : t[i] = Desanitize(args[k + i])
    <3> HIDE DEF k
    <3>1. Understood(str, m, args, k)
      BY <1>2, <2>0, <2>1, Received
    <3> QED
      BY <3>1 DEF Understood
  <2>3. Len(t) = 1 /\ t[1] = Desanitize(a)
    BY <1>1, <2>2
  <2>4. Desanitize(Desanitize(a)) = Desanitize(a)
    BY Desanitized
  <2> HIDE DEF t
  <2> QED
    BY <2>2, <2>3, <2>4 DEF NetToHostField, NetToHostJoinGroup, NetToHostId, t
<1> QED
  BY <1>3, <1>4

\* A code with two fields that are not empty: SEND_GROUP.
LEMMA TwoFields ==
  ASSUME NEW m \in MessageCodes, NEW lead \in Leads, NEW a \in Text, NEW b \in Text,
         a # <<>>, b # <<>>, NEW str, str = Content(HostToNetMsg(m, <<a, b>>), lead)
  PROVE  /\ NetToHostHeader(str) = m
         /\ NetToHostSendGroup(str) = [group |-> Desanitize(a), content |-> Desanitize(b)]
<1> DEFINE args == <<a, b>>  t == NetToHostMsg(str)
<1>1. args \in Seq(Text) /\ Len(args) = 2 /\ args[1] = a /\ args[2] = b
  OBVIOUS
<1>2. str = Content(HostToNetMsg(m, args), lead)
  OBVIOUS
<1> HIDE DEF args
<1> DEFINE k == 0
<1>0. args \in Seq(Text)
  BY <1>1
<1>3. k \in 0..Len(args) /\ \A i \in 1..Len(args) : args[i] = <<>> <=> i <= k
  BY <1>1
<1>4. NetToHostHeader(str) = m /\ Len(t) = Len(args) - k
      /\ \A i \in 1..Len(args) - k : t[i] = Desanitize(args[k + i])
  <2> HIDE DEF k
  <2>1. Understood(str, m, args, k)
    BY <1>0, <1>2, <1>3, Received
  <2> QED
    BY <2>1 DEF Understood
<1>5. Len(t) = 2 /\ t[1] = Desanitize(a) /\ t[2] = Desanitize(b)
  BY <1>1, <1>4
<1> HIDE DEF t
<1> QED
  BY <1>4, <1>5 DEF NetToHostSendGroup, t

\* A text whose source is empty has two fields only, and is no message.
LEMMA ThreeFields ==
  ASSUME NEW m \in MessageCodes, NEW lead \in Leads, NEW a \in Text, NEW b \in Text, NEW c \in Text,
         b # <<>>, c # <<>>, NEW str, str = Content(HostToNetMsg(m, <<a, b, c>>), lead)
  PROVE  /\ NetToHostHeader(str) = m
         /\ NetToHostSendMsg(str) =
              IF a = <<>> THEN NoMessage
              ELSE Message(Desanitize(a), Desanitize(b), Desanitize(c), <<>>)
<1> DEFINE args == <<a, b, c>>  t == NetToHostMsg(str)
<1>1. args \in Seq(Text) /\ Len(args) = 3 /\ args[1] = a /\ args[2] = b /\ args[3] = c
  OBVIOUS
<1>2. str = Content(HostToNetMsg(m, args), lead)
  OBVIOUS
<1> HIDE DEF args
<1>3. CASE a = <<>>
  <2> DEFINE k == 1
  <2>0. args \in Seq(Text)
    BY <1>1
  <2>1. k \in 0..Len(args) /\ \A i \in 1..Len(args) : args[i] = <<>> <=> i <= k
    BY <1>1, <1>3
  <2>2. NetToHostHeader(str) = m /\ Len(t) = Len(args) - k
    <3> HIDE DEF k
    <3>1. Understood(str, m, args, k)
      BY <1>2, <2>0, <2>1, Received
    <3> QED
      BY <3>1 DEF Understood
  <2>3. Len(t) = 2
    BY <1>1, <2>2
  <2> HIDE DEF t
  <2> QED
    BY <1>3, <2>2, <2>3 DEF NetToHostSendMsg, t
<1>4. CASE a # <<>>
  <2> DEFINE k == 0
  <2>0. args \in Seq(Text)
    BY <1>1
  <2>1. k \in 0..Len(args) /\ \A i \in 1..Len(args) : args[i] = <<>> <=> i <= k
    BY <1>1, <1>4
  <2>2. NetToHostHeader(str) = m /\ Len(t) = Len(args) - k
        /\ \A i \in 1..Len(args) - k : t[i] = Desanitize(args[k + i])
    <3> HIDE DEF k
    <3>1. Understood(str, m, args, k)
      BY <1>2, <2>0, <2>1, Received
    <3> QED
      BY <3>1 DEF Understood
  <2>3. Len(t) = 3 /\ t[1] = Desanitize(a) /\ t[2] = Desanitize(b) /\ t[3] = Desanitize(c)
    BY <1>1, <2>2
  <2> HIDE DEF t
  <2> QED
    BY <1>4, <2>2, <2>3 DEF NetToHostSendMsg, t
<1> QED
  BY <1>3, <1>4

\* A file whose source is empty has three fields only, and is no message.
LEMMA FourFields ==
  ASSUME NEW m \in MessageCodes, NEW lead \in Leads,
         NEW a \in Text, NEW b \in Text, NEW c \in Text, NEW d \in Text,
         b # <<>>, c # <<>>, d # <<>>, NEW str, str = Content(HostToNetMsg(m, <<a, b, c, d>>), lead)
  PROVE  /\ NetToHostHeader(str) = m
         /\ NetToHostSendFile(str) =
              IF a = <<>> THEN NoMessage
              ELSE Message(Desanitize(a), Desanitize(b), Desanitize(c), Desanitize(d))
<1> DEFINE args == <<a, b, c, d>>  t == NetToHostMsg(str)
<1>1. args \in Seq(Text) /\ Len(args) = 4
      /\ args[1] = a /\ args[2] = b /\ args[3] = c /\ args[4] = d
  OBVIOUS
<1>2. str = Content(HostToNetMsg(m, args), lead)
  OBVIOUS
<1> HIDE DEF args
<1>3. CASE a = <<>>
  <2> DEFINE k == 1
  <2>0. args \in Seq(Text)
    BY <1>1
  <2>1. k \in 0..Len(args) /\ \A i \in 1..Len(args) : args[i] = <<>> <=> i <= k
    BY <1>1, <1>3
  <2>2. NetToHostHeader(str) = m /\ Len(t) = Len(args) - k
    <3> HIDE DEF k
    <3>1. Understood(str, m, args, k)
      BY <1>2, <2>0, <2>1, Received
    <3> QED
      BY <3>1 DEF Understood
  <2>3. Len(t) = 3
    BY <1>1, <2>2
  <2> HIDE DEF t
  <2> QED
    BY <1>3, <2>2, <2>3 DEF NetToHostSendFile, t
<1>4. CASE a # <<>>
  <2> DEFINE k == 0
  <2>0. args \in Seq(Text)
    BY <1>1
  <2>1. k \in 0..Len(args) /\ \A i \in 1..Len(args) : args[i] = <<>> <=> i <= k
    BY <1>1, <1>4
  <2>2. NetToHostHeader(str) = m /\ Len(t) = Len(args) - k
        /\ \A i \in 1..Len(args) - k : t[i] = Desanitize(args[k + i])
    <3> HIDE DEF k
    <3>1. Understood(str, m, args, k)
      BY <1>2, <2>0, <2>1, Received
    <3> QED
      BY <3>1 DEF Understood
  <2>3. Len(t) = 4 /\ t[1] = Desanitize(a) /\ t[2] = Desanitize(b) /\ t[3] = Desanitize(c)
        /\ t[4] = Desanitize(d)
    BY <1>1, <2>2
  <2> HIDE DEF t
  <2> QED
    BY <1>4, <2>2, <2>3 DEF NetToHostSendFile, t
<1> QED
  BY <1>3, <1>4

\* No frame is empty, and all are strings.
LEMMA FrameType ==
  ASSUME NEW m \in MessageCodes, NEW args \in Seq(Text)
  PROVE  HostToNetMsg(m, args) \in Text /\ HostToNetMsg(m, args) # <<>>
<1>1. m \in Char /\ Len(args) \in 0..Len(args)
  BY CodeChars
<1>2. PICK g : (\A i \in 0..Len(args) : g[i] \in Text) /\ HostToNetMsg(m, args) = Append(g[Len(args)], MsgSep)
  BY <1>1, FrameFields
<1>3. g[Len(args)] \in Seq(Char)
  BY <1>1, <1>2 DEF Text
<1> QED
  BY <1>2, <1>3, Characters, AppendProperties DEF Text

-----------------------------------------------------------------------------
(* A line, and what the server takes it for.                               *)

\* The name that a client with these arguments is registered with.
Own == IF name = <<>> THEN Unregistered ELSE Desanitize(name)

\* The words of a line, and the rest of it behind the second word.
LEMMA LineWords ==
  ASSUME NEW l \in Text, NEW w, w = Split(l, Space)
  PROVE  /\ w \in Seq(Text) /\ Len(w) \in Nat
         /\ \A i \in 1..Len(w) : w[i] \in Text /\ w[i] # <<>> /\ Without(w[i], Space)
         /\ Join(w, Space, 2) \in Text /\ (Join(w, Space, 2) = <<>> <=> Len(w) <= 2)
<1>1. w \in Seq(Text) /\ Len(w) \in Nat /\ DOMAIN w = 1..Len(w)
  BY SplitType
<1>2. \A i \in 1..Len(w) : w[i] \in Text /\ w[i] # <<>> /\ Without(w[i], Space)
  BY <1>1, WordsOf DEF Words
<1>3. Join(w, Space, 2) \in Text /\ (Join(w, Space, 2) = <<>> <=> Len(w) <= 2)
  BY <1>1, <1>2, Characters, Joined
<1> QED
  BY <1>1, <1>2, <1>3

\* A command, the words it has and the request it becomes.
IsCommand(l, up_, user) ==
  LET w == Split(l, Space)  n == Len(w)  rest == Join(w, Space, 2)  file == FileToStr(rest) IN
  \/ n = 1 /\ Lower(w[1]) = <<"exit">> /\ up_ = HostToNetMsg("EXIT", <<>>)
  \/ n = 1 /\ Lower(w[1]) = <<"who">> /\ up_ = HostToNetMsg("WHO", <<>>)
  \/ n = 2 /\ Lower(w[1]) = <<"joing">> /\ up_ = HostToNetMsg("JOIN_GROUP", <<w[2]>>)
  \/ n = 2 /\ Lower(w[1]) = <<"createg">> /\ up_ = HostToNetMsg("CREATE_GROUP", <<w[2]>>)
  \/ n >= 3 /\ Lower(w[1]) = <<"sendmsg">> /\ up_ = HostToNetMsg("SEND_MSG", <<user, w[2], rest>>)
  \/ n >= 3 /\ Lower(w[1]) = <<"sendg">> /\ up_ = HostToNetMsg("SEND_GROUP", <<w[2], rest>>)
  \/ n >= 3 /\ Lower(w[1]) = <<"sendf">> /\ file # <<>>
       /\ up_ = HostToNetMsg("SEND_FILE", <<user, w[2], file, rest>>)

\* A line that becomes a request is one of the seven commands.
LEMMA Commanded ==
  ASSUME NEW l \in Text, NEW user, CmdToNetMsg(l, user) # <<>>
  PROVE  IsCommand(l, CmdToNetMsg(l, user), user)
<1> DEFINE w == Split(l, Space)  n == Len(w)  arg1 == IF n = 0 THEN <<>> ELSE Lower(w[1])
<1>1. arg1 # <<>> => arg1 = Lower(w[1])
  OBVIOUS
<1>2. <<"exit">> # <<>> /\ <<"who">> # <<>> /\ <<"joing">> # <<>> /\ <<"createg">> # <<>>
      /\ <<"sendmsg">> # <<>> /\ <<"sendg">> # <<>> /\ <<"sendf">> # <<>>
  OBVIOUS
<1> QED
  BY <1>1, <1>2 DEF CmdToNetMsg, IsCommand, HostToNetJoinGroup, HostToNetCreateGroup, HostToNetSendMsg,
       HostToNetSendGroup, HostToNetSendFile, Message

\* What the words of a command ask for.
Asked(l, r) ==
  LET w == Split(l, Space)  n == Len(w)  rest == Desanitize(Join(w, Space, 2))
      file == Desanitize(FileToStr(Join(w, Space, 2)))
      to   == Desanitize(w[2])
  IN
  \/ n = 1 /\ Lower(w[1]) = <<"exit">> /\ r = Request("EXIT", NoMessage)
  \/ n = 1 /\ Lower(w[1]) = <<"who">> /\ r = Request("WHO", NoMessage)
  \/ n = 2 /\ Lower(w[1]) = <<"joing">> /\ r = Request("JOIN_GROUP", Message(Own, to, <<>>, <<>>))
  \/ n = 2 /\ Lower(w[1]) = <<"createg">> /\ r = Request("CREATE_GROUP", Message(Own, to, <<>>, <<>>))
  \/ n >= 3 /\ Lower(w[1]) = <<"sendmsg">>
       /\ r = IF name = <<>> THEN InvalidRequest ELSE Request("SEND_MSG", Message(Own, to, rest, <<>>))
  \/ n >= 3 /\ Lower(w[1]) = <<"sendg">> /\ r = Request("SEND_GROUP", Message(Own, to, rest, <<>>))
  \/ n >= 3 /\ Lower(w[1]) = <<"sendf">> /\ FileToStr(Join(w, Space, 2)) # <<>>
       /\ r = IF name = <<>> THEN InvalidRequest ELSE Request("SEND_FILE", Message(Own, to, file, rest))

\* What is read of a file.
LEMMA FileType ==
  ASSUME NEW path
  PROVE  FileToStr(path) \in Text /\ (FileToStr(path) # <<>> => FileToStr(path) = FileAt[path])
<1>1. \A p \in DOMAIN FileAt : FileAt[p] \in Seq(Char)
  <2>1. STRING \subseteq Char
    BY DEF Char
  <2> QED
    BY <2>1, CommandsAssumption, SeqMonotonic
<1> QED
  BY <1>1 DEF FileToStr, Text

\* The worker understands the request of a command as its words ask for it.
LEMMA TakenAsAsked ==
  ASSUME name \in Text, registered = Own, NEW l \in Text, NEW lead \in Leads,
         NEW u, IsCommand(l, u, name)
  PROVE  Asked(l, Take(Content(u, lead)))
<1> DEFINE w == Split(l, Space)  n == Len(w)  rest == Join(w, Space, 2)  file == FileToStr(rest)
           str == Content(u, lead)  to == Desanitize(w[2])
<1>1. /\ n \in Nat /\ \A i \in 1..n : w[i] \in Text /\ w[i] # <<>>
      /\ rest \in Text /\ (rest = <<>> <=> n <= 2) /\ file \in Text
  BY LineWords, FileType
<1>2. n >= 2 => w[2] \in Text /\ w[2] # <<>> /\ to # <<>>
  <2>1. n >= 2 => 2 \in 1..n
    BY <1>1
  <2>2. n >= 2 => w[2] \in Text /\ w[2] # <<>>
    BY <1>1, <2>1
  <2> HIDE DEF w
  <2> QED
    BY <2>2, Desanitized
<1>3. name # <<>> => Own = Desanitize(name) /\ Own # <<>>
  BY Desanitized DEF Own
<1>4. "EXIT" \in MessageCodes /\ "WHO" \in MessageCodes /\ "JOIN_GROUP" \in MessageCodes
      /\ "CREATE_GROUP" \in MessageCodes /\ "SEND_MSG" \in MessageCodes
      /\ "SEND_GROUP" \in MessageCodes /\ "SEND_FILE" \in MessageCodes
  BY DEF MessageCodes
<1>5. \/ n = 1 /\ Lower(w[1]) = <<"exit">> /\ u = HostToNetMsg("EXIT", <<>>)
      \/ n = 1 /\ Lower(w[1]) = <<"who">> /\ u = HostToNetMsg("WHO", <<>>)
      \/ n = 2 /\ Lower(w[1]) = <<"joing">> /\ u = HostToNetMsg("JOIN_GROUP", <<w[2]>>)
      \/ n = 2 /\ Lower(w[1]) = <<"createg">> /\ u = HostToNetMsg("CREATE_GROUP", <<w[2]>>)
      \/ n >= 3 /\ Lower(w[1]) = <<"sendmsg">> /\ u = HostToNetMsg("SEND_MSG", <<name, w[2], rest>>)
      \/ n >= 3 /\ Lower(w[1]) = <<"sendg">> /\ u = HostToNetMsg("SEND_GROUP", <<w[2], rest>>)
      \/ n >= 3 /\ Lower(w[1]) = <<"sendf">> /\ file # <<>>
           /\ u = HostToNetMsg("SEND_FILE", <<name, w[2], file, rest>>)
  BY DEF IsCommand
<1>6. Asked(l, Take(str)) <=>
        \/ n = 1 /\ Lower(w[1]) = <<"exit">> /\ Take(str) = Request("EXIT", NoMessage)
        \/ n = 1 /\ Lower(w[1]) = <<"who">> /\ Take(str) = Request("WHO", NoMessage)
        \/ n = 2 /\ Lower(w[1]) = <<"joing">>
             /\ Take(str) = Request("JOIN_GROUP", Message(Own, to, <<>>, <<>>))
        \/ n = 2 /\ Lower(w[1]) = <<"createg">>
             /\ Take(str) = Request("CREATE_GROUP", Message(Own, to, <<>>, <<>>))
        \/ n >= 3 /\ Lower(w[1]) = <<"sendmsg">>
             /\ Take(str) = IF name = <<>> THEN InvalidRequest
                            ELSE Request("SEND_MSG", Message(Own, to, Desanitize(rest), <<>>))
        \/ n >= 3 /\ Lower(w[1]) = <<"sendg">>
             /\ Take(str) = Request("SEND_GROUP", Message(Own, to, Desanitize(rest), <<>>))
        \/ n >= 3 /\ Lower(w[1]) = <<"sendf">> /\ file # <<>>
             /\ Take(str) = IF name = <<>> THEN InvalidRequest
                            ELSE Request("SEND_FILE", Message(Own, to, Desanitize(file), Desanitize(rest)))
  BY DEF Asked
<1> HIDE DEF w, n, rest, file, to, str
<1>7. ASSUME n = 1, Lower(w[1]) = <<"exit">>, u = HostToNetMsg("EXIT", <<>>)
      PROVE  Asked(l, Take(str))
  <2>1. NetToHostHeader(str) = "EXIT"
    BY <1>4, <1>7, NoFields DEF str
  <2>2. Take(str) = Request("EXIT", NoMessage)
    BY <2>1 DEF Take
  <2> QED
    BY <1>6, <1>7, <2>2
<1>8. ASSUME n = 1, Lower(w[1]) = <<"who">>, u = HostToNetMsg("WHO", <<>>)
      PROVE  Asked(l, Take(str))
  <2>1. NetToHostHeader(str) = "WHO"
    BY <1>4, <1>8, NoFields DEF str
  <2>2. Take(str) = Request("WHO", NoMessage)
    BY <2>1 DEF Take
  <2> QED
    BY <1>6, <1>8, <2>2
<1>9. ASSUME n = 2, Lower(w[1]) = <<"joing">>, u = HostToNetMsg("JOIN_GROUP", <<w[2]>>)
      PROVE  Asked(l, Take(str))
  <2>0. w[2] \in Text /\ to # <<>>
    BY <1>2, <1>9
  <2>1. NetToHostHeader(str) = "JOIN_GROUP" /\ NetToHostJoinGroup(str) = to
    BY <1>4, <1>9, <2>0, OneField DEF str, to
  <2>2. Take(str) = Request("JOIN_GROUP", Message(Own, to, <<>>, <<>>))
    BY <2>0, <2>1 DEF Take
  <2> QED
    BY <1>6, <1>9, <2>2
<1>10. ASSUME n = 2, Lower(w[1]) = <<"createg">>, u = HostToNetMsg("CREATE_GROUP", <<w[2]>>)
       PROVE  Asked(l, Take(str))
  <2>0. w[2] \in Text /\ to # <<>>
    BY <1>2, <1>10
  <2>1. NetToHostHeader(str) = "CREATE_GROUP" /\ NetToHostField(str) = to
    BY <1>4, <1>10, <2>0, OneField DEF str, to
  <2>2. Take(str) = Request("CREATE_GROUP", Message(Own, to, <<>>, <<>>))
    BY <2>0, <2>1 DEF Take
  <2> QED
    BY <1>6, <1>10, <2>2
<1>11. ASSUME n >= 3, Lower(w[1]) = <<"sendmsg">>, u = HostToNetMsg("SEND_MSG", <<name, w[2], rest>>)
       PROVE  Asked(l, Take(str))
  <2>0. w[2] \in Text /\ w[2] # <<>> /\ rest \in Text /\ rest # <<>>
    BY <1>1, <1>2, <1>11
  <2>1. NetToHostHeader(str) = "SEND_MSG"
        /\ NetToHostSendMsg(str) = IF name = <<>> THEN NoMessage
                                   ELSE Message(Desanitize(name), to, Desanitize(rest), <<>>)
    BY <1>4, <1>11, <2>0, ThreeFields DEF str, to
  <2>2. Take(str) = IF name = <<>> THEN InvalidRequest
                    ELSE Request("SEND_MSG", Message(Own, to, Desanitize(rest), <<>>))
    BY <1>3, <2>1 DEF Take, NoMessage, Message
  <2> QED
    BY <1>6, <1>11, <2>2
<1>12. ASSUME n >= 3, Lower(w[1]) = <<"sendg">>, u = HostToNetMsg("SEND_GROUP", <<w[2], rest>>)
       PROVE  Asked(l, Take(str))
  <2>0. w[2] \in Text /\ w[2] # <<>> /\ rest \in Text /\ rest # <<>> /\ to # <<>>
    BY <1>1, <1>2, <1>12
  <2>1. NetToHostHeader(str) = "SEND_GROUP"
        /\ NetToHostSendGroup(str) = [group |-> to, content |-> Desanitize(rest)]
    BY <1>4, <1>12, <2>0, TwoFields DEF str, to
  <2>2. Take(str) = Request("SEND_GROUP", Message(Own, to, Desanitize(rest), <<>>))
    BY <2>0, <2>1 DEF Take
  <2> QED
    BY <1>6, <1>12, <2>2
<1>13. ASSUME n >= 3, Lower(w[1]) = <<"sendf">>, file # <<>>,
              u = HostToNetMsg("SEND_FILE", <<name, w[2], file, rest>>)
       PROVE  Asked(l, Take(str))
  <2>0. w[2] \in Text /\ w[2] # <<>> /\ rest \in Text /\ rest # <<>> /\ file \in Text
    BY <1>1, <1>2, <1>13
  <2>1. NetToHostHeader(str) = "SEND_FILE"
        /\ NetToHostSendFile(str) = IF name = <<>> THEN NoMessage
                                    ELSE Message(Desanitize(name), to, Desanitize(file), Desanitize(rest))
    BY <1>4, <1>13, <2>0, FourFields DEF str, to
  <2>2. Take(str) = IF name = <<>> THEN InvalidRequest
                    ELSE Request("SEND_FILE", Message(Own, to, Desanitize(file), Desanitize(rest)))
    BY <1>3, <2>1 DEF Take, NoMessage, Message
  <2> QED
    BY <1>6, <1>13, <2>2
<1> QED
  BY <1>5, <1>7, <1>8, <1>9, <1>10, <1>11, <1>12, <1>13 DEF str

\* The server takes a command for what the user meant.
LEMMA AskedIsMeant ==
  ASSUME name \in Text, NEW l \in Text, NEW r, Asked(l, r)
  PROVE  r = Meaning(l)
<1> DEFINE w == Split(l, Space)  n == Len(w)  rest == Join(w, Space, 2)  file == FileToStr(rest)
           verb == Lower(w[1])[1]
           of == [sendmsg |-> "SEND_MSG", sendg |-> "SEND_GROUP", sendf |-> "SEND_FILE",
                  joing |-> "JOIN_GROUP", createg |-> "CREATE_GROUP", who |-> "WHO", exit |-> "EXIT"]
           to == Desanitize(w[2])
           dst == IF n > 1 THEN to ELSE <<>>
           src == IF verb \in {"who", "exit"} THEN <<>> ELSE Own
<1>1. /\ n \in Nat /\ rest \in Text /\ (rest = <<>> <=> n <= 2)
      /\ file # <<>> => file = FileAt[rest]
  BY LineWords, FileType
<1>2. n <= 2 => Desanitize(rest) = <<>>
  BY <1>1, Desanitized
<1>3. Meaning(l) = IF verb \in {"sendmsg", "sendf"} /\ name = <<>> THEN InvalidRequest
                   ELSE Request(of[verb],
                          IF verb = "sendf" THEN Message(src, dst, Desanitize(FileAt[rest]), Desanitize(rest))
                          ELSE Message(src, dst, Desanitize(rest), <<>>))
  BY DEF Meaning, Own
<1>4. \/ n = 1 /\ Lower(w[1]) = <<"exit">> /\ r = Request("EXIT", NoMessage)
      \/ n = 1 /\ Lower(w[1]) = <<"who">> /\ r = Request("WHO", NoMessage)
      \/ n = 2 /\ Lower(w[1]) = <<"joing">> /\ r = Request("JOIN_GROUP", Message(Own, to, <<>>, <<>>))
      \/ n = 2 /\ Lower(w[1]) = <<"createg">> /\ r = Request("CREATE_GROUP", Message(Own, to, <<>>, <<>>))
      \/ n >= 3 /\ Lower(w[1]) = <<"sendmsg">>
           /\ r = IF name = <<>> THEN InvalidRequest
                  ELSE Request("SEND_MSG", Message(Own, to, Desanitize(rest), <<>>))
      \/ n >= 3 /\ Lower(w[1]) = <<"sendg">>
           /\ r = Request("SEND_GROUP", Message(Own, to, Desanitize(rest), <<>>))
      \/ n >= 3 /\ Lower(w[1]) = <<"sendf">> /\ file # <<>>
           /\ r = IF name = <<>> THEN InvalidRequest
                  ELSE Request("SEND_FILE", Message(Own, to, Desanitize(file), Desanitize(rest)))
  BY DEF Asked
<1>5. /\ of["exit"] = "EXIT" /\ of["who"] = "WHO" /\ of["joing"] = "JOIN_GROUP"
      /\ of["createg"] = "CREATE_GROUP" /\ of["sendmsg"] = "SEND_MSG" /\ of["sendg"] = "SEND_GROUP"
      /\ of["sendf"] = "SEND_FILE"
  OBVIOUS
<1>6. \A c : Lower(w[1]) = <<c>> => verb = c
  OBVIOUS
<1> HIDE DEF w, n, rest, file, verb, of, to
<1>7. CASE n = 1 /\ Lower(w[1]) = <<"exit">> /\ r = Request("EXIT", NoMessage)
  BY <1>2, <1>3, <1>5, <1>6, <1>7 DEF NoMessage
<1>8. CASE n = 1 /\ Lower(w[1]) = <<"who">> /\ r = Request("WHO", NoMessage)
  BY <1>2, <1>3, <1>5, <1>6, <1>8 DEF NoMessage
<1>9. CASE n = 2 /\ Lower(w[1]) = <<"joing">> /\ r = Request("JOIN_GROUP", Message(Own, to, <<>>, <<>>))
  BY <1>2, <1>3, <1>5, <1>6, <1>9
<1>10. CASE n = 2 /\ Lower(w[1]) = <<"createg">>
            /\ r = Request("CREATE_GROUP", Message(Own, to, <<>>, <<>>))
  BY <1>2, <1>3, <1>5, <1>6, <1>10
<1>11. CASE n >= 3 /\ Lower(w[1]) = <<"sendmsg">>
            /\ r = IF name = <<>> THEN InvalidRequest
                   ELSE Request("SEND_MSG", Message(Own, to, Desanitize(rest), <<>>))
  BY <1>1, <1>3, <1>5, <1>6, <1>11
<1>12. CASE n >= 3 /\ Lower(w[1]) = <<"sendg">>
            /\ r = Request("SEND_GROUP", Message(Own, to, Desanitize(rest), <<>>))
  BY <1>1, <1>3, <1>5, <1>6, <1>12
<1>13. CASE n >= 3 /\ Lower(w[1]) = <<"sendf">> /\ file # <<>>
            /\ r = IF name = <<>> THEN InvalidRequest
                   ELSE Request("SEND_FILE", Message(Own, to, Desanitize(file), Desanitize(rest)))
  BY <1>1, <1>3, <1>5, <1>6, <1>13
<1> QED
  BY <1>4, <1>7, <1>8, <1>9, <1>10, <1>11, <1>12, <1>13

\* A message that is forwarded and shown as it is: none of the fields that are
\* looked at is empty, and none holds an escape.
Mail(q) ==
  /\ q = Message(q.src, q.dst, q.content, q.title)
  /\ q.src \in Text /\ q.dst \in Text /\ q.content \in Text /\ q.title \in Text
  /\ q.src # <<>> /\ q.dst # <<>> /\ q.content # <<>>
  /\ Desanitize(q.src) = q.src /\ Desanitize(q.content) = q.content /\ Desanitize(q.title) = q.title

\* A field that has been received.
LEMMA ReceivedField ==
  ASSUME NEW s \in Text
  PROVE  /\ Desanitize(s) \in Text /\ Desanitize(Desanitize(s)) = Desanitize(s)
         /\ Desanitize(s) # <<>> <=> s # <<>>
         /\ Desanitize(<<>>) = <<>> /\ <<>> \in Text
<1>1. <<>> \in Text
  BY DEF Text
<1>2. Desanitize(<<>>) = <<>>
  BY <1>1, Desanitized
<1> QED
  BY <1>1, <1>2, Desanitized

\* The user's own name, and what is not it.
LEMMA OwnType ==
  ASSUME name \in Text
  PROVE  /\ Unregistered \in Text /\ Unregistered # <<>> /\ Own \in Text /\ Own # <<>>
         /\ name # <<>> \/ Own # Unregistered => Desanitize(Own) = Own
<1>1. "INVALID_REQUEST_ERR" \in MessageCodes /\ <<>> \in Seq(Text)
  BY DEF MessageCodes
<1>2. Unregistered \in Text /\ Unregistered # <<>>
  BY <1>1, FrameType DEF Unregistered
<1>3. /\ Desanitize(name) \in Text /\ (name # <<>> => Desanitize(name) # <<>>)
      /\ Desanitize(Desanitize(name)) = Desanitize(name)
  BY ReceivedField
<1> HIDE DEF Unregistered
<1> QED
  BY <1>2, <1>3 DEF Own

\* The requests that may queue a message.
Mailing == {"SEND_MSG", "SEND_FILE", "SEND_GROUP"}

\* What the server and the source of a request r rely on, when its line was l.
Sound(l, r) ==
  /\ r.msg.src # <<>> => r.msg.src = Own
  /\ r.code \in {"CREATE_GROUP", "JOIN_GROUP", "SEND_GROUP"} => Without(r.msg.dst, Space)
  /\ r.code = "EXIT" <=> EndsLoop(l)
  /\ r.code \in Mailing => (r.msg.title # <<>> <=> r.code = "SEND_FILE")
  /\ r.code \in Mailing /\ (r.code = "SEND_GROUP" => Own # Unregistered) => Mail(r.msg)

\* What is asked for can be relied on.
LEMMA AskedIsSound ==
  ASSUME name \in Text, NEW l \in Text, NEW r, Asked(l, r)
  PROVE  Sound(l, r)
<1> DEFINE w == Split(l, Space)  n == Len(w)  rest == Join(w, Space, 2)  file == FileToStr(rest)
           to == Desanitize(w[2])  text == Desanitize(rest)  data == Desanitize(file)
<1>1. /\ n \in Nat /\ rest \in Text /\ (rest = <<>> <=> n <= 2) /\ file \in Text
  BY LineWords, FileType
<1>2. n >= 2 => w[2] \in Text /\ w[2] # <<>> /\ Without(w[2], Space)
  <2>1. \A i \in 1..n : w[i] \in Text /\ w[i] # <<>> /\ Without(w[i], Space)
    BY LineWords
  <2> HIDE DEF w, n
  <2>2. n >= 2 => 2 \in 1..n
    BY <1>1
  <2> QED
    BY <2>1, <2>2
<1>3. EndsLoop(l) <=> n = 1 /\ Lower(w[1]) = <<"exit">>
  BY ExitWord
<1>4. \/ n = 1 /\ Lower(w[1]) = <<"exit">> /\ r = Request("EXIT", NoMessage)
      \/ n = 1 /\ Lower(w[1]) = <<"who">> /\ r = Request("WHO", NoMessage)
      \/ n = 2 /\ r = Request("JOIN_GROUP", Message(Own, to, <<>>, <<>>))
      \/ n = 2 /\ r = Request("CREATE_GROUP", Message(Own, to, <<>>, <<>>))
      \/ n >= 3 /\ r = IF name = <<>> THEN InvalidRequest
                       ELSE Request("SEND_MSG", Message(Own, to, text, <<>>))
      \/ n >= 3 /\ r = Request("SEND_GROUP", Message(Own, to, text, <<>>))
      \/ n >= 3 /\ file # <<>> /\ r = IF name = <<>> THEN InvalidRequest
                                      ELSE Request("SEND_FILE", Message(Own, to, data, text))
  BY DEF Asked
<1>5. Lower(w[1]) = <<"who">> => Lower(w[1]) # <<"exit">>
  OBVIOUS
<1> HIDE DEF w
<1>6. n >= 2 => to \in Text /\ to # <<>> /\ Without(to, Space)
  <2> HIDE DEF n
  <2> QED
    BY <1>2, Desanitized
<1>7. /\ text \in Text /\ (n >= 3 => text # <<>>) /\ Desanitize(text) = text
      /\ data \in Text /\ (file # <<>> => data # <<>>) /\ Desanitize(data) = data
      /\ Desanitize(<<>>) = <<>> /\ <<>> \in Text
  <2>1. n >= 3 => rest # <<>>
    BY <1>1
  <2> HIDE DEF rest, file, n
  <2> QED
    BY <1>1, <2>1, ReceivedField
<1> HIDE DEF n, rest, file, to, text, data
<1>8. CASE \/ n = 1 /\ Lower(w[1]) = <<"exit">> /\ r = Request("EXIT", NoMessage)
           \/ n = 1 /\ Lower(w[1]) = <<"who">> /\ r = Request("WHO", NoMessage)
  BY <1>3, <1>5, <1>8 DEF Sound, Request, NoMessage, Message, Mailing
<1>9. CASE n = 2 /\ \E c \in {"JOIN_GROUP", "CREATE_GROUP"} : r = Request(c, Message(Own, to, <<>>, <<>>))
  BY <1>3, <1>6, <1>9 DEF Sound, Request, NoMessage, Message, Mailing
<1>10. CASE n >= 3 /\ r = InvalidRequest
  BY <1>1, <1>3, <1>10 DEF Sound, InvalidRequest, Request, NoMessage, Message, Mailing
<1>11. CASE n >= 3 /\ name # <<>> /\ r = Request("SEND_MSG", Message(Own, to, text, <<>>))
  <2>1. Mail(r.msg)
    BY <1>1, <1>6, <1>7, <1>11, OwnType DEF Mail, Request, Message
  <2> QED
    BY <1>1, <1>3, <1>11, <2>1 DEF Sound, Request, Message, Mailing
<1>12. CASE n >= 3 /\ r = Request("SEND_GROUP", Message(Own, to, text, <<>>))
  <2>1. Own # Unregistered => Mail(r.msg)
    BY <1>1, <1>6, <1>7, <1>12, OwnType DEF Mail, Request, Message
  <2> QED
    BY <1>1, <1>3, <1>6, <1>12, <2>1 DEF Sound, Request, Message, Mailing
<1>13. CASE n >= 3 /\ name # <<>> /\ file # <<>> /\ r = Request("SEND_FILE", Message(Own, to, data, text))
  <2>1. Mail(r.msg)
    BY <1>1, <1>6, <1>7, <1>13, OwnType DEF Mail, Request, Message
  <2> QED
    BY <1>1, <1>3, <1>7, <1>13, <2>1 DEF Sound, Request, Message, Mailing
<1> QED
  BY <1>4, <1>8, <1>9, <1>10, <1>11, <1>12, <1>13

-----------------------------------------------------------------------------
(* Answers, and messages that are forwarded.                               *)

\* An answer that is shown as it is meant.
GoodAnswer(a) ==
  /\ a = [code |-> a.code, text |-> a.text] /\ a.code \in MessageCodes
  /\ a.text \in Text /\ Desanitize(a.text) = a.text
  /\ a.code \in WithId => a.text # <<>>
  /\ a.code = "USERS_LIST" \/ a.code \in WithId \/ a.text = <<>>

\* What is as it is received holds no escape.
LEMMA Plain ==
  ASSUME NEW s \in Text
  PROVE  Desanitize(s) = s <=> \A i \in 1..Len(s) : s[i] # EscField /\ s[i] # EscMsg
<1>1. Len(s) \in Nat /\ DOMAIN s = 1..Len(s) /\ s = [i \in 1..Len(s) |-> s[i]]
  BY DEF Text
<1>2. FieldSep # EscField /\ FieldSep # EscMsg /\ MsgSep # EscField /\ MsgSep # EscMsg
  BY DEF FieldSep, MsgSep, EscField, EscMsg
<1>3. \A i \in 1..Len(s) : Desanitize(s)[i] = CASE s[i] = EscField -> FieldSep
                                                [] s[i] = EscMsg   -> MsgSep
                                                [] OTHER           -> s[i]
  BY <1>1 DEF Desanitize
<1>4. ASSUME \A i \in 1..Len(s) : s[i] # EscField /\ s[i] # EscMsg PROVE Desanitize(s) = s
  <2>1. Desanitize(s) = [i \in 1..Len(s) |-> s[i]]
    BY <1>1, <1>4 DEF Desanitize
  <2> QED
    BY <1>1, <2>1
<1>5. ASSUME Desanitize(s) = s, NEW i \in 1..Len(s) PROVE s[i] # EscField /\ s[i] # EscMsg
  BY <1>2, <1>3, <1>5
<1> QED
  BY <1>4, <1>5

\* The list of the users is as it is received.
LEMMA TableType ==
  ASSUME name \in Text, registered = Own
  PROVE  Table \in Text /\ Desanitize(Table) = Table
<1> DEFINE r == IF registered = Unregistered THEN <<>> ELSE registered  x == <<"table">>
<1>1. r \in Text /\ Desanitize(r) = r
  BY OwnType, ReceivedField
<1>2. x \in Seq(Char) /\ Len(x) = 1 /\ x[1] = "table"
  BY DEF Char
<1>3. Table = x \o r
  BY DEF Table
<1>4. \A i \in 1..Len(r) : r[i] # EscField /\ r[i] # EscMsg
  <2> HIDE DEF r
  <2> QED
    BY <1>1, Plain
<1>5. "table" # EscField /\ "table" # EscMsg
  BY DEF EscField, EscMsg
<1> HIDE DEF r, x
<1> DEFINE t == x \o r
<1>6. r \in Seq(Char) /\ Len(r) \in Nat
  BY <1>1 DEF Text
<1>7. /\ t \in Text /\ Len(t) = 1 + Len(r)
      /\ \A i \in 1..Len(t) : t[i] = IF i <= 1 THEN x[i] ELSE r[i - 1]
  <2>1. /\ t \in Seq(Char) /\ Len(t) = Len(x) + Len(r)
        /\ \A i \in 1..Len(x) + Len(r) : t[i] = IF i <= Len(x) THEN x[i] ELSE r[i - Len(x)]
    BY <1>2, <1>6, ConcatProperties
  <2> HIDE DEF t
  <2> QED
    BY <1>2, <2>1 DEF Text
<1> HIDE DEF t
<1>8. ASSUME NEW i \in 1..Len(t) PROVE t[i] # EscField /\ t[i] # EscMsg
  <2>1. CASE i = 1
    BY <1>2, <1>5, <1>6, <1>7, <2>1
  <2>2. CASE i # 1
    <3>1. i - 1 \in 1..Len(r) /\ ~ (i <= 1)
      BY <1>6, <1>7, <2>2
    <3>2. t[i] = r[i - 1]
      BY <1>7, <3>1
    <3> QED
      BY <1>4, <3>1, <3>2
  <2> QED
    BY <2>1, <2>2
<1>9. Desanitize(t) = t
  BY <1>7, <1>8, Plain
<1> QED
  BY <1>3, <1>7, <1>9 DEF t

\* An identifier is as it is received.
LEMMA IdType == Id \in Text /\ Id # <<>> /\ Desanitize(Id) = Id
<1>1. Id \in Text /\ Id # <<>> /\ Len(Id) = 1 /\ Id[1] = "#"
  BY DEF Id, Char, Text
<1>2. "#" # EscField /\ "#" # EscMsg
  BY DEF EscField, EscMsg
<1>3. \A i \in 1..Len(Id) : Id[i] # EscField /\ Id[i] # EscMsg
  <2> HIDE DEF Id
  <2> QED
    BY <1>1, <1>2
<1> QED
  BY <1>1, <1>3, Plain

\* Every answer of the server is shown as it is meant.
LEMMA AnswersGood ==
  ASSUME name \in Text, NEW code \in MessageCodes, code = "USERS_LIST" => registered = Own
  PROVE  GoodAnswer(Answer(code))
<1>1. CASE code = "USERS_LIST"
  <2>1. Table \in Text /\ Desanitize(Table) = Table
    BY <1>1, TableType
  <2>2. code \notin WithId
    BY <1>1 DEF WithId
  <2> HIDE DEF Table
  <2> QED
    BY <1>1, <2>1, <2>2 DEF GoodAnswer, Answer
<1>2. CASE code # "USERS_LIST" /\ code \in WithId
  <2>1. Id \in Text /\ Id # <<>> /\ Desanitize(Id) = Id
    BY IdType
  <2> QED
    BY <1>2, <2>1 DEF GoodAnswer, Answer
<1>3. CASE code # "USERS_LIST" /\ code \notin WithId
  BY <1>3, ReceivedField DEF GoodAnswer, Answer
<1> QED
  BY <1>1, <1>2, <1>3

\* The client shows an answer as the server means it.
LEMMA AnswerShown ==
  ASSUME NEW a, GoodAnswer(a), NEW lead \in Leads
  PROVE  /\ HostToNetAnswer(a) # <<>>
         /\ NetToHostAnswer(Content(HostToNetAnswer(a), lead)) = a
<1> DEFINE c == a.code  t == a.text  str == Content(HostToNetAnswer(a), lead)
<1>1. a = [code |-> c, text |-> t] /\ c \in MessageCodes /\ t \in Text /\ Desanitize(t) = t
      /\ (c \in WithId => t # <<>>) /\ (c = "USERS_LIST" \/ c \in WithId \/ t = <<>>)
  BY DEF GoodAnswer
<1>2. "USERS_LIST" \notin WithId
  BY DEF WithId
<1>3. HostToNetAnswer(a) = IF c = "USERS_LIST" \/ c \in WithId THEN HostToNetMsg(c, <<t>>)
                           ELSE HostToNetMsg(c, <<>>)
  BY <1>2 DEF HostToNetAnswer, HostToNetUsersList, HostToNetId
<1>4. <<t>> \in Seq(Text) /\ <<>> \in Seq(Text)
  BY <1>1
<1>5. HostToNetAnswer(a) # <<>>
  BY <1>1, <1>3, <1>4, FrameType
<1>6. NetToHostAnswer(str) =
        [code |-> NetToHostHeader(str),
         text |-> IF NetToHostHeader(str) = "USERS_LIST" THEN NetToHostField(str)
                  ELSE IF NetToHostHeader(str) \in WithId THEN NetToHostId(str) ELSE <<>>]
  BY <1>2 DEF NetToHostAnswer
<1>7. CASE c = "USERS_LIST" \/ c \in WithId
  <2>1. str = Content(HostToNetMsg(c, <<t>>), lead)
    BY <1>3, <1>7
  <2> HIDE DEF c, t, str
  <2>2. /\ NetToHostHeader(str) = c /\ NetToHostField(str) = Desanitize(t)
        /\ t # <<>> => NetToHostId(str) = Desanitize(t)
    BY <1>1, <2>1, OneField
  <2> QED
    BY <1>1, <1>2, <1>5, <1>6, <1>7, <2>2 DEF str
<1>8. CASE c # "USERS_LIST" /\ c \notin WithId
  <2>1. str = Content(HostToNetMsg(c, <<>>), lead)
    BY <1>3, <1>8
  <2> HIDE DEF c, t, str
  <2>2. NetToHostHeader(str) = c
    BY <1>1, <2>1, NoFields
  <2> QED
    BY <1>1, <1>2, <1>5, <1>6, <1>8, <2>2 DEF str
<1> QED
  BY <1>7, <1>8

\* The destination shows a message as the server has it.
LEMMA ForwardShown ==
  ASSUME NEW q, Mail(q), NEW lead \in Leads, NEW f,
         f = IF q.title # <<>> THEN HostToNetFileIncoming(q) ELSE HostToNetMsgIncoming(q)
  PROVE  /\ f # <<>>
         /\ Display(Content(f, lead)) = [src |-> q.src, text |-> q.content, saved |-> Base(q.title)]
<1> DEFINE a == q.src  b == q.dst  c == q.content  d == q.title  str == Content(f, lead)
<1>1. /\ a \in Text /\ b \in Text /\ c \in Text /\ d \in Text /\ a # <<>> /\ b # <<>> /\ c # <<>>
      /\ Desanitize(a) = a /\ Desanitize(c) = c /\ Desanitize(d) = d
  BY DEF Mail
<1>2. f = IF d # <<>> THEN HostToNetMsg("FILE_INCOMING", <<a, b, c, d>>)
          ELSE HostToNetMsg("MSG_INCOMING", <<a, b, c>>)
  BY DEF HostToNetFileIncoming, HostToNetMsgIncoming
<1>3. "FILE_INCOMING" \in MessageCodes /\ "MSG_INCOMING" \in MessageCodes
  BY DEF MessageCodes
<1>4. Base(<<>>) = <<>>
  BY DEF Base, SelectLastInSeq
<1> HIDE DEF a, b, c, d, str
<1>5. CASE d # <<>>
  <2>1. f = HostToNetMsg("FILE_INCOMING", <<a, b, c, d>>)
    BY <1>2, <1>5
  <2>2. <<a, b, c, d>> \in Seq(Text)
    BY <1>1
  <2>3. HostToNetMsg("FILE_INCOMING", <<a, b, c, d>>) # <<>>
    BY <1>3, <2>2, FrameType
  <2>4. NetToHostHeader(str) = "FILE_INCOMING"
        /\ NetToHostSendFile(str) = Message(Desanitize(a), Desanitize(b), Desanitize(c), Desanitize(d))
    <3>1. str = Content(HostToNetMsg("FILE_INCOMING", <<a, b, c, d>>), lead)
      BY <2>1 DEF str
    <3> QED
      BY <1>1, <1>3, <1>5, <3>1, FourFields
  <2>5. Display(str) = [src |-> a, text |-> c, saved |-> Base(d)]
    BY <1>1, <2>4 DEF Display, Message
  <2> QED
    BY <2>1, <2>3, <2>5 DEF a, c, d, str
<1>6. CASE d = <<>>
  <2>1. f = HostToNetMsg("MSG_INCOMING", <<a, b, c>>)
    BY <1>2, <1>6
  <2>2. <<a, b, c>> \in Seq(Text)
    BY <1>1
  <2>3. HostToNetMsg("MSG_INCOMING", <<a, b, c>>) # <<>>
    BY <1>3, <2>2, FrameType
  <2>4. NetToHostHeader(str) = "MSG_INCOMING"
        /\ NetToHostSendMsg(str) = Message(Desanitize(a), Desanitize(b), Desanitize(c), <<>>)
    <3>1. str = Content(HostToNetMsg("MSG_INCOMING", <<a, b, c>>), lead)
      BY <2>1 DEF str
    <3> QED
      BY <1>1, <1>3, <3>1, ThreeFields
  <2>5. Display(str) = [src |-> a, text |-> c, saved |-> <<>>]
    BY <1>1, <2>4 DEF Display, Message
  <2> QED
    BY <1>4, <1>6, <2>1, <2>3, <2>5 DEF a, c, d, str
<1> QED
  BY <1>5, <1>6

-----------------------------------------------------------------------------
(* The invariant.                                                          *)

\* No command has been taken.
Idle ==
  /\ taken = NoRequest /\ queued = NoMessage /\ forward = <<>> /\ notice = <<>>
  /\ displayed = Nothing /\ noticed = NoAnswer

\* Where the client is, and what is on the way then.
Places ==
  /\ name \in Text /\ line \in Text
  /\ pc \in {"start", "register", "prompt", "asked", "leaving", "over"}
  /\ pc \in {"start", "register"} => Idle
  /\ pc = "start" => shown = NoAnswer
  /\ pc \in {"start", "prompt"} => up = <<>> /\ down = <<>>
  /\ pc = "asked" => ~ EndsLoop(line)
  /\ pc = "leaving" => EndsLoop(line)
  /\ up # <<>> =>
       /\ Idle /\ down = <<>> /\ shown = NoAnswer
       /\ \/ pc = "register" /\ up = HostToNetRegister(name)
          \/ pc \in {"asked", "leaving"} /\ up = CmdToNetMsg(line, name)

\* The worker's user has the client's name as soon as there is one.
Greeted == pc # "start" /\ (pc = "register" => up = <<>>) => registered = Own

\* What is taken is what was typed.
Taken == taken # NoRequest => Asked(line, taken)

\* An answer on its way.
Answering ==
  /\ down # <<>> => GoodAnswer(answered) /\ down = HostToNetAnswer(answered)
  /\ shown # NoAnswer /\ answered # NoAnswer => shown = answered

\* What is shown of the request r, at its destination and at its source.
Incoming(r) == [src |-> r.msg.src, text |-> r.msg.content, saved |-> Base(r.msg.title)]
News(r) == [code |-> IF r.code = "SEND_FILE" THEN "FILE_SENT" ELSE "MSG_SENT", text |-> Id]

\* A message on its way is the one that was taken.
Forwarding ==
  /\ queued # NoMessage =>
       /\ Mail(queued) /\ queued.src = taken.msg.src /\ queued.content = taken.msg.content
       /\ queued.title = taken.msg.title /\ (queued.title # <<>> <=> taken.code = "SEND_FILE")
  /\ forward # <<>> =>
       /\ queued # NoMessage
       /\ forward = IF queued.title # <<>> THEN HostToNetFileIncoming(queued)
                    ELSE HostToNetMsgIncoming(queued)
  /\ notice # <<>> => notice = HostToNetAnswer(News(taken))
  /\ displayed # Nothing => displayed = Incoming(taken)
  /\ noticed # NoAnswer => noticed = News(taken)

CommandsInv == Places /\ Greeted /\ Taken /\ LeavesIffExit /\ Answering /\ Forwarding

\* What is asked for depends on the client's name and its line.
LEMMA Kept ==
  ASSUME name' = name
  PROVE  /\ Own' = Own
         /\ line' = line => \A r : taken' = r /\ Asked(line, r) => Asked(line, taken)'
BY DEF Asked, Own

\* A message that is queued is fit to be forwarded, and is what was taken.
LEMMA QueuedMail ==
  ASSUME NEW l, NEW r, Sound(l, r), registered = Own, NEW code, code \in AnswersTo(r.code),
         NEW q, q = Queued(r, code), q # NoMessage
  PROVE  /\ Mail(q) /\ q.src = r.msg.src /\ q.content = r.msg.content
         /\ q.title = r.msg.title /\ (q.title # <<>> <=> r.code = "SEND_FILE")
<1>1. code \in {"MSG_QUEUED", "FILE_QUEUED"}
  BY DEF Queued
<1>2. r.code \in Mailing /\ (r.code = "SEND_GROUP" => Own # Unregistered)
  BY <1>1 DEF AnswersTo, Mailing
<1>3. Mail(r.msg) /\ (r.msg.title # <<>> <=> r.code = "SEND_FILE")
  BY <1>2 DEF Sound
<1>4. q = IF r.code = "SEND_GROUP" THEN [r.msg EXCEPT !.dst = Member] ELSE r.msg
  BY <1>1 DEF Queued
<1>5. CASE r.code # "SEND_GROUP"
  BY <1>3, <1>4, <1>5
<1>6. CASE r.code = "SEND_GROUP"
  <2>1. Member \in Text /\ Member # <<>>
    <3>1. STRING \subseteq Char
      BY DEF Char
    <3> QED
      BY <3>1, CommandsAssumption, SeqMonotonic DEF Text
  <2>2. q = Message(r.msg.src, Member, r.msg.content, r.msg.title)
    BY <1>3, <1>4, <1>6 DEF Mail, Message
  <2>3. q.src = r.msg.src /\ q.dst = Member /\ q.content = r.msg.content /\ q.title = r.msg.title
    BY <2>2 DEF Message
  <2> QED
    BY <1>3, <2>1, <2>2, <2>3 DEF Mail
<1> QED
  BY <1>5, <1>6

\* What the worker makes of a command.
LEMMA HandleKeeps ==
  ASSUME CommandsInv, NEW lead \in Leads, NEW code, Handle(lead, code)
  PROVE  CommandsInv'
<1> DEFINE r == Take(Content(up, lead))
<1>1. /\ pc \in {"asked", "leaving"} /\ up # <<>> /\ code \in AnswersTo(r.code)
      /\ up' = <<>> /\ taken' = r /\ queued' = Queued(r, code) /\ answered' = Answer(code)
      /\ down' = HostToNetAnswer(Answer(code))
      /\ name' = name /\ pc' = pc /\ line' = line /\ shown' = shown /\ registered' = registered
      /\ forward' = forward /\ notice' = notice /\ displayed' = displayed /\ noticed' = noticed
  BY DEF Handle, clientVars, messageVars
<1>2. /\ name \in Text /\ line \in Text /\ Idle /\ shown = NoAnswer
      /\ up = CmdToNetMsg(line, name) /\ (pc = "leaving" <=> EndsLoop(line))
  BY <1>1 DEF CommandsInv, Places
<1>3. registered = Own
  BY <1>1 DEF CommandsInv, Greeted
<1>4. IsCommand(line, up, name)
  <2>1. CmdToNetMsg(line, name) # <<>>
    BY <1>1, <1>2
  <2>2. IsCommand(line, CmdToNetMsg(line, name), name)
    BY <1>2, <2>1, Commanded
  <2> QED
    BY <1>2, <2>2
<1>5. Asked(line, r)
  <2> HIDE DEF r
  <2>1. Asked(line, Take(Content(up, lead)))
    BY <1>2, <1>3, <1>4, TakenAsAsked
  <2> QED
    BY <2>1 DEF r
<1> HIDE DEF r
<1>6. Sound(line, r)
  BY <1>2, <1>5, AskedIsSound
<1>7. GoodAnswer(Answer(code))
  <2>1. code \in MessageCodes
    BY <1>1 DEF AnswersTo, MessageCodes
  <2> QED
    BY <1>2, <1>3, <2>1, AnswersGood
<1>8. Places'
  BY <1>1, <1>2 DEF Places
<1>9. Greeted'
  <2>1. Own' = Own
    BY <1>1, Kept
  <2> QED
    BY <1>1, <1>3, <2>1 DEF Greeted
<1>10. Taken'
  <2>1. Asked(line, taken)'
    BY <1>1, <1>5, Kept
  <2> QED
    BY <2>1 DEF Taken
<1>11. LeavesIffExit'
  <2>1. r.code = "EXIT" <=> EndsLoop(line)
    BY <1>6 DEF Sound
  <2> QED
    BY <1>1, <1>2, <2>1 DEF LeavesIffExit
<1>12. Answering'
  BY <1>1, <1>2, <1>7 DEF Answering
<1>13. Forwarding'
  <2>1. /\ queued' # NoMessage => /\ Mail(queued') /\ queued'.src = r.msg.src
                                  /\ queued'.content = r.msg.content /\ queued'.title = r.msg.title
                                  /\ (queued'.title # <<>> <=> r.code = "SEND_FILE")
    BY <1>1, <1>3, <1>6, QueuedMail
  <2> QED
    BY <1>1, <1>2, <2>1 DEF Forwarding, Idle
<1> QED
  BY <1>8, <1>9, <1>10, <1>11, <1>12, <1>13 DEF CommandsInv

\* A line, whether it becomes a request or not.
LEMMA TypeKeeps ==
  ASSUME CommandsInv, NEW l \in Text, Type(l),
         \/ pc' = pc /\ up' = up
         \/ up' = CmdToNetMsg(l, name) /\ pc' = IF EndsLoop(l) THEN "leaving" ELSE "asked"
  PROVE  CommandsInv'
<1>1. /\ pc = "prompt" /\ queued = NoMessage /\ notice = <<>> /\ line' = l
      /\ taken' = NoRequest /\ answered' = NoAnswer /\ shown' = NoAnswer
      /\ displayed' = Nothing /\ noticed' = NoAnswer
      /\ name' = name /\ registered' = registered /\ queued' = queued
      /\ down' = down /\ forward' = forward /\ notice' = notice
  BY DEF Type
<1>2. name \in Text /\ up = <<>> /\ down = <<>>
  BY <1>1 DEF CommandsInv, Places
<1>3. registered = Own
  BY <1>1 DEF CommandsInv, Greeted
<1>4. forward = <<>>
  BY <1>1 DEF CommandsInv, Forwarding
<1>5. Idle'
  BY <1>1, <1>4 DEF Idle
<1>6. Places'
  BY <1>1, <1>2, <1>5 DEF Places
<1>7. Greeted'
  BY <1>1, <1>3, Kept DEF Greeted
<1>8. Taken' /\ LeavesIffExit' /\ Answering' /\ Forwarding'
  BY <1>1, <1>2, <1>4 DEF Taken, LeavesIffExit, Answering, Forwarding
<1> QED
  BY <1>6, <1>7, <1>8 DEF CommandsInv

\* The name of the worker's user.
LEMMA RegisterKeeps ==
  ASSUME CommandsInv, NEW lead \in Leads, RegisterUser(lead)
  PROVE  CommandsInv'
<1> DEFINE str == Content(up, lead)
<1>1. /\ pc = "register" /\ up # <<>> /\ up' = <<>>
      /\ registered' = IF NetToHostHeader(str) = "REGISTER" /\ NetToHostField(str) # <<>>
                       THEN NetToHostField(str) ELSE Unregistered
      /\ answered' = Answer("OK") /\ down' = HostToNetAnswer(Answer("OK"))
      /\ name' = name /\ pc' = pc /\ line' = line /\ shown' = shown /\ taken' = taken
      /\ queued' = queued /\ forward' = forward /\ notice' = notice /\ displayed' = displayed
      /\ noticed' = noticed
  BY DEF RegisterUser, clientVars, messageVars
<1> HIDE DEF str
<1>2. name \in Text /\ line \in Text /\ Idle /\ shown = NoAnswer /\ up = HostToNetRegister(name)
  BY <1>1 DEF CommandsInv, Places
<1>3. registered' = Own
  <2>1. "REGISTER" \in MessageCodes
    BY DEF MessageCodes
  <2>2. str = Content(HostToNetMsg("REGISTER", <<name>>), lead)
    BY <1>2 DEF str, HostToNetRegister
  <2>3. NetToHostHeader(str) = "REGISTER" /\ NetToHostField(str) = Desanitize(name)
    BY <1>2, <2>1, <2>2, OneField
  <2>4. Desanitize(name) # <<>> <=> name # <<>>
    BY <1>2, ReceivedField
  <2> QED
    BY <1>1, <2>3, <2>4 DEF Own
<1>4. GoodAnswer(Answer("OK"))
  <2>1. "OK" \in MessageCodes
    BY DEF MessageCodes
  <2> QED
    BY <1>2, <2>1, AnswersGood
<1>5. Idle'
  BY <1>1, <1>2 DEF Idle
<1>6. Places'
  BY <1>1, <1>2, <1>5 DEF Places
<1>7. Greeted'
  BY <1>1, <1>3, Kept DEF Greeted
<1>8. Taken' /\ LeavesIffExit' /\ Answering' /\ Forwarding'
  BY <1>1, <1>2, <1>4, <1>5 DEF Taken, LeavesIffExit, Answering, Forwarding, Idle
<1> QED
  BY <1>6, <1>7, <1>8 DEF CommandsInv

\* The news of a message that has been sent.
LEMMA NewsType ==
  ASSUME NEW r
  PROVE  /\ GoodAnswer(News(r))
         /\ Answer(IF r.code = "SEND_FILE" THEN "FILE_SENT" ELSE "MSG_SENT") = News(r)
<1>1. Answer(IF r.code = "SEND_FILE" THEN "FILE_SENT" ELSE "MSG_SENT") = News(r)
  BY DEF Answer, News, WithId
<1>2. Id \in Text /\ Id # <<>> /\ Desanitize(Id) = Id
  BY IdType
<1> QED
  BY <1>1, <1>2 DEF GoodAnswer, News, WithId, MessageCodes

\* The steps of the messages loop and of those who read what it writes.
LEMMA MessagesKeep ==
  ASSUME CommandsInv, NEW lead \in Leads,
         Forward \/ ShowIncoming(lead) \/ ShowNotice(lead)
  PROVE  CommandsInv'
<1>1. /\ name' = name /\ pc' = pc /\ line' = line /\ shown' = shown /\ registered' = registered
      /\ taken' = taken /\ answered' = answered /\ up' = up /\ down' = down
  BY DEF Forward, ShowIncoming, ShowNotice, clientVars, serverVars
<1>2. queued # NoMessage \/ notice # <<>>
  BY DEF Forward, NotSending, ShowIncoming, ShowNotice, CommandsInv, Forwarding
<1>3. ~ Idle /\ up = <<>>
  BY <1>2 DEF Idle, CommandsInv, Places
<1>4. Places'
  BY <1>1, <1>3 DEF CommandsInv, Places
<1>5. Greeted' /\ Taken' /\ LeavesIffExit' /\ Answering'
  <2>1. Greeted'
    BY <1>1, Kept DEF CommandsInv, Greeted
  <2>2. Taken'
    BY <1>1, Kept DEF CommandsInv, Taken
  <2> QED
    BY <1>1, <2>1, <2>2 DEF CommandsInv, LeavesIffExit, Answering
<1>6. ASSUME Forward PROVE Forwarding'
  <2>1. /\ queued # NoMessage /\ forward = <<>> /\ notice = <<>>
        /\ forward' = IF queued.title # <<>> THEN HostToNetFileIncoming(queued)
                      ELSE HostToNetMsgIncoming(queued)
        /\ notice' = HostToNetAnswer(Answer(IF queued.title # <<>> THEN "FILE_SENT" ELSE "MSG_SENT"))
        /\ queued' = queued /\ displayed' = displayed /\ noticed' = noticed
    BY <1>6 DEF Forward, NotSending, serverVars
  <2>2. queued.title # <<>> <=> taken.code = "SEND_FILE"
    BY <2>1 DEF CommandsInv, Forwarding
  <2>3. notice' = HostToNetAnswer(News(taken))
    BY <2>1, <2>2, NewsType
  <2> QED
    BY <1>1, <2>1, <2>3 DEF CommandsInv, Forwarding
<1>7. ASSUME ShowIncoming(lead) PROVE Forwarding'
  <2>1. /\ forward # <<>> /\ displayed' = Display(Content(forward, lead)) /\ forward' = <<>>
        /\ queued' = NoMessage /\ notice' = notice /\ noticed' = noticed
    BY <1>7 DEF ShowIncoming
  <2>2. /\ Mail(queued) /\ queued.src = taken.msg.src /\ queued.content = taken.msg.content
        /\ queued.title = taken.msg.title
        /\ forward = IF queued.title # <<>> THEN HostToNetFileIncoming(queued)
                     ELSE HostToNetMsgIncoming(queued)
    BY <2>1 DEF CommandsInv, Forwarding
  <2>3. Display(Content(forward, lead)) =
          [src |-> queued.src, text |-> queued.content, saved |-> Base(queued.title)]
    BY <2>2, ForwardShown
  <2>4. displayed' = Incoming(taken)
    BY <2>1, <2>2, <2>3 DEF Incoming
  <2> QED
    BY <1>1, <2>1, <2>4 DEF CommandsInv, Forwarding
<1>8. ASSUME ShowNotice(lead) PROVE Forwarding'
  <2>1. /\ notice # <<>> /\ noticed' = NetToHostAnswer(Content(notice, lead)) /\ notice' = <<>>
        /\ queued' = queued /\ forward' = forward /\ displayed' = displayed
    BY <1>8 DEF ShowNotice, serverVars
  <2>2. notice = HostToNetAnswer(News(taken))
    BY <2>1 DEF CommandsInv, Forwarding
  <2>3. noticed' = News(taken)
    BY <2>1, <2>2, NewsType, AnswerShown
  <2> QED
    BY <1>1, <2>1, <2>3 DEF CommandsInv, Forwarding
<1> QED
  BY <1>4, <1>5, <1>6, <1>7, <1>8 DEF CommandsInv

\* What may be typed, and the names, are strings.
LEMMA TypedText == Lines \subseteq Text /\ Names \subseteq Text /\ <<>> \in Text
<1>1. STRING \subseteq Char
  BY DEF Char
<1> QED
  BY <1>1, CommandsAssumption, SeqMonotonic, ReceivedField DEF Text

\* The client's own steps on the connection.
LEMMA ClientKeeps ==
  ASSUME CommandsInv, NEW lead \in Leads, Register \/ Registered \/ ShowAnswer(lead)
  PROVE  CommandsInv'
<1>1. /\ name' = name /\ line' = line /\ registered' = registered /\ taken' = taken
      /\ answered' = answered /\ queued' = queued /\ forward' = forward /\ notice' = notice
      /\ displayed' = displayed /\ noticed' = noticed
  BY DEF Register, Registered, ShowAnswer, serverVars, messageVars
<1>2. Taken' /\ Forwarding'
  BY <1>1, Kept DEF CommandsInv, Taken, Forwarding
<1>3. CASE Register
  <2>1. pc = "start" /\ pc' = "register" /\ up' = HostToNetRegister(name) /\ shown' = shown /\ down' = down
    BY <1>3 DEF Register
  <2>2. HostToNetRegister(name) # <<>>
    <3>1. "REGISTER" \in MessageCodes
      BY DEF MessageCodes
    <3>2. <<name>> \in Seq(Text)
      BY DEF CommandsInv, Places
    <3> QED
      BY <3>1, <3>2, FrameType DEF HostToNetRegister
  <2>3. shown = NoAnswer
    BY <2>1 DEF CommandsInv, Places
  <2>4. Idle'
    BY <1>1, <2>1 DEF CommandsInv, Places, Idle
  <2>5. Places'
    BY <1>1, <2>1, <2>3, <2>4 DEF CommandsInv, Places
  <2> QED
    BY <1>1, <1>2, <2>1, <2>2, <2>4, <2>5 DEF CommandsInv, Places, Greeted, LeavesIffExit, Answering, Idle
<1>4. CASE Registered \/ ShowAnswer(lead)
  <2>1. /\ down # <<>> /\ down' = <<>> /\ up' = up
        /\ \E ld \in Leads : shown' = NetToHostAnswer(Content(down, ld))
    BY <1>4 DEF Registered, ShowAnswer, Leads, serverVars
  <2>2. \/ pc = "register" /\ pc' = "prompt"
        \/ pc = "asked" /\ pc' = "prompt"
        \/ pc = "leaving" /\ pc' = IF taken.code = "EXIT" THEN "over" ELSE "leaving"
    BY <1>4 DEF Registered, ShowAnswer
  <2>3. shown' = answered
    BY <2>1, AnswerShown DEF CommandsInv, Answering
  <2>4. up = <<>>
    BY <2>1 DEF CommandsInv, Places
  <2>5. Places'
    BY <1>1, <2>1, <2>2, <2>4 DEF CommandsInv, Places
  <2>6. Greeted'
    BY <1>1, <2>1, <2>2, <2>4, Kept DEF CommandsInv, Greeted
  <2>7. LeavesIffExit'
    BY <1>1, <2>2 DEF CommandsInv, LeavesIffExit, Places, Idle
  <2>8. Answering'
    BY <1>1, <2>1, <2>3 DEF Answering
  <2> QED
    BY <1>2, <2>5, <2>6, <2>7, <2>8 DEF CommandsInv
<1> QED
  BY <1>3, <1>4

-----------------------------------------------------------------------------
(* The theorems.                                                           *)

\* The invariant holds at the start.
LEMMA StartsRight == Init => CommandsInv
<1> SUFFICES ASSUME Init PROVE CommandsInv
  OBVIOUS
<1>1. Names \subseteq Text /\ <<>> \in Text
  BY TypedText
<1>2. Places
  BY <1>1 DEF Init, Places, Idle
<1> QED
  BY <1>2 DEF Init, CommandsInv, Greeted, Taken, LeavesIffExit, Answering, Forwarding

\* No step breaks the invariant.
LEMMA StaysRight == CommandsInv /\ [Next]_vars => CommandsInv'
<1> SUFFICES ASSUME CommandsInv, [Next]_vars PROVE CommandsInv'
  OBVIOUS
<1>1. <<>> \in Leads
  BY DEF Leads
<1>2. CASE Register \/ Registered
  BY <1>1, <1>2, ClientKeeps
<1>3. CASE Forward
  BY <1>1, <1>3, MessagesKeep
<1>4. ASSUME NEW lead \in Leads, RegisterUser(lead) PROVE CommandsInv'
  BY <1>4, RegisterKeeps
<1>5. ASSUME NEW lead \in Leads, ShowAnswer(lead) PROVE CommandsInv'
  BY <1>5, ClientKeeps
<1>6. ASSUME NEW lead \in Leads, ShowIncoming(lead) \/ ShowNotice(lead) PROVE CommandsInv'
  BY <1>6, MessagesKeep
<1>7. ASSUME NEW lead \in Leads, NEW code, Handle(lead, code) PROVE CommandsInv'
  BY <1>7, HandleKeeps
<1>8. ASSUME NEW l \in Lines, Refuse(l) PROVE CommandsInv'
  <2>1. l \in Text /\ Type(l) /\ pc' = pc /\ up' = up
    BY <1>8, TypedText DEF Refuse
  <2> QED
    BY <2>1, TypeKeeps
<1>9. ASSUME NEW l \in Lines, Ask(l) PROVE CommandsInv'
  <2>1. l \in Text /\ Type(l) /\ up' = CmdToNetMsg(l, name)
        /\ pc' = IF EndsLoop(l) THEN "leaving" ELSE "asked"
    BY <1>9, TypedText DEF Ask
  <2> QED
    BY <2>1, TypeKeeps
<1>10. CASE UNCHANGED vars
  <2>1. /\ name' = name /\ pc' = pc /\ line' = line /\ shown' = shown /\ registered' = registered
        /\ taken' = taken /\ answered' = answered /\ queued' = queued /\ up' = up /\ down' = down
        /\ forward' = forward /\ notice' = notice /\ displayed' = displayed /\ noticed' = noticed
    BY <1>10 DEF vars, clientVars, serverVars, messageVars
  <2>2. Places' /\ LeavesIffExit' /\ Answering' /\ Forwarding'
    BY <2>1 DEF CommandsInv, Places, Idle, LeavesIffExit, Answering, Forwarding
  <2>3. Greeted' /\ Taken'
    BY <2>1, Kept DEF CommandsInv, Greeted, Taken
  <2> QED
    BY <2>2, <2>3 DEF CommandsInv
<1> QED
  BY <1>2, <1>3, <1>4, <1>5, <1>6, <1>7, <1>8, <1>9, <1>10 DEF Next

\* The invariant holds for any lines, names and files, whatever the registry
\* answers and whatever is left in front of a message.
THEOREM CommandsInvariant == Spec => []CommandsInv
BY StartsRight, StaysRight, PTL DEF Spec

\* The server takes every request for what the user typed, whatever was typed:
\* split, sanitize, the frame, recv, split and desanitize (protocol.cpp) give
\* back every field in its place, and join the spaces between words.
THEOREM TakenAsMeantCorrect == Spec => []TakenAsMeant
<1>1. CommandsInv => TakenAsMeant
  <2> SUFFICES ASSUME CommandsInv, taken # NoRequest PROVE taken = Meaning(line)
    BY DEF TakenAsMeant
  <2>1. name \in Text /\ line \in Text /\ Asked(line, taken)
    BY DEF CommandsInv, Places, Taken
  <2> QED
    BY <2>1, AskedIsMeant
<1> QED
  BY <1>1, CommandsInvariant, PTL

\* The source of a message is the name its sender is registered with, and no
\* request names a group with a space in it.
THEOREM RequestsAreOwnCorrect == Spec => []RequestsAreOwn
<1>1. CommandsInv => RequestsAreOwn
  <2> SUFFICES ASSUME CommandsInv PROVE RequestsAreOwn
    OBVIOUS
  <2>1. CASE taken = NoRequest
    BY <2>1 DEF RequestsAreOwn, NoRequest, Request, NoMessage, Message
  <2>2. CASE taken # NoRequest
    <3>1. name \in Text /\ line \in Text /\ Asked(line, taken)
      BY <2>2 DEF CommandsInv, Places, Taken
    <3>2. Sound(line, taken)
      BY <3>1, AskedIsSound
    <3>3. registered = Own
      BY <2>2 DEF CommandsInv, Places, Greeted, Idle
    <3>4. Without(taken.msg.dst, Space) => Space \notin ToSet(taken.msg.dst)
      BY DEF Without, ToSet
    <3> QED
      BY <3>2, <3>3, <3>4 DEF RequestsAreOwn, Sound
  <2> QED
    BY <2>1, <2>2
<1> QED
  BY <1>1, CommandsInvariant, PTL

\* The client leaves its loop exactly when the server ends the session: the
\* trimmed line is exit if and only if its only word is.
THEOREM LeavesIffExitCorrect == Spec => []LeavesIffExit
<1>1. CommandsInv => LeavesIffExit
  BY DEF CommandsInv
<1> QED
  BY <1>1, CommandsInvariant, PTL

\* Both clients show what the server means: the answer, the message, and the
\* news that it was sent.
THEOREM ShownAsSentCorrect == Spec => []ShownAsSent
<1>1. CommandsInv => ShownAsSent
  BY NewsType DEF CommandsInv, Answering, Forwarding, ShownAsSent, Incoming
<1> QED
  BY <1>1, CommandsInvariant, PTL
=============================================================================
