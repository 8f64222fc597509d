----------------------------- MODULE LogProofs -----------------------------
(***************************************************************************)
(* Theorem about the redactor of build logs, for any secrets, any chunks   *)
(* and streams of any length.                                              *)
(*                                                                         *)
(* Recursion.  What the recursive functions of the model compute is found  *)
(* by induction: the first lemmas state induction for a set instead of an  *)
(* operator, and that the equation of such a function has a solution.      *)
(*                                                                         *)
(* The stream.  The lines of what was delivered in two parts are the lines *)
(* of the parts joined (LinesConcat), so the buffer, the flag and what was *)
(* emitted are a function of the lines alone (StateOf, LogInv).            *)
(*                                                                         *)
(* The masks.  Replacing a pattern leaves no occurrence of it, and makes   *)
(* none of another, because no pattern has a letter of the mask            *)
(* (MaskMakesNone); so after the last pattern none is left, in any order.  *)
(* With the longest first nothing is replaced inside a line that is itself *)
(* a pattern before its turn (RedactMasksWhole).                           *)
(***************************************************************************)
EXTENDS LogRedactor, FiniteSetTheorems, TLAPS

\* Induction on the natural numbers, stated for a set.
LEMMA InductionOnNat ==
  ASSUME NEW T, 0 \in T, \A n \in Nat : n \in T => n + 1 \in T
  PROVE  Nat \subseteq T
<1> SUFFICES ASSUME Nat \ T # {} PROVE FALSE
  OBVIOUS
<1>1. IsWellFoundedOn(OpToRel(<, Nat), Nat)
  BY NatLessThanWellFounded
<1>2. PICK n \in Nat \ T : \A m \in Nat \ T : ~ (<<m, n>> \in OpToRel(<, Nat))
  BY <1>1, WFMin
<1>3. n # 0
  OBVIOUS
<1>4. n - 1 \in Nat /\ n - 1 < n /\ (n - 1) + 1 = n
  BY <1>3
<1>5. n - 1 \notin T
  BY <1>4
<1>6. <<n - 1, n>> \in OpToRel(<, Nat)
  BY <1>4 DEF OpToRel
<1> QED
  BY <1>2, <1>4, <1>5, <1>6

\* The same up to a bound.
LEMMA InductionUpTo ==
  ASSUME NEW N \in Nat, NEW T, 0 \in T, \A n \in 1 .. N : n - 1 \in T => n \in T
  PROVE  0 .. N \subseteq T
<1> DEFINE U == {n \in Nat : n <= N => n \in T}
<1>1. 0 \in U
  OBVIOUS
<1>2. ASSUME NEW n \in Nat, n \in U PROVE n + 1 \in U
  <2>1. CASE n + 1 <= N
    <3>1. n + 1 \in 1 .. N /\ (n + 1) - 1 = n /\ n \in T
      BY <1>2, <2>1
    <3> QED
      BY <3>1
  <2>2. CASE ~ (n + 1 <= N)
    BY <2>2
  <2> QED
    BY <2>1, <2>2
<1> HIDE DEF U
<1>3. Nat \subseteq U
  BY <1>1, <1>2, InductionOnNat
<1> QED
  BY <1>3 DEF U

\* A function that is defined by what comes before exists.
IsStep(step, S, N) == \A k \in 1 .. N, v \in S : step[<<k, v>>] \in S
Iterates(f, S, first, step, N) ==
  f \in [0 .. N -> S] /\ f[0] = first /\ \A k \in 1 .. N : f[k] = step[<<k, f[k - 1]>>]

\* Iterating a step that stays in a set gives a function into the set.
LEMMA RecursionExists ==
  ASSUME NEW S, NEW first \in S, NEW step, NEW N \in Nat, IsStep(step, S, N)
  PROVE  \E f : Iterates(f, S, first, step, N)
<1> DEFINE T == {n \in 0 .. N : \E f : Iterates(f, S, first, step, n)}
<1>1. 0 \in T
  <2>1. Iterates([k \in 0 .. 0 |-> first], S, first, step, 0)
    BY DEF Iterates
  <2> QED
    BY <2>1
<1>2. ASSUME NEW n \in 1 .. N, n - 1 \in T PROVE n \in T
  <2>1. PICK f : Iterates(f, S, first, step, n - 1)
    BY <1>2
  <2> DEFINE g == [k \in 0 .. n |-> IF k = n THEN step[<<n, f[n - 1]>>] ELSE f[k]]
  <2>2. f[n - 1] \in S /\ step[<<n, f[n - 1]>>] \in S
    BY <2>1 DEF Iterates, IsStep
  <2>3. g \in [0 .. n -> S] /\ g[0] = first
    BY <2>1, <2>2 DEF Iterates
  <2>4. ASSUME NEW k \in 1 .. n PROVE g[k] = step[<<k, g[k - 1]>>]
    <3>1. CASE k = n
      BY <3>1
    <3>2. CASE k # n
      <4>1. k \in 1 .. n - 1 /\ k - 1 \in 0 .. n - 1 /\ k - 1 # n
        BY <3>2
      <4>2. g[k] = f[k] /\ g[k - 1] = f[k - 1]
        BY <4>1, <3>2
      <4> QED
        BY <2>1, <4>1, <4>2 DEF Iterates
    <3> QED
      BY <3>1, <3>2
  <2>5. Iterates(g, S, first, step, n)
    BY <2>3, <2>4 DEF Iterates
  <2> QED
    BY <2>5
<1> HIDE DEF T
<1>3. N \in T
  BY <1>1, <1>2, InductionUpTo
<1> QED
  BY <1>3 DEF T

-----------------------------------------------------------------------------
\* Lines: one letter more.
Lines(A) == [ended : Seq(Seq(A)), rest : Seq(A)]
NextLetter(lines, x) ==
  IF x = Newline THEN [ended |-> Append(lines.ended, lines.rest), rest |-> <<>>]
  ELSE [ended |-> lines.ended, rest |-> Append(lines.rest, x)]
NoLines == [ended |-> <<>>, rest |-> <<>>]

\* A letter more leaves the lines lines.
LEMMA NextLetterType ==
  ASSUME NEW A, NEW lines \in Lines(A), NEW x \in A PROVE NextLetter(lines, x) \in Lines(A)
<1>1. lines.ended \in Seq(Seq(A)) /\ lines.rest \in Seq(A)
  BY DEF Lines
<1>2. Append(lines.ended, lines.rest) \in Seq(Seq(A)) /\ Append(lines.rest, x) \in Seq(A)
  BY <1>1
<1> QED
  BY <1>1, <1>2 DEF NextLetter, Lines

\* LinesUpTo satisfies its equation, and its values are lines.
LEMMA LinesEquation ==
  ASSUME NEW A, NEW text \in Seq(A)
  PROVE  /\ LinesUpTo(text) \in [0 .. Len(text) -> Lines(A)]
         /\ LinesUpTo(text)[0] = NoLines
         /\ \A n \in 1 .. Len(text) : LinesUpTo(text)[n] = NextLetter(LinesUpTo(text)[n - 1], text[n])
<1> DEFINE N == Len(text)
           step == [x \in (1 .. N) \X Lines(A) |-> NextLetter(x[2], text[x[1]])]
           Eq(f) == f = [n \in 0 .. N |-> IF n = 0 THEN NoLines ELSE NextLetter(f[n - 1], text[n])]
           u == LinesUpTo(text)
<1>1. N \in Nat /\ NoLines \in Lines(A) /\ \A k \in 1 .. N : text[k] \in A
  <2>1. <<>> \in Seq(A) /\ <<>> \in Seq(Seq(A))
    OBVIOUS
  <2> QED
    BY <2>1 DEF NoLines, Lines
<1>2. \A k \in 1 .. N, v \in Lines(A) : step[<<k, v>>] = NextLetter(v, text[k])
  OBVIOUS
<1>3. IsStep(step, Lines(A), N)
  BY <1>1, <1>2, NextLetterType DEF IsStep
<1> HIDE DEF N, step
<1>4. PICK f : Iterates(f, Lines(A), NoLines, step, N)
  BY <1>1, <1>3, RecursionExists
<1>5. Eq(f)
  <2>1. \A k \in 1 .. N : f[k] = NextLetter(f[k - 1], text[k])
    <3> SUFFICES ASSUME NEW k \in 1 .. N PROVE f[k] = NextLetter(f[k - 1], text[k])
      OBVIOUS
    <3>1. k - 1 \in 0 .. N
      BY <1>1
    <3> QED
      BY <1>2, <1>4, <3>1 DEF Iterates
  <2> QED
    BY <1>4, <2>1 DEF Iterates
<1>6. u = CHOOSE g : Eq(g)
  BY DEF LinesUpTo, NextLetter, NoLines, N
<1>7. Eq(u)
  BY <1>5, <1>6
<1> HIDE DEF u
<1>8. DOMAIN u = 0 .. N /\ u[0] = NoLines /\ \A n \in 1 .. N : u[n] = NextLetter(u[n - 1], text[n])
  BY <1>1, <1>7
<1>9. 0 .. N \subseteq {n \in 0 .. N : u[n] \in Lines(A)}
  <2> DEFINE T == {n \in 0 .. N : u[n] \in Lines(A)}
  <2>1. 0 \in T
    BY <1>1, <1>8
  <2>2. ASSUME NEW n \in 1 .. N, n - 1 \in T PROVE n \in T
    <3>1. u[n - 1] \in Lines(A) /\ text[n] \in A /\ n \in 0 .. N
      BY <1>1, <2>2
    <3>2. NextLetter(u[n - 1], text[n]) \in Lines(A)
      BY <3>1, NextLetterType
    <3>3. u[n] = NextLetter(u[n - 1], text[n])
      BY <1>8
    <3> QED
      BY <3>1, <3>2, <3>3
  <2> HIDE DEF T
  <2>3. 0 .. N \subseteq T
    BY <1>1, <2>1, <2>2, InductionUpTo
  <2> QED
    BY <2>3 DEF T
<1>10. u \in [0 .. N -> Lines(A)]
  BY <1>7, <1>9
<1> QED
  BY <1>8, <1>10 DEF N, u

\* The lines of a text are sequences of its letters.
LEMMA LinesType ==
  ASSUME NEW A, NEW text \in Seq(A) PROVE LinesOf(text) \in Lines(A)
<1>1. Len(text) \in 0 .. Len(text)
  OBVIOUS
<1> QED
  BY <1>1, LinesEquation DEF LinesOf

\* Lines: what comes before an unfinished line belongs to the next one.
Continued(r, E) == [k \in 1 .. Len(E) |-> IF k = 1 THEN r \o E[k] ELSE E[k]]
Joined(U, V) ==
  [ended |-> U.ended \o Continued(U.rest, V.ended),
   rest |-> IF V.ended = <<>> THEN U.rest \o V.rest ELSE V.rest]

\* Continuing a line leaves lines of the same letters.
LEMMA ContinuedType ==
  ASSUME NEW A, NEW r \in Seq(A), NEW E \in Seq(Seq(A))
  PROVE  Continued(r, E) \in Seq(Seq(A)) /\ Len(Continued(r, E)) = Len(E)
<1>1. \A k \in 1 .. Len(E) : E[k] \in Seq(A)
  OBVIOUS
<1>2. \A k \in 1 .. Len(E) : r \o E[k] \in Seq(A)
  BY <1>1
<1>3. \A k \in 1 .. Len(E) : (IF k = 1 THEN r \o E[k] ELSE E[k]) \in Seq(A)
  BY <1>1, <1>2
<1>4. Len(E) \in Nat
  OBVIOUS
<1> QED
  BY <1>3, <1>4 DEF Continued

\* Sequences, with the types the provers need.
LEMMA SeqIsFunction ==
  ASSUME NEW A, NEW s \in Seq(A) PROVE s = [k \in 1 .. Len(s) |-> s[k]]
OBVIOUS

\* Concatenation and Append.
LEMMA ConcatAppend ==
  ASSUME NEW A, NEW s \in Seq(A), NEW t \in Seq(A), NEW x \in A
  PROVE  s \o Append(t, x) = Append(s \o t, x) /\ s \o t \in Seq(A) /\ s \o <<>> = s /\ <<>> \o s = s
OBVIOUS

\* A further line is continued only if it is the first.
LEMMA ContinuedAppend ==
  ASSUME NEW A, NEW r \in Seq(A), NEW E \in Seq(Seq(A)), NEW x \in Seq(A)
  PROVE  Continued(r, Append(E, x)) = Append(Continued(r, E), IF E = <<>> THEN r \o x ELSE x)
<1> DEFINE F == Append(E, x)
           y == IF E = <<>> THEN r \o x ELSE x
<1>1. F \in Seq(Seq(A)) /\ Len(F) = Len(E) + 1 /\ F[Len(E) + 1] = x /\ \A k \in 1 .. Len(E) : F[k] = E[k]
  OBVIOUS
<1>2. y \in Seq(A)
  OBVIOUS
<1>3. E = <<>> <=> Len(E) = 0
  OBVIOUS
<1>4. Continued(r, E) \in Seq(Seq(A)) /\ Len(Continued(r, E)) = Len(E)
  BY ContinuedType
<1>5. Len(E) \in Nat
  OBVIOUS
<1> HIDE DEF F, y
<1>6. ASSUME NEW k \in 1 .. Len(E) + 1
      PROVE  (IF k = 1 THEN r \o F[k] ELSE F[k]) = Append(Continued(r, E), y)[k]
  <2>1. CASE k = Len(E) + 1
    <3>1. Append(Continued(r, E), y)[k] = y
      BY <2>1, <1>2, <1>4
    <3>2. F[k] = x /\ (k = 1 <=> E = <<>>)
      BY <2>1, <1>1, <1>3, <1>5
    <3> QED
      BY <3>1, <3>2 DEF y
  <2>2. CASE k # Len(E) + 1
    <3>1. k \in 1 .. Len(E)
      BY <2>2, <1>5
    <3>2. Append(Continued(r, E), y)[k] = Continued(r, E)[k]
      BY <3>1, <1>2, <1>4
    <3>3. F[k] = E[k]
      BY <3>1, <1>1
    <3> QED
      BY <3>1, <3>2, <3>3 DEF Continued
  <2> QED
    BY <2>1, <2>2
<1>7. Append(Continued(r, E), y) = [k \in 1 .. Len(E) + 1 |-> Append(Continued(r, E), y)[k]]
  <2>1. Append(Continued(r, E), y) \in Seq(Seq(A)) /\ Len(Append(Continued(r, E), y)) = Len(E) + 1
    BY <1>2, <1>4
  <2> QED
    BY <2>1, SeqIsFunction
<1>8. Continued(r, F) = [k \in 1 .. Len(E) + 1 |-> IF k = 1 THEN r \o F[k] ELSE F[k]]
  BY <1>1 DEF Continued
<1>9. Continued(r, F) = Append(Continued(r, E), y)
  BY <1>6, <1>7, <1>8
<1> QED
  BY <1>9 DEF F, y

\* A letter more of the second part is a letter more of both.
LEMMA JoinedNext ==
  ASSUME NEW A, NEW U \in Lines(A), NEW V \in Lines(A), NEW x \in A
  PROVE  Joined(U, NextLetter(V, x)) = NextLetter(Joined(U, V), x)
<1> DEFINE ue == U.ended
           ur == U.rest
           ve == V.ended
           vr == V.rest
           C == Continued(ur, ve)
           r == IF ve = <<>> THEN ur \o vr ELSE vr
<1>1. ue \in Seq(Seq(A)) /\ ur \in Seq(A) /\ ve \in Seq(Seq(A)) /\ vr \in Seq(A)
  BY DEF Lines
<1>2. Joined(U, V) = [ended |-> ue \o C, rest |-> r]
  BY DEF Joined
<1>3. NextLetter(V, x) = IF x = Newline THEN [ended |-> Append(ve, vr), rest |-> <<>>]
                         ELSE [ended |-> ve, rest |-> Append(vr, x)]
  BY DEF NextLetter
<1>4. \A W : Joined(U, W) = [ended |-> ue \o Continued(ur, W.ended),
                             rest |-> IF W.ended = <<>> THEN ur \o W.rest ELSE W.rest]
  BY DEF Joined
<1> HIDE DEF ue, ur, ve, vr
<1>5. C \in Seq(Seq(A)) /\ r \in Seq(A)
  BY <1>1, ContinuedType
<1>6. CASE x = Newline
  <2>1. Continued(ur, Append(ve, vr)) = Append(C, r)
    BY <1>1, ContinuedAppend
  <2>2. Append(ve, vr) # <<>>
    <3>1. Len(Append(ve, vr)) = Len(ve) + 1 /\ Len(ve) \in Nat /\ Len(<<>>) = 0
      BY <1>1
    <3> QED
      BY <3>1
  <2>3. ue \o Append(C, r) = Append(ue \o C, r)
    <3> DEFINE B == Seq(A)
    <3>1. ue \in Seq(B) /\ C \in Seq(B) /\ r \in B
      BY <1>1, <1>5
    <3> HIDE DEF B, C, r
    <3> QED
      BY <3>1
  <2> HIDE DEF C, r
  <2>4. Joined(U, NextLetter(V, x)) = [ended |-> ue \o Append(C, r), rest |-> <<>>]
    BY <1>3, <1>4, <1>6, <2>1, <2>2
  <2> QED
    BY <1>2, <1>6, <2>3, <2>4 DEF NextLetter
<1>7. CASE x # Newline
  <2>1. ur \o Append(vr, x) = Append(ur \o vr, x)
    BY <1>1, ConcatAppend
  <2>2. Joined(U, NextLetter(V, x)) = [ended |-> ue \o C, rest |-> Append(r, x)]
    BY <1>3, <1>4, <1>7, <2>1
  <2> HIDE DEF C, r
  <2> QED
    BY <1>2, <1>7, <2>2 DEF NextLetter
<1> QED
  BY <1>6, <1>7

\* Joining nothing changes nothing.
LEMMA JoinedNone ==
  ASSUME NEW A, NEW U \in Lines(A) PROVE Joined(U, NoLines) = U
<1>1. U.ended \in Seq(Seq(A)) /\ U.rest \in Seq(A) /\ U = [ended |-> U.ended, rest |-> U.rest]
  BY DEF Lines
<1>2. Continued(U.rest, <<>>) = <<>>
  BY DEF Continued
<1> QED
  BY <1>1, <1>2 DEF Joined, NoLines

\* The lines of a text that is delivered in two parts.
LEMMA LinesConcat ==
  ASSUME NEW A, NEW raw \in Seq(A), NEW chunk \in Seq(A)
  PROVE  LinesOf(raw \o chunk) = Joined(LinesOf(raw), LinesOf(chunk))
<1> DEFINE text == raw \o chunk
           R == Len(raw)
           C == Len(chunk)
           u == LinesUpTo(text)
           v == LinesUpTo(raw)
           w == LinesUpTo(chunk)
<1>1. /\ R \in Nat /\ C \in Nat /\ text \in Seq(A) /\ Len(text) = R + C
      /\ \A n \in 1 .. R : text[n] = raw[n] /\ raw[n] \in A
      /\ \A n \in 1 .. C : text[R + n] = chunk[n] /\ chunk[n] \in A
  OBVIOUS
<1>2. /\ u[0] = NoLines /\ \A n \in 1 .. R + C : u[n] = NextLetter(u[n - 1], text[n])
      /\ u \in [0 .. R + C -> Lines(A)]
  BY <1>1, LinesEquation
<1>3. v[0] = NoLines /\ v \in [0 .. R -> Lines(A)] /\ \A n \in 1 .. R : v[n] = NextLetter(v[n - 1], raw[n])
  BY LinesEquation
<1>4. w[0] = NoLines /\ w \in [0 .. C -> Lines(A)] /\ \A n \in 1 .. C : w[n] = NextLetter(w[n - 1], chunk[n])
  BY LinesEquation
<1>5. LinesOf(text) = u[R + C] /\ LinesOf(raw) = v[R] /\ LinesOf(chunk) = w[C]
  BY <1>1 DEF LinesOf
<1> HIDE DEF text, R, C, u, v, w
<1>6. u[R] = v[R]
  <2> DEFINE T == {n \in 0 .. R : u[n] = v[n]}
  <2>1. 0 \in T
    BY <1>1, <1>2, <1>3
  <2>2. ASSUME NEW n \in 1 .. R, n - 1 \in T PROVE n \in T
    BY <1>1, <1>2, <1>3, <2>2
  <2> HIDE DEF T
  <2>3. 0 .. R \subseteq T
    BY <1>1, <2>1, <2>2, InductionUpTo
  <2> QED
    BY <1>1, <2>3 DEF T
<1>7. u[R + C] = Joined(v[R], w[C])
  <2> DEFINE T == {n \in 0 .. C : u[R + n] = Joined(v[R], w[n])}
  <2>0. v[R] \in Lines(A)
    BY <1>1, <1>3
  <2>1. 0 \in T
    BY <1>1, <1>4, <1>6, <2>0, JoinedNone
  <2>2. ASSUME NEW n \in 1 .. C, n - 1 \in T PROVE n \in T
    <3>1. R + n \in 1 .. R + C /\ R + n - 1 = R + (n - 1) /\ n - 1 \in 0 .. C
      BY <1>1
    <3>2. u[R + n] = NextLetter(u[R + (n - 1)], chunk[n])
      BY <1>1, <1>2, <3>1
    <3>3. u[R + (n - 1)] = Joined(v[R], w[n - 1])
      BY <2>2
    <3>4. w[n - 1] \in Lines(A) /\ w[n] = NextLetter(w[n - 1], chunk[n]) /\ chunk[n] \in A
      BY <1>1, <1>4, <3>1
    <3>5. NextLetter(Joined(v[R], w[n - 1]), chunk[n]) = Joined(v[R], w[n])
      BY <2>0, <3>4, JoinedNext
    <3> QED
      BY <3>2, <3>3, <3>5
  <2> HIDE DEF T
  <2>3. 0 .. C \subseteq T
    BY <1>1, <2>1, <2>2, InductionUpTo
  <2> QED
    BY <1>1, <2>3 DEF T
<1> QED
  BY <1>5, <1>7 DEF text

-----------------------------------------------------------------------------
\* Induction from the end of a text to its beginning.
LEMMA InductionFromEnd ==
  ASSUME NEW N \in Nat, NEW T, N + 1 \in T, \A i \in 1 .. N : (\A j \in i + 1 .. N + 1 : j \in T) => i \in T
  PROVE  1 .. N + 1 \subseteq T
<1> DEFINE U == {m \in 0 .. N : \A j \in N + 1 - m .. N + 1 : j \in T}
<1>1. 0 \in U
  OBVIOUS
<1>2. ASSUME NEW m \in 1 .. N, m - 1 \in U PROVE m \in U
  <2>1. N + 1 - m \in 1 .. N /\ \A j \in (N + 1 - m) + 1 .. N + 1 : j \in N + 1 - (m - 1) .. N + 1
    OBVIOUS
  <2>2. N + 1 - m \in T
    BY <1>2, <2>1
  <2>3. ASSUME NEW j \in N + 1 - m .. N + 1 PROVE j \in T
    <3>1. j = N + 1 - m \/ j \in (N + 1 - m) + 1 .. N + 1
      OBVIOUS
    <3> QED
      BY <1>2, <2>1, <2>2, <3>1
  <2> QED
    BY <2>3
<1> HIDE DEF U
<1>3. N \in U
  BY <1>1, <1>2, InductionUpTo
<1> QED
  BY <1>3 DEF U

\* Everything that may be in a line, before and after.
Alphabet == STRING \cup {"*", "omitted"}

MaskRule(f, text, p, i) ==
  IF i = Len(text) + 1 THEN <<>>
  ELSE IF OccursAt(p, text, i) THEN Mask \o f[i + Len(p)]
  ELSE <<text[i]>> \o f[i + 1]

\* What is masked from a place depends only on what is masked further on.
LEMMA MaskRuleLooksAhead ==
  ASSUME NEW text \in Seq(Alphabet), NEW p \in Seq(Alphabet), p # <<>>, NEW i \in 1 .. Len(text), NEW f, NEW g,
         \A j \in i + 1 .. Len(text) + 1 : f[j] = g[j]
  PROVE  MaskRule(f, text, p, i) = MaskRule(g, text, p, i)
<1>1. Len(text) \in Nat /\ Len(p) \in Nat /\ Len(p) # 0
  OBVIOUS
<1>2. i + 1 \in i + 1 .. Len(text) + 1 /\ i # Len(text) + 1
  BY <1>1
<1>3. OccursAt(p, text, i) => i + Len(p) \in i + 1 .. Len(text) + 1
  BY <1>1 DEF OccursAt
<1> QED
  BY <1>2, <1>3 DEF MaskRule

\* A text that is masked from a place is a text.
LEMMA MaskRuleType ==
  ASSUME NEW text \in Seq(Alphabet), NEW p \in Seq(Alphabet), p # <<>>, NEW i \in 1 .. Len(text), NEW f,
         \A j \in i + 1 .. Len(text) + 1 : f[j] \in Seq(Alphabet)
  PROVE  MaskRule(f, text, p, i) \in Seq(Alphabet)
<1>1. Len(text) \in Nat /\ Len(p) \in Nat /\ Len(p) # 0
  OBVIOUS
<1>2. i + 1 \in i + 1 .. Len(text) + 1 /\ i # Len(text) + 1
  BY <1>1
<1>3. OccursAt(p, text, i) => i + Len(p) \in i + 1 .. Len(text) + 1
  BY <1>1 DEF OccursAt
<1>4. Mask \in Seq(Alphabet) /\ <<text[i]>> \in Seq(Alphabet)
  <2>1. text[i] \in Alphabet /\ "*" \in Alphabet
    BY DEF Alphabet
  <2>2. \A x \in Alphabet : <<x>> \in Seq(Alphabet)
    OBVIOUS
  <2> QED
    BY <2>1, <2>2 DEF Mask
<1>5. \A s \in Seq(Alphabet) : Mask \o s \in Seq(Alphabet) /\ <<text[i]>> \o s \in Seq(Alphabet)
  BY <1>4
<1> QED
  BY <1>2, <1>3, <1>5 DEF MaskRule

\* MaskedFrom satisfies its equation, and its values are texts.
LEMMA MaskedEquation ==
  ASSUME NEW text \in Seq(Alphabet), NEW p \in Seq(Alphabet), p # <<>>
  PROVE  /\ MaskedFrom(text, p) \in [1 .. Len(text) + 1 -> Seq(Alphabet)]
         /\ \A i \in 1 .. Len(text) + 1 : MaskedFrom(text, p)[i] = MaskRule(MaskedFrom(text, p), text, p, i)
<1> DEFINE N == Len(text)
           From(f, a) == /\ f \in [a .. N + 1 -> Seq(Alphabet)]
                         /\ \A i \in a .. N + 1 : f[i] = MaskRule(f, text, p, i)
           Eq(f) == f = [i \in 1 .. N + 1 |-> MaskRule(f, text, p, i)]
           g == MaskedFrom(text, p)
<1>1. N \in Nat /\ N + 1 \in 1 .. N + 1 /\ \A i \in 1 .. N : i + 1 \in i + 1 .. N + 1
  OBVIOUS
<1>2. \E f : From(f, 1)
  <2> DEFINE T == {a \in 1 .. N + 1 : \E f : From(f, a)}
  <2>1. N + 1 \in T
    <3> DEFINE f == [i \in N + 1 .. N + 1 |-> <<>>]
    <3>1. From(f, N + 1)
      <4>1. <<>> \in Seq(Alphabet)
        OBVIOUS
      <4>2. f \in [N + 1 .. N + 1 -> Seq(Alphabet)] /\ \A i \in N + 1 .. N + 1 : i = N + 1 /\ f[i] = <<>>
        BY <1>1, <4>1
      <4> QED
        BY <4>2 DEF MaskRule
    <3> HIDE DEF From, f
    <3> QED
      BY <1>1, <3>1
  <2>2. ASSUME NEW i \in 1 .. N, \A j \in i + 1 .. N + 1 : j \in T PROVE i \in T
    <3>1. PICK f : From(f, i + 1)
      <4> HIDE DEF From
      <4> QED
        BY <1>1, <2>2
    <3> DEFINE h == [j \in i .. N + 1 |-> IF j = i THEN MaskRule(f, text, p, i) ELSE f[j]]
    <3>2. \A j \in i + 1 .. N + 1 : f[j] \in Seq(Alphabet) /\ h[j] = f[j]
      BY <1>1, <3>1
    <3>3. MaskRule(f, text, p, i) \in Seq(Alphabet)
      BY <3>2, MaskRuleType
    <3>4. h \in [i .. N + 1 -> Seq(Alphabet)]
      BY <1>1, <3>1, <3>3
    <3>5. \A j \in i .. N + 1 : h[j] = MaskRule(h, text, p, j)
      <4> SUFFICES ASSUME NEW j \in i .. N + 1 PROVE h[j] = MaskRule(h, text, p, j)
        OBVIOUS
      <4> HIDE DEF h
      <4>1. CASE j = i
        <5>1. h[j] = MaskRule(f, text, p, i)
          BY <1>1, <4>1 DEF h
        <5>2. MaskRule(f, text, p, i) = MaskRule(h, text, p, i)
          BY <3>2, MaskRuleLooksAhead
        <5> QED
          BY <4>1, <5>1, <5>2
      <4>2. CASE j \in i + 1 .. N
        <5>1. h[j] = MaskRule(f, text, p, j)
          BY <1>1, <3>1, <3>2, <4>2
        <5>2. j \in 1 .. N /\ \A k \in j + 1 .. N + 1 : k \in i + 1 .. N + 1
          BY <1>1, <4>2
        <5>3. MaskRule(f, text, p, j) = MaskRule(h, text, p, j)
          BY <3>2, <5>2, MaskRuleLooksAhead
        <5> QED
          BY <5>1, <5>3
      <4>3. CASE j = N + 1
        <5>1. h[j] = MaskRule(f, text, p, j)
          BY <1>1, <3>1, <3>2, <4>3
        <5> QED
          BY <4>3, <5>1 DEF MaskRule
      <4> QED
        BY <1>1, <4>1, <4>2, <4>3
    <3> HIDE DEF h
    <3> QED
      BY <1>1, <3>4, <3>5
  <2> HIDE DEF T
  <2>3. 1 .. N + 1 \subseteq T
    BY <1>1, <2>1, <2>2, InductionFromEnd
  <2> QED
    BY <1>1, <2>3, SMTT(30) DEF T
<1>3. PICK f : Eq(f)
  BY <1>2
<1>4. g = CHOOSE f0 : Eq(f0)
  BY DEF MaskedFrom, MaskRule
<1>5. Eq(g)
  BY <1>3, <1>4
<1> HIDE DEF g, N
<1>6. DOMAIN g = 1 .. N + 1 /\ \A i \in 1 .. N + 1 : g[i] = MaskRule(g, text, p, i)
  BY <1>5
<1>7. 1 .. N + 1 \subseteq {i \in 1 .. N + 1 : g[i] \in Seq(Alphabet)}
  <2> DEFINE T == {i \in 1 .. N + 1 : g[i] \in Seq(Alphabet)}
  <2>1. N + 1 \in T
    <3>1. g[N + 1] = MaskRule(g, text, p, N + 1)
      BY <1>1, <1>6
    <3>2. MaskRule(g, text, p, N + 1) = <<>>
      BY DEF MaskRule, N
    <3>3. <<>> \in Seq(Alphabet)
      OBVIOUS
    <3> QED
      BY <1>1, <3>1, <3>2, <3>3
  <2>2. ASSUME NEW i \in 1 .. N, \A j \in i + 1 .. N + 1 : j \in T PROVE i \in T
    <3>1. MaskRule(g, text, p, i) \in Seq(Alphabet)
      BY <2>2, MaskRuleType DEF N
    <3> QED
      BY <1>1, <1>6, <3>1
  <2> HIDE DEF T
  <2>3. 1 .. N + 1 \subseteq T
    BY <1>1, <2>1, <2>2, InductionFromEnd
  <2> QED
    BY <2>3 DEF T
<1>8. g \in [1 .. N + 1 -> Seq(Alphabet)]
  BY <1>5, <1>7
<1> QED
  BY <1>6, <1>8 DEF N, g

\* One letter of the masked text, and where the text goes on behind it.
LEMMA MaskedLetter ==
  ASSUME NEW text \in Seq(Alphabet), NEW p \in Seq(Alphabet), p # <<>>, NEW i \in 1 .. Len(text)
  PROVE  LET g == MaskedFrom(text, p) IN
         \E j \in i + 1 .. Len(text) + 1 :
           /\ Len(g[i]) = Len(g[j]) + 1
           /\ \A k \in 1 .. Len(g[j]) : g[i][k + 1] = g[j][k]
           /\ IF OccursAt(p, text, i) THEN g[i][1] = "*" ELSE j = i + 1 /\ g[i][1] = text[i]
<1> DEFINE g == MaskedFrom(text, p)
           j == IF OccursAt(p, text, i) THEN i + Len(p) ELSE i + 1
           y == IF OccursAt(p, text, i) THEN "*" ELSE text[i]
<1>1. Len(text) \in Nat /\ Len(p) \in Nat /\ Len(p) # 0 /\ text[i] \in Alphabet
  OBVIOUS
<1>2. j \in i + 1 .. Len(text) + 1
  BY <1>1 DEF OccursAt
<1>3. i \in 1 .. Len(text) + 1 /\ i # Len(text) + 1 /\ j \in 1 .. Len(text) + 1
  BY <1>1, <1>2
<1>4. g[i] = MaskRule(g, text, p, i) /\ g[j] \in Seq(Alphabet)
  BY <1>3, MaskedEquation
<1>5. g[i] = <<y>> \o g[j]
  BY <1>3, <1>4 DEF MaskRule, Mask
<1>6. y \in Alphabet
  BY <1>1 DEF Alphabet
<1>7. ASSUME NEW s \in Seq(Alphabet), NEW x \in Alphabet
      PROVE  /\ Len(<<x>> \o s) = Len(s) + 1 /\ (<<x>> \o s)[1] = x
             /\ \A k \in 1 .. Len(s) : (<<x>> \o s)[k + 1] = s[k]
  OBVIOUS
<1> HIDE DEF g, j, y
<1>8. /\ Len(g[i]) = Len(g[j]) + 1 /\ g[i][1] = y
      /\ \A k \in 1 .. Len(g[j]) : g[i][k + 1] = g[j][k]
  BY <1>4, <1>5, <1>6, <1>7
<1>9. IF OccursAt(p, text, i) THEN y = "*" ELSE j = i + 1 /\ y = text[i]
  BY DEF y, j
<1> QED
  BY <1>2, <1>8, <1>9 DEF g

\* Nothing is left behind the end of a text.
LEMMA MaskedEnd ==
  ASSUME NEW text \in Seq(Alphabet), NEW p \in Seq(Alphabet), p # <<>>
  PROVE  MaskedFrom(text, p)[Len(text) + 1] = <<>>
<1>1. Len(text) + 1 \in 1 .. Len(text) + 1
  OBVIOUS
<1> QED
  BY <1>1, MaskedEquation DEF MaskRule

\* Letters before the first mask are those of the text, and the pattern does
\* not occur where they begin.
LEMMA MaskedPrefix ==
  ASSUME NEW text \in Seq(Alphabet), NEW p \in Seq(Alphabet), p # <<>>,
         NEW i \in 1 .. Len(text) + 1, NEW l \in Nat, l <= Len(MaskedFrom(text, p)[i]),
         \A k \in 1 .. l : MaskedFrom(text, p)[i][k] # "*"
  PROVE  /\ i + l - 1 <= Len(text)
         /\ \A k \in 1 .. l : text[i + k - 1] = MaskedFrom(text, p)[i][k]
         /\ l > 0 => ~ OccursAt(p, text, i)
<1> DEFINE N == Len(text)
           g == MaskedFrom(text, p)
           Plain(a, m) == m <= Len(g[a]) /\ \A k \in 1 .. m : g[a][k] # "*"
           Same(a, m) == /\ a + m - 1 <= N
                         /\ \A k \in 1 .. m : text[a + k - 1] = g[a][k]
                         /\ m > 0 => ~ OccursAt(p, text, a)
           T == {a \in 1 .. N + 1 : \A m \in Nat : Plain(a, m) => Same(a, m)}
<1>1. N \in Nat /\ N + 1 \in 1 .. N + 1
  OBVIOUS
<1>2. g[N + 1] = <<>>
  BY MaskedEnd
<1>0. \A a \in 1 .. N + 1 : Len(g[a]) \in Nat
  <2>1. \A a \in 1 .. N + 1 : g[a] \in Seq(Alphabet)
    BY MaskedEquation
  <2> QED
    BY <2>1
<1> HIDE DEF N, g
<1>3. N + 1 \in T
  <2> SUFFICES ASSUME NEW m \in Nat, Plain(N + 1, m) PROVE Same(N + 1, m)
    BY <1>1
  <2>1. m = 0
    BY <1>2
  <2> QED
    BY <1>1, <2>1
<1>4. ASSUME NEW a \in 1 .. N, \A j \in a + 1 .. N + 1 : j \in T PROVE a \in T
  <2> SUFFICES ASSUME NEW m \in Nat, Plain(a, m) PROVE Same(a, m)
    BY <1>1
  <2>1. CASE m = 0
    BY <1>1, <2>1
  <2>2. CASE m # 0
    <3>1. PICK j \in a + 1 .. N + 1 :
            /\ Len(g[a]) = Len(g[j]) + 1
            /\ \A k \in 1 .. Len(g[j]) : g[a][k + 1] = g[j][k]
            /\ IF OccursAt(p, text, a) THEN g[a][1] = "*" ELSE j = a + 1 /\ g[a][1] = text[a]
      BY MaskedLetter DEF N, g
    <3>2. 1 \in 1 .. m /\ g[a][1] # "*"
      BY <2>2
    <3>3. ~ OccursAt(p, text, a) /\ j = a + 1 /\ g[a][1] = text[a]
      BY <3>1, <3>2
    <3>4. Len(g[j]) \in Nat
      BY <1>0, <1>1
    <3>5. m - 1 \in Nat /\ Plain(j, m - 1)
      <4>1. m - 1 \in Nat /\ m - 1 <= Len(g[j])
        BY <2>2, <3>1, <3>4
      <4>2. ASSUME NEW k \in 1 .. m - 1 PROVE g[j][k] # "*"
        <5>1. k \in 1 .. Len(g[j]) /\ k + 1 \in 1 .. m
          BY <4>1, <3>4
        <5> QED
          BY <3>1, <5>1
      <4> QED
        BY <4>1, <4>2
    <3>6. Same(j, m - 1)
      BY <1>4, <3>3, <3>5
    <3>7. ASSUME NEW k \in 1 .. m PROVE text[a + k - 1] = g[a][k]
      <4>1. CASE k = 1
        BY <3>3, <4>1
      <4>2. CASE k # 1
        <5>1. k - 1 \in 1 .. m - 1 /\ k - 1 \in 1 .. Len(g[j]) /\ (k - 1) + 1 = k /\ j + (k - 1) - 1 = a + k - 1
          BY <4>2, <3>3, <3>4, <3>5, SMTT(30)
        <5>2. text[j + (k - 1) - 1] = g[j][k - 1]
          BY <3>6, <5>1
        <5>3. g[a][(k - 1) + 1] = g[j][k - 1]
          BY <3>1, <5>1
        <5> QED
          BY <5>1, <5>2, <5>3
      <4> QED
        BY <4>1, <4>2
    <3>8. a + m - 1 <= N
      BY <1>1, <3>3, <3>6
    <3> QED
      BY <3>3, <3>7, <3>8
  <2> QED
    BY <2>1, <2>2
<1> HIDE DEF T
<1>5. 1 .. N + 1 \subseteq T
  BY <1>1, <1>3, <1>4, InductionFromEnd
<1>6. i \in T
  BY <1>5 DEF N
<1>7. Plain(i, l) => Same(i, l)
  BY <1>6 DEF T
<1> QED
  BY <1>7 DEF N, g

\* What follows in the masked text is what follows from some place on.
LEMMA MaskedSuffix ==
  ASSUME NEW text \in Seq(Alphabet), NEW p \in Seq(Alphabet), p # <<>>,
         NEW i \in 1 .. Len(text) + 1, NEW a \in 1 .. Len(MaskedFrom(text, p)[i])
  PROVE  LET g == MaskedFrom(text, p) IN
         \E j \in 1 .. Len(text) :
           /\ Len(g[j]) = Len(g[i]) - a + 1
           /\ \A k \in 1 .. Len(g[j]) : g[j][k] = g[i][a + k - 1]
<1> DEFINE N == Len(text)
           g == MaskedFrom(text, p)
           Rest(b, c, j) == /\ Len(g[j]) = Len(g[b]) - c + 1
                            /\ \A k \in 1 .. Len(g[j]) : g[j][k] = g[b][c + k - 1]
           T == {b \in 1 .. N + 1 : \A c \in 1 .. Len(g[b]) : \E j \in 1 .. N : Rest(b, c, j)}
<1>1. N \in Nat /\ N + 1 \in 1 .. N + 1
  OBVIOUS
<1>2. g[N + 1] = <<>>
  BY MaskedEnd
<1>3. \A b \in 1 .. N + 1 : Len(g[b]) \in Nat
  <2>1. \A b \in 1 .. N + 1 : g[b] \in Seq(Alphabet)
    BY MaskedEquation
  <2> QED
    BY <2>1
<1> HIDE DEF N, g
<1>4. N + 1 \in T
  BY <1>1, <1>2
<1>5. ASSUME NEW b \in 1 .. N, \A j \in b + 1 .. N + 1 : j \in T PROVE b \in T
  <2> SUFFICES ASSUME NEW c \in 1 .. Len(g[b]) PROVE \E j \in 1 .. N : Rest(b, c, j)
    BY <1>1
  <2>1. CASE c = 1
    <3>1. Rest(b, c, b)
      BY <1>1, <1>3, <2>1
    <3> QED
      BY <3>1
  <2>2. CASE c # 1
    <3>1. PICK j \in b + 1 .. N + 1 :
            /\ Len(g[b]) = Len(g[j]) + 1
            /\ \A k \in 1 .. Len(g[j]) : g[b][k + 1] = g[j][k]
            /\ IF OccursAt(p, text, b) THEN g[b][1] = "*" ELSE j = b + 1 /\ g[b][1] = text[b]
      BY MaskedLetter DEF N, g
    <3>2. Len(g[j]) \in Nat /\ Len(g[b]) \in Nat
      BY <1>1, <1>3
    <3>3. c - 1 \in 1 .. Len(g[j])
      BY <2>2, <3>1, <3>2
    <3>4. PICK m \in 1 .. N : Rest(j, c - 1, m)
      BY <1>5, <3>3
    <3>5. Len(g[m]) \in Nat
      BY <1>1, <1>3
    <3>6. Len(g[m]) = Len(g[b]) - c + 1
      BY <3>1, <3>2, <3>4
    <3>7. ASSUME NEW k \in 1 .. Len(g[m]) PROVE g[m][k] = g[b][c + k - 1]
      <4>1. (c - 1) + k - 1 \in 1 .. Len(g[j]) /\ ((c - 1) + k - 1) + 1 = c + k - 1
        BY <3>1, <3>2, <3>3, <3>5, <3>6
      <4>2. g[m][k] = g[j][(c - 1) + k - 1]
        BY <3>4
      <4>3. g[b][((c - 1) + k - 1) + 1] = g[j][(c - 1) + k - 1]
        BY <3>1, <4>1
      <4> QED
        BY <4>1, <4>2, <4>3
    <3> QED
      BY <3>6, <3>7
  <2> QED
    BY <2>1, <2>2
<1> HIDE DEF T
<1>6. 1 .. N + 1 \subseteq T
  BY <1>1, <1>4, <1>5, InductionFromEnd
<1>7. i \in T
  BY <1>6 DEF N
<1>8. \E j \in 1 .. N : Rest(i, a, j)
  BY <1>7 DEF T, g
<1> QED
  BY <1>8 DEF N, g

\* Patterns: no letter of the mask is in one.
Pattern == Seq(Letters) \ {<<>>}

\* A pattern is a text without letters of the mask and the notice.
LEMMA PatternType ==
  ASSUME NEW p \in Pattern
  PROVE  /\ p \in Seq(Alphabet) /\ p # <<>> /\ Len(p) \in Nat \ {0}
         /\ \A k \in 1 .. Len(p) : p[k] # "*" /\ p[k] # "omitted"
<1>1. p \in Seq(Letters) /\ p # <<>>
  BY DEF Pattern
<1>2. \A k \in 1 .. Len(p) : p[k] \in Letters
  BY <1>1
<1>3. Letters \subseteq Alphabet /\ "*" \notin Letters /\ "omitted" \notin Letters
  BY DEF Letters, Alphabet
<1>4. p \in Seq(Alphabet)
  BY <1>1, <1>3
<1> QED
  BY <1>1, <1>2, <1>3, <1>4

\* A masked text is a text.
LEMMA MaskAllType ==
  ASSUME NEW text \in Seq(Alphabet), NEW p \in Pattern
  PROVE  MaskAll(text, p) \in Seq(Alphabet)
<1>1. 1 \in 1 .. Len(text) + 1
  OBVIOUS
<1> QED
  BY <1>1, PatternType, MaskedEquation DEF MaskAll

\* A pattern of the masked text is a pattern of the text, at a place where
\* the masked one is not: masking removes its own pattern and makes no other.
LEMMA MaskMakesNone ==
  ASSUME NEW text \in Seq(Alphabet), NEW p \in Pattern, NEW q \in Pattern,
         NEW a \in 1 .. Len(MaskAll(text, p)), OccursAt(q, MaskAll(text, p), a)
  PROVE  \E j \in 1 .. Len(text) : OccursAt(q, text, j) /\ ~ OccursAt(p, text, j)
<1> DEFINE g == MaskedFrom(text, p)
           n == Len(q)
<1>1. /\ p \in Seq(Alphabet) /\ p # <<>> /\ q \in Seq(Alphabet) /\ n \in Nat \ {0}
      /\ \A k \in 1 .. n : q[k] # "*"
  BY PatternType
<1>2. 1 \in 1 .. Len(text) + 1 /\ MaskAll(text, p) = g[1] /\ Len(text) \in Nat
  BY DEF MaskAll
<1>3. PICK j \in 1 .. Len(text) :
        /\ Len(g[j]) = Len(g[1]) - a + 1
        /\ \A k \in 1 .. Len(g[j]) : g[j][k] = g[1][a + k - 1]
  <2>1. a \in 1 .. Len(MaskedFrom(text, p)[1])
    BY <1>2
  <2> QED
    BY <1>1, <1>2, <2>1, MaskedSuffix, ZenonT(30)
<1>4. a + n - 1 <= Len(g[1]) /\ \A k \in 1 .. n : g[1][a + k - 1] = q[k]
  BY <1>2 DEF OccursAt
<1>5. Len(g[1]) \in Nat
  <2>1. MaskAll(text, p) \in Seq(Alphabet)
    BY MaskAllType
  <2> QED
    BY <1>2, <2>1
<1> HIDE DEF g, n
<1>6. n <= Len(g[j]) /\ \A k \in 1 .. n : g[j][k] = q[k]
  <2>1. n <= Len(g[j])
    BY <1>1, <1>3, <1>4, <1>5
  <2>2. \A k \in 1 .. n : k \in 1 .. Len(g[j])
    BY <1>1, <1>3, <1>5, <2>1
  <2> QED
    BY <1>3, <1>4, <2>1, <2>2
<1>7. /\ j + n - 1 <= Len(text)
      /\ \A k \in 1 .. n : text[j + k - 1] = g[j][k]
      /\ ~ OccursAt(p, text, j)
  <2>1. j \in 1 .. Len(text) + 1 /\ n \in Nat /\ n > 0
    BY <1>1, <1>2
  <2>2. \A k \in 1 .. n : MaskedFrom(text, p)[j][k] # "*"
    BY <1>1, <1>6 DEF g
  <2>3. n <= Len(MaskedFrom(text, p)[j])
    BY <1>6 DEF g
  <2>4. /\ j + n - 1 <= Len(text)
        /\ \A k \in 1 .. n : text[j + k - 1] = MaskedFrom(text, p)[j][k]
        /\ n > 0 => ~ OccursAt(p, text, j)
    BY <1>1, <2>1, <2>2, <2>3, MaskedPrefix, Zenon
  <2> QED
    BY <2>1, <2>4 DEF g
<1>8. OccursAt(q, text, j)
  BY <1>6, <1>7 DEF OccursAt, n
<1> QED
  BY <1>7, <1>8

\* A text without the pattern stays as it is.
LEMMA MaskKeepsOthers ==
  ASSUME NEW text \in Seq(Alphabet), NEW p \in Pattern, \A i \in 1 .. Len(text) : ~ OccursAt(p, text, i)
  PROVE  MaskAll(text, p) = text
<1> DEFINE N == Len(text)
           g == MaskedFrom(text, p)
           Same(a) == Len(g[a]) = N + 1 - a /\ \A k \in 1 .. N + 1 - a : g[a][k] = text[a + k - 1]
           T == {a \in 1 .. N + 1 : Same(a)}
<1>1. N \in Nat /\ N + 1 \in 1 .. N + 1 /\ 1 \in 1 .. N + 1
  OBVIOUS
<1>2. p \in Seq(Alphabet) /\ p # <<>>
  BY PatternType
<1>3. g[N + 1] = <<>>
  BY <1>2, MaskedEnd
<1> HIDE DEF N, g
<1>4. N + 1 \in T
  BY <1>1, <1>3
<1>5. ASSUME NEW a \in 1 .. N, \A j \in a + 1 .. N + 1 : j \in T PROVE a \in T
  <2>1. ~ OccursAt(p, text, a)
    BY DEF N
  <2>2. PICK j \in a + 1 .. N + 1 :
          /\ Len(g[a]) = Len(g[j]) + 1
          /\ \A k \in 1 .. Len(g[j]) : g[a][k + 1] = g[j][k]
          /\ IF OccursAt(p, text, a) THEN g[a][1] = "*" ELSE j = a + 1 /\ g[a][1] = text[a]
    BY <1>2, MaskedLetter DEF N, g
  <2>3. j = a + 1 /\ g[a][1] = text[a] /\ Same(j)
    BY <1>5, <2>1, <2>2
  <2>4. ASSUME NEW k \in 1 .. N + 1 - a PROVE g[a][k] = text[a + k - 1]
    <3>1. CASE k = 1
      BY <2>3, <3>1
    <3>2. CASE k # 1
      <4>1. k - 1 \in 1 .. N + 1 - j /\ (k - 1) + 1 = k /\ j + (k - 1) - 1 = a + k - 1
        BY <1>1, <2>3, <3>2
      <4>2. g[a][(k - 1) + 1] = g[j][k - 1] /\ g[j][k - 1] = text[j + (k - 1) - 1]
        BY <2>2, <2>3, <4>1
      <4> QED
        BY <4>1, <4>2
    <3> QED
      BY <3>1, <3>2
  <2>5. Len(g[a]) = N + 1 - a
    BY <1>1, <2>2, <2>3
  <2> QED
    BY <1>1, <2>4, <2>5, SMTT(30)
<1> HIDE DEF T
<1>6. 1 .. N + 1 \subseteq T
  BY <1>1, <1>4, <1>5, InductionFromEnd
<1>7. Same(1)
  BY <1>1, <1>6 DEF T
<1>8. Len(g[1]) = N /\ \A k \in 1 .. N : g[1][k] = text[k]
  BY <1>1, <1>7
<1>9. g[1] \in Seq(Alphabet)
  BY MaskAllType DEF MaskAll, g
<1>10. g[1] = text
  BY <1>8, <1>9 DEF N
<1> QED
  BY <1>10 DEF MaskAll, g

\* A text that is the pattern becomes the mask.
LEMMA MaskWhole ==
  ASSUME NEW p \in Pattern PROVE MaskAll(p, p) = Mask
<1> DEFINE g == MaskedFrom(p, p)
<1>1. p \in Seq(Alphabet) /\ p # <<>> /\ Len(p) \in Nat \ {0}
  BY PatternType
<1>2. OccursAt(p, p, 1)
  BY <1>1 DEF OccursAt
<1>3. 1 \in 1 .. Len(p) + 1 /\ 1 # Len(p) + 1 /\ 1 + Len(p) = Len(p) + 1
  BY <1>1
<1>4. g[1] = Mask \o g[Len(p) + 1]
  BY <1>1, <1>2, <1>3, MaskedEquation DEF MaskRule
<1>5. g[Len(p) + 1] = <<>>
  BY <1>1, MaskedEnd
<1>6. Mask \o <<>> = Mask
  BY DEF Mask
<1> QED
  BY <1>4, <1>5, <1>6 DEF MaskAll

\* MaskedBy satisfies its equation, and its values are texts.
LEMMA RedactEquation ==
  ASSUME NEW line \in Seq(Alphabet), NEW ps \in Seq(Pattern)
  PROVE  /\ MaskedBy(line, ps) \in [0 .. Len(ps) -> Seq(Alphabet)]
         /\ MaskedBy(line, ps)[0] = line
         /\ \A k \in 1 .. Len(ps) : MaskedBy(line, ps)[k] = MaskAll(MaskedBy(line, ps)[k - 1], ps[k])
<1> DEFINE N == Len(ps)
           S == Seq(Alphabet)
           step == [x \in (1 .. N) \X S |-> MaskAll(x[2], ps[x[1]])]
           Eq(f) == f = [k \in 0 .. N |-> IF k = 0 THEN line ELSE MaskAll(f[k - 1], ps[k])]
           u == MaskedBy(line, ps)
<1>1. N \in Nat /\ line \in S /\ \A k \in 1 .. N : ps[k] \in Pattern
  OBVIOUS
<1>2. \A k \in 1 .. N, v \in S : step[<<k, v>>] = MaskAll(v, ps[k])
  OBVIOUS
<1>3. IsStep(step, S, N)
  BY <1>1, <1>2, MaskAllType DEF IsStep
<1>4. u = CHOOSE g : Eq(g)
  BY DEF MaskedBy
<1> HIDE DEF N, step, S, u
<1>5. PICK f : Iterates(f, S, line, step, N)
  BY <1>1, <1>3, RecursionExists
<1>6. Eq(f)
  <2>1. \A k \in 1 .. N : f[k] = MaskAll(f[k - 1], ps[k])
    <3> SUFFICES ASSUME NEW k \in 1 .. N PROVE f[k] = MaskAll(f[k - 1], ps[k])
      OBVIOUS
    <3>1. k - 1 \in 0 .. N
      BY <1>1
    <3> QED
      BY <1>2, <1>5, <3>1 DEF Iterates
  <2> QED
    BY <1>5, <2>1 DEF Iterates
<1>7. Eq(u)
  BY <1>4, <1>6
<1>8. DOMAIN u = 0 .. N /\ u[0] = line /\ \A k \in 1 .. N : u[k] = MaskAll(u[k - 1], ps[k])
  BY <1>1, <1>7
<1>9. 0 .. N \subseteq {k \in 0 .. N : u[k] \in S}
  <2> DEFINE T == {k \in 0 .. N : u[k] \in S}
  <2>1. 0 \in T
    BY <1>1, <1>8
  <2>2. ASSUME NEW k \in 1 .. N, k - 1 \in T PROVE k \in T
    <3>1. u[k - 1] \in S /\ ps[k] \in Pattern /\ u[k] = MaskAll(u[k - 1], ps[k])
      BY <1>1, <1>8, <2>2
    <3>2. u[k] \in S
      BY <3>1, MaskAllType DEF S
    <3> QED
      BY <1>1, <3>2
  <2> HIDE DEF T
  <2>3. 0 .. N \subseteq T
    BY <1>1, <2>1, <2>2, InductionUpTo
  <2> QED
    BY <2>3 DEF T
<1>10. u \in [0 .. N -> S]
  BY <1>7, <1>9
<1> QED
  BY <1>8, <1>10 DEF N, u, S

\* Whatever the order of the patterns, none is left.
LEMMA RedactLeavesNone ==
  ASSUME NEW line \in Seq(Alphabet), NEW ps \in Seq(Pattern)
  PROVE  LET r == MaskedBy(line, ps)[Len(ps)] IN
         /\ r \in Seq(Alphabet)
         /\ \A k \in 1 .. Len(ps), i \in 1 .. Len(r) : ~ OccursAt(ps[k], r, i)
<1> DEFINE N == Len(ps)
           m == MaskedBy(line, ps)
           T == {n \in 0 .. N : \A k \in 1 .. n : \A i \in 1 .. Len(m[n]) : ~ OccursAt(ps[k], m[n], i)}
<1>1. N \in Nat /\ N \in 0 .. N /\ \A k \in 1 .. N : ps[k] \in Pattern
  OBVIOUS
<1>2. /\ \A n \in 0 .. N : m[n] \in Seq(Alphabet)
      /\ \A n \in 1 .. N : m[n] = MaskAll(m[n - 1], ps[n])
  BY RedactEquation
<1> HIDE DEF N, m
<1>3. 0 \in T
  BY <1>1
<1>4. ASSUME NEW n \in 1 .. N, n - 1 \in T PROVE n \in T
  <2> SUFFICES ASSUME NEW k \in 1 .. n, NEW i \in 1 .. Len(m[n]), OccursAt(ps[k], m[n], i) PROVE FALSE
    BY <1>1
  <2>1. n - 1 \in 0 .. N /\ m[n - 1] \in Seq(Alphabet) /\ m[n] = MaskAll(m[n - 1], ps[n])
    BY <1>1, <1>2
  <2>2. ps[n] \in Pattern /\ ps[k] \in Pattern
    BY <1>1
  <2>3. PICK j \in 1 .. Len(m[n - 1]) : OccursAt(ps[k], m[n - 1], j) /\ ~ OccursAt(ps[n], m[n - 1], j)
    BY <2>1, <2>2, MaskMakesNone
  <2>4. k # n
    BY <2>3
  <2>5. k \in 1 .. n - 1
    BY <2>4
  <2> QED
    BY <1>4, <2>3, <2>5
<1> HIDE DEF T
<1>5. N \in T
  BY <1>1, <1>3, <1>4, InductionUpTo
<1> QED
  BY <1>1, <1>2, <1>5 DEF T, N, m

LongestFirst(ps) == \A i, j \in 1 .. Len(ps) : i < j => Len(ps[i]) >= Len(ps[j])

\* With the longest first, a pattern becomes the mask and nothing else.
LEMMA RedactMasksWhole ==
  ASSUME NEW ps \in Seq(Pattern), LongestFirst(ps), NEW h \in 1 .. Len(ps)
  PROVE  MaskedBy(ps[h], ps)[Len(ps)] = Mask
<1> DEFINE N == Len(ps)
           p == ps[h]
           m == MaskedBy(p, ps)
           T == {n \in 0 .. N : m[n] \in {p, Mask} /\ (m[n] = p => \A k \in 1 .. n : ps[k] # p)}
<1>1. N \in Nat /\ N \in 0 .. N /\ p \in Pattern /\ \A k \in 1 .. N : ps[k] \in Pattern
  OBVIOUS
<1>2. p \in Seq(Alphabet)
  BY <1>1, PatternType
<1>3. m[0] = p /\ \A n \in 1 .. N : m[n] = MaskAll(m[n - 1], ps[n])
  BY <1>2, RedactEquation
<1>4. h \in 1 .. N /\ \A i, j \in 1 .. N : i < j => Len(ps[i]) >= Len(ps[j])
  BY DEF LongestFirst
<1>p. p = ps[h]
  OBVIOUS
<1> HIDE DEF N, m, p
<1>5. Mask \in Seq(Alphabet) /\ Len(Mask) = 1 /\ Mask[1] = "*"
  BY DEF Mask, Alphabet
<1>6. \A q \in Pattern : MaskAll(Mask, q) = Mask
  <2> SUFFICES ASSUME NEW q \in Pattern PROVE MaskAll(Mask, q) = Mask
    OBVIOUS
  <2>1. ASSUME NEW i \in 1 .. Len(Mask), OccursAt(q, Mask, i) PROVE FALSE
    <3>1. i = 1 /\ 1 \in 1 .. Len(q) /\ q[1] # "*"
      BY <1>5, PatternType
    <3>2. Mask[i + 1 - 1] = q[1]
      BY <2>1, <3>1 DEF OccursAt
    <3> QED
      BY <1>5, <3>1, <3>2
  <2> QED
    BY <1>5, <2>1, MaskKeepsOthers
<1>7. Mask # p
  <2>1. 1 \in 1 .. Len(p) /\ p[1] # "*"
    BY <1>1, PatternType
  <2> QED
    BY <1>5, <2>1
<1>8. 0 \in T
  BY <1>1, <1>3
<1>9. ASSUME NEW n \in 1 .. N, n - 1 \in T PROVE n \in T
  <2>1. m[n] = MaskAll(m[n - 1], ps[n]) /\ ps[n] \in Pattern
    BY <1>1, <1>3
  <2>2. CASE m[n - 1] = Mask
    BY <1>1, <1>6, <1>7, <2>1, <2>2
  <2>3. CASE m[n - 1] = p /\ ps[n] = p
    <3>1. m[n] = Mask
      BY <1>1, <2>1, <2>3, MaskWhole
    <3> QED
      BY <1>1, <1>7, <3>1
  <2>4. CASE m[n - 1] = p /\ ps[n] # p
    <3>1. \A k \in 1 .. n - 1 : ps[k] # p
      BY <1>9, <2>4
    <3>2. h > n
      BY <1>1, <1>4, <1>p, <2>4, <3>1
    <3>3. Len(ps[n]) >= Len(p)
      BY <1>4, <1>p, <3>2
    <3>4. ASSUME NEW i \in 1 .. Len(p), OccursAt(ps[n], p, i) PROVE FALSE
      <4>1. Len(ps[n]) \in Nat /\ Len(p) \in Nat
        BY <1>1, PatternType
      <4>2. i = 1 /\ Len(ps[n]) = Len(p) /\ \A k \in 1 .. Len(ps[n]) : p[i + k - 1] = ps[n][k]
        BY <3>3, <3>4, <4>1 DEF OccursAt
      <4>3. \A k \in 1 .. Len(p) : p[k] = ps[n][k]
        BY <4>1, <4>2
      <4>4. ps[n] \in Seq(Alphabet)
        BY <1>1, PatternType
      <4> QED
        BY <1>2, <2>4, <4>2, <4>3, <4>4
    <3>5. m[n] = p
      BY <1>2, <2>1, <2>4, <3>4, MaskKeepsOthers
    <3> QED
      BY <1>1, <2>4, <3>1, <3>5
  <2> QED
    BY <1>9, <2>2, <2>3, <2>4
<1> HIDE DEF T
<1>10. N \in T
  BY <1>1, <1>8, <1>9, InductionUpTo
<1>11. m[N] = Mask
  BY <1>10, <1>4, <1>p DEF T
<1> QED
  BY <1>11 DEF m, N, p

-----------------------------------------------------------------------------
\* What is emitted for a line and for lines, and the state of a stream, by
\* the lines that were delivered.
ShownBy(ps, line) == IF Len(line) > MaxLogLineBytes THEN Omitted ELSE MaskedBy(line, ps)[Len(ps)]
ShownAll(ps, E) == [k \in 1 .. Len(E) |-> ShownBy(ps, E[k])]
StateOf(ps, E, r) ==
  IF Len(r) > MaxLogLineBytes
  THEN [buffer |-> <<>>, dropping |-> TRUE, out |-> Append(ShownAll(ps, E), Omitted)]
  ELSE [buffer |-> r, dropping |-> FALSE, out |-> ShownAll(ps, E)]

\* What is emitted for a line is a text.
LEMMA ShownType ==
  ASSUME NEW ps \in Seq(Pattern), NEW line \in Seq(Alphabet) PROVE ShownBy(ps, line) \in Seq(Alphabet)
<1>1. Omitted \in Seq(Alphabet)
  BY DEF Omitted, Alphabet
<1> QED
  BY <1>1, RedactLeavesNone DEF ShownBy

\* What is emitted for lines is a text for each.
LEMMA ShownAllType ==
  ASSUME NEW ps \in Seq(Pattern), NEW E \in Seq(Seq(Alphabet))
  PROVE  ShownAll(ps, E) \in Seq(Seq(Alphabet)) /\ Len(ShownAll(ps, E)) = Len(E)
<1>1. Len(E) \in Nat /\ \A k \in 1 .. Len(E) : E[k] \in Seq(Alphabet)
  OBVIOUS
<1>2. \A k \in 1 .. Len(E) : ShownBy(ps, E[k]) \in Seq(Alphabet)
  BY <1>1, ShownType
<1> QED
  BY <1>1, <1>2 DEF ShownAll

\* A line more is a text more.
LEMMA ShownAppend ==
  ASSUME NEW ps \in Seq(Pattern), NEW E \in Seq(Seq(Alphabet)), NEW x \in Seq(Alphabet)
  PROVE  ShownAll(ps, Append(E, x)) = Append(ShownAll(ps, E), ShownBy(ps, x))
<1> DEFINE F == Append(E, x)
           S == ShownAll(ps, E)
           y == ShownBy(ps, x)
<1>1. F \in Seq(Seq(Alphabet)) /\ Len(F) = Len(E) + 1 /\ F[Len(E) + 1] = x /\ \A k \in 1 .. Len(E) : F[k] = E[k]
  OBVIOUS
<1>2. Len(E) \in Nat
  OBVIOUS
<1>3. y \in Seq(Alphabet) /\ S \in Seq(Seq(Alphabet)) /\ Len(S) = Len(E)
  BY ShownType, ShownAllType
<1>4. \A k \in 1 .. Len(E) : S[k] = ShownBy(ps, E[k])
  BY DEF ShownAll
<1> HIDE DEF F, S, y
<1>5. Append(S, y) \in Seq(Seq(Alphabet)) /\ Len(Append(S, y)) = Len(E) + 1
  BY <1>3
<1>6. Append(S, y) = [k \in 1 .. Len(E) + 1 |-> Append(S, y)[k]]
  BY <1>5, SeqIsFunction
<1>7. ShownAll(ps, F) = [k \in 1 .. Len(E) + 1 |-> ShownBy(ps, F[k])]
  BY <1>1 DEF ShownAll
<1>8. ASSUME NEW k \in 1 .. Len(E) + 1 PROVE Append(S, y)[k] = ShownBy(ps, F[k])
  <2>1. CASE k = Len(E) + 1
    BY <1>1, <1>3, <2>1 DEF y
  <2>2. CASE k # Len(E) + 1
    <3>1. k \in 1 .. Len(E)
      BY <1>2, <2>2
    <3>2. Append(S, y)[k] = S[k]
      BY <1>3, <3>1
    <3> QED
      BY <1>1, <1>4, <3>1, <3>2
  <2> QED
    BY <2>1, <2>2
<1>9. ShownAll(ps, F) = Append(S, y)
  BY <1>6, <1>7, <1>8
<1> QED
  BY <1>9 DEF F, S, y

\* One turn of the loop, case by case.
LEMMA PushPartDropping ==
  ASSUME NEW o, NEW part
  PROVE  LET st == [buffer |-> <<>>, dropping |-> TRUE, out |-> o] IN
         /\ PushPart(st, part, TRUE) = [buffer |-> <<>>, dropping |-> FALSE, out |-> o]
         /\ PushPart(st, part, FALSE) = [buffer |-> <<>>, dropping |-> TRUE, out |-> o]
BY DEF PushPart

\* A line that has become too long is omitted.
LEMMA PushPartOversized ==
  ASSUME NEW b, NEW o, NEW part, ~ (Len(b \o part) <= MaxLogLineBytes)
  PROVE  LET st == [buffer |-> b, dropping |-> FALSE, out |-> o] IN
         /\ PushPart(st, part, TRUE) = [buffer |-> <<>>, dropping |-> FALSE, out |-> Append(o, Omitted)]
         /\ PushPart(st, part, FALSE) = [buffer |-> <<>>, dropping |-> TRUE, out |-> Append(o, Omitted)]
BY DEF PushPart

\* A line that fits is emitted at its end, and kept until then.
LEMMA PushPartFits ==
  ASSUME NEW b, NEW o, NEW part, Len(b \o part) <= MaxLogLineBytes
  PROVE  LET st == [buffer |-> b, dropping |-> FALSE, out |-> o] IN
         /\ PushPart(st, part, TRUE) = [buffer |-> <<>>, dropping |-> FALSE, out |-> Append(o, redact(b \o part))]
         /\ PushPart(st, part, FALSE) = [buffer |-> b \o part, dropping |-> FALSE, out |-> o]
BY DEF PushPart

\* One turn of the loop, for a part that a newline ends and for the last.
LEMMA PushTurns ==
  ASSUME lpatterns \in Seq(Pattern), NEW E \in Seq(Seq(Alphabet)), NEW r \in Seq(Alphabet), NEW part \in Seq(Alphabet)
  PROVE  /\ PushPart(StateOf(lpatterns, E, r), part, TRUE) = StateOf(lpatterns, Append(E, r \o part), <<>>)
         /\ PushPart(StateOf(lpatterns, E, r), part, FALSE) = StateOf(lpatterns, E, r \o part)
<1> DEFINE S == ShownAll(lpatterns, E)
           line == r \o part
           st == StateOf(lpatterns, E, r)
<1>1. /\ Len(r) \in Nat /\ Len(part) \in Nat /\ Len(line) = Len(r) + Len(part)
      /\ MaxLogLineBytes \in Nat \ {0} /\ Len(<<>>) = 0
  BY RedactorAssumption
<1>2. line \in Seq(Alphabet)
  OBVIOUS
<1>3. ShownAll(lpatterns, Append(E, line)) = Append(S, ShownBy(lpatterns, line))
  BY <1>2, ShownAppend
<1>4. StateOf(lpatterns, Append(E, line), <<>>) =
        [buffer |-> <<>>, dropping |-> FALSE, out |-> Append(S, ShownBy(lpatterns, line))]
  <2>1. ~ (Len(<<>>) > MaxLogLineBytes)
    BY <1>1
  <2> QED
    BY <1>3, <2>1 DEF StateOf
<1>5. ShownBy(lpatterns, line) = IF Len(line) > MaxLogLineBytes THEN Omitted ELSE redact(line)
  BY DEF ShownBy, redact
<1>6. CASE Len(r) > MaxLogLineBytes
  <2>1. st = [buffer |-> <<>>, dropping |-> TRUE, out |-> Append(S, Omitted)]
    BY <1>6 DEF StateOf
  <2>2. Len(line) > MaxLogLineBytes
    BY <1>1, <1>6
  <2>3. StateOf(lpatterns, E, line) = [buffer |-> <<>>, dropping |-> TRUE, out |-> Append(S, Omitted)]
    BY <2>2 DEF StateOf
  <2> HIDE DEF S, st, line
  <2>4. /\ PushPart(st, part, TRUE) = [buffer |-> <<>>, dropping |-> FALSE, out |-> Append(S, Omitted)]
        /\ PushPart(st, part, FALSE) = [buffer |-> <<>>, dropping |-> TRUE, out |-> Append(S, Omitted)]
    BY <2>1, PushPartDropping
  <2>5. PushPart(st, part, TRUE) = StateOf(lpatterns, Append(E, line), <<>>)
    BY <1>4, <1>5, <2>2, <2>4
  <2>6. PushPart(st, part, FALSE) = StateOf(lpatterns, E, line)
    BY <2>3, <2>4
  <2> QED
    BY <2>5, <2>6 DEF st, line
<1>7. CASE ~ (Len(r) > MaxLogLineBytes)
  <2>1. st = [buffer |-> r, dropping |-> FALSE, out |-> S]
    BY <1>7 DEF StateOf
  <2>2. CASE Len(line) > MaxLogLineBytes
    <3>1. ~ (Len(r \o part) <= MaxLogLineBytes)
      BY <1>1, <2>2
    <3>2. StateOf(lpatterns, E, line) = [buffer |-> <<>>, dropping |-> TRUE, out |-> Append(S, Omitted)]
      BY <2>2 DEF StateOf
    <3> HIDE DEF S, st, line
    <3>3. /\ PushPart(st, part, TRUE) = [buffer |-> <<>>, dropping |-> FALSE, out |-> Append(S, Omitted)]
          /\ PushPart(st, part, FALSE) = [buffer |-> <<>>, dropping |-> TRUE, out |-> Append(S, Omitted)]
      BY <2>1, <3>1, PushPartOversized
    <3>4. PushPart(st, part, TRUE) = StateOf(lpatterns, Append(E, line), <<>>)
      BY <1>4, <1>5, <2>2, <3>3
    <3>5. PushPart(st, part, FALSE) = StateOf(lpatterns, E, line)
      BY <3>2, <3>3
    <3> QED
      BY <3>4, <3>5 DEF st, line
  <2>3. CASE ~ (Len(line) > MaxLogLineBytes)
    <3>1. Len(r \o part) <= MaxLogLineBytes
      <4>1. Len(line) \in Nat /\ MaxLogLineBytes \in Nat
        BY <1>1
      <4> HIDE DEF line
      <4>2. Len(line) <= MaxLogLineBytes
        BY <2>3, <4>1
      <4> QED
        BY <4>2 DEF line
    <3>2. StateOf(lpatterns, E, line) = [buffer |-> line, dropping |-> FALSE, out |-> S]
      <4> HIDE DEF line
      <4> QED
        BY <2>3 DEF StateOf
    <3> HIDE DEF S, st
    <3>3. /\ PushPart(st, part, TRUE) = [buffer |-> <<>>, dropping |-> FALSE, out |-> Append(S, redact(line))]
          /\ PushPart(st, part, FALSE) = [buffer |-> line, dropping |-> FALSE, out |-> S]
      <4> DEFINE now == [buffer |-> r, dropping |-> FALSE, out |-> S]
      <4>1. /\ PushPart(now, part, TRUE) = [buffer |-> <<>>, dropping |-> FALSE, out |-> Append(S, redact(r \o part))]
            /\ PushPart(now, part, FALSE) = [buffer |-> r \o part, dropping |-> FALSE, out |-> S]
        BY <3>1, PushPartFits, ZenonT(30)
      <4> HIDE DEF now
      <4>2. st = now
        BY <2>1 DEF now
      <4> QED
        BY <4>1, <4>2
    <3> HIDE DEF line
    <3>4. PushPart(st, part, TRUE) = StateOf(lpatterns, Append(E, line), <<>>)
      BY <1>4, <1>5, <2>3, <3>3
    <3>5. PushPart(st, part, FALSE) = StateOf(lpatterns, E, line)
      BY <3>2, <3>3
    <3> QED
      BY <3>4, <3>5 DEF st, line
  <2> QED
    BY <2>2, <2>3
<1> QED
  BY <1>6, <1>7

\* Only the empty sequence has length zero.
LEMMA EmptySeq ==
  ASSUME NEW A, NEW s \in Seq(A) PROVE s = <<>> <=> Len(s) = 0
OBVIOUS

\* One more part that a newline ends.
LEMMA PushNext ==
  ASSUME lpatterns \in Seq(Pattern), NEW E \in Seq(Seq(Alphabet)), NEW r \in Seq(Alphabet),
         NEW P \in Seq(Seq(Alphabet)), NEW x \in Seq(Alphabet)
  PROVE  PushPart(StateOf(lpatterns, E \o Continued(r, P), IF P = <<>> THEN r ELSE <<>>), x, TRUE)
         = StateOf(lpatterns, E \o Continued(r, Append(P, x)), <<>>)
<1> DEFINE s == IF P = <<>> THEN r ELSE <<>>
           C == Continued(r, P)
           y == s \o x
<1>1. C \in Seq(Seq(Alphabet))
  BY ContinuedType
<1>2. Continued(r, Append(P, x)) = Append(C, IF P = <<>> THEN r \o x ELSE x)
  BY ContinuedAppend
<1>3. s \in Seq(Alphabet) /\ y \in Seq(Alphabet)
  OBVIOUS
<1>4. <<>> \o x = x
  OBVIOUS
<1>5. Continued(r, Append(P, x)) = Append(C, y)
  BY <1>2, <1>4
<1> HIDE DEF C, y, s
<1>6. E \o C \in Seq(Seq(Alphabet)) /\ E \o Append(C, y) = Append(E \o C, y)
  <2>1. C \in Seq(Seq(Alphabet)) /\ y \in Seq(Alphabet)
    BY <1>1, <1>3
  <2> DEFINE B == Seq(Alphabet)
  <2>2. E \in Seq(B) /\ C \in Seq(B) /\ y \in B
    BY <2>1
  <2> HIDE DEF B
  <2>3. E \o C \in Seq(B) /\ E \o Append(C, y) = Append(E \o C, y)
    BY <2>2
  <2> QED
    BY <2>3 DEF B
<1>7. PushPart(StateOf(lpatterns, E \o C, s), x, TRUE) = StateOf(lpatterns, Append(E \o C, s \o x), <<>>)
  BY <1>3, <1>6, PushTurns
<1> QED
  BY <1>5, <1>6, <1>7 DEF C, y, s

\* All turns of the loop for the parts that newlines end.
LEMMA PushedPartsState ==
  ASSUME lpatterns \in Seq(Pattern), NEW E \in Seq(Seq(Alphabet)), NEW r \in Seq(Alphabet), NEW V \in Seq(Seq(Alphabet)),
         [buffer |-> lbuffer, dropping |-> ldropping, out |-> lout] = StateOf(lpatterns, E, r)
  PROVE  PushedParts(V)[Len(V)] = StateOf(lpatterns, E \o Continued(r, V), IF V = <<>> THEN r ELSE <<>>)
<1> DEFINE N == Len(V)
           V1(k) == SubSeq(V, 1, k)
           F(k) == StateOf(lpatterns, E \o Continued(r, V1(k)), IF k = 0 THEN r ELSE <<>>)
           start == [buffer |-> lbuffer, dropping |-> ldropping, out |-> lout]
           Eq(f) == f = [k \in 0 .. N |-> IF k = 0 THEN start ELSE PushPart(f[k - 1], V[k], TRUE)]
           g == PushedParts(V)
<1>1. N \in Nat /\ N \in 0 .. N /\ \A k \in 1 .. N : V[k] \in Seq(Alphabet)
  OBVIOUS
<1>2. F(0) = start
  <2>1. V1(0) = <<>>
    OBVIOUS
  <2>2. Continued(r, <<>>) = <<>>
    BY DEF Continued
  <2>3. E \o <<>> = E
    BY ConcatAppend
  <2> QED
    BY <2>1, <2>2, <2>3
<1>3. ASSUME NEW k \in 1 .. N PROVE F(k) = PushPart(F(k - 1), V[k], TRUE)
  <2> DEFINE P == V1(k - 1)
             x == V[k]
  <2>1. P \in Seq(Seq(Alphabet)) /\ V1(k) = Append(P, x) /\ x \in Seq(Alphabet) /\ Len(P) = k - 1
    OBVIOUS
  <2>2. F(k) = StateOf(lpatterns, E \o Continued(r, V1(k)), <<>>)
    OBVIOUS
  <2>3. F(k - 1) = StateOf(lpatterns, E \o Continued(r, P), IF k - 1 = 0 THEN r ELSE <<>>)
    OBVIOUS
  <2> HIDE DEF P, x, V1, F, N
  <2>4. P = <<>> <=> k - 1 = 0
    BY <2>1, EmptySeq
  <2>5. F(k - 1) = StateOf(lpatterns, E \o Continued(r, P), IF P = <<>> THEN r ELSE <<>>)
    BY <2>3, <2>4
  <2>6. /\ P \in Seq(Seq(Alphabet)) /\ x \in Seq(Alphabet)
        /\ F(k) = StateOf(lpatterns, E \o Continued(r, Append(P, x)), <<>>)
    BY <2>1, <2>2
  <2>7. PushPart(F(k - 1), x, TRUE) = F(k)
    <3>1. \A Q \in Seq(Seq(Alphabet)), z \in Seq(Alphabet) :
             PushPart(StateOf(lpatterns, E \o Continued(r, Q), IF Q = <<>> THEN r ELSE <<>>), z, TRUE)
             = StateOf(lpatterns, E \o Continued(r, Append(Q, z)), <<>>)
      BY PushNext
    <3>2. PushPart(StateOf(lpatterns, E \o Continued(r, P), IF P = <<>> THEN r ELSE <<>>), x, TRUE)
          = StateOf(lpatterns, E \o Continued(r, Append(P, x)), <<>>)
      BY <2>6, <3>1, Zenon
    <3> QED
      BY <2>5, <2>6, <3>2
  <2> QED
    BY <2>7 DEF x
<1>4. g = CHOOSE f : Eq(f)
  BY DEF PushedParts
<1> HIDE DEF N, F, g, start
<1>5. Eq([k \in 0 .. N |-> F(k)])
  <2> DEFINE f == [k \in 0 .. N |-> F(k)]
  <2>1. ASSUME NEW k \in 0 .. N PROVE f[k] = IF k = 0 THEN start ELSE PushPart(f[k - 1], V[k], TRUE)
    <3>1. CASE k = 0
      BY <1>1, <1>2, <3>1
    <3>2. CASE k # 0
      <4>1. k \in 1 .. N /\ k - 1 \in 0 .. N
        BY <1>1, <3>2
      <4>2. f[k] = F(k) /\ f[k - 1] = F(k - 1)
        BY <4>1
      <4> HIDE DEF f
      <4> QED
        BY <1>3, <3>2, <4>1, <4>2
    <3> QED
      BY <3>1, <3>2
  <2> QED
    BY <2>1
<1>6. Eq(g)
  BY <1>4, <1>5
<1>7. g[0] = start /\ \A k \in 1 .. N : g[k] = PushPart(g[k - 1], V[k], TRUE)
  <2>1. ASSUME NEW k \in 0 .. N PROVE g[k] = IF k = 0 THEN start ELSE PushPart(g[k - 1], V[k], TRUE)
    BY <1>6, Zenon
  <2>2. 0 \in 0 .. N /\ \A k \in 1 .. N : k \in 0 .. N /\ k # 0
    BY <1>1
  <2> QED
    BY <2>1, <2>2
<1>8. g[N] = F(N)
  <2> DEFINE T == {k \in 0 .. N : g[k] = F(k)}
  <2>1. 0 \in T
    BY <1>1, <1>2, <1>7
  <2>2. ASSUME NEW k \in 1 .. N, k - 1 \in T PROVE k \in T
    <3>1. g[k] = PushPart(F(k - 1), V[k], TRUE)
      BY <1>7, <2>2
    <3>2. F(k) = PushPart(F(k - 1), V[k], TRUE)
      BY <1>3
    <3>3. k \in 0 .. N
      BY <1>1
    <3> QED
      BY <3>1, <3>2, <3>3
  <2> HIDE DEF T
  <2>3. N \in T
    BY <1>1, <2>1, <2>2, InductionUpTo
  <2> QED
    BY <2>3 DEF T
<1>9. V1(N) = V /\ (N = 0 <=> V = <<>>)
  BY DEF N
<1> QED
  BY <1>8, <1>9 DEF F, N, g

-----------------------------------------------------------------------------
\* The patterns of a redactor: every variant, the longest first.
LEMMA VariantType == Variants \subseteq Pattern
<1> SUFFICES ASSUME NEW p \in Variants PROVE p \in Pattern
  OBVIOUS
<1>1. PICK s \in Secrets : p \in {s, LinesOf(s).rest} \cup Range(LinesOf(s).ended)
  BY DEF Variants
<1>2. s \in Seq(Letters)
  BY RedactorAssumption
<1>3. LinesOf(s) \in Lines(Letters)
  BY <1>2, LinesType
<1>4. LinesOf(s).rest \in Seq(Letters) /\ LinesOf(s).ended \in Seq(Seq(Letters))
  BY <1>3 DEF Lines
<1> DEFINE E == LinesOf(s).ended
<1>5. \A x \in Range(E) : x \in Seq(Letters)
  <2> HIDE DEF E
  <2>1. E \in Seq(Seq(Letters))
    BY <1>4 DEF E
  <2> QED
    BY <2>1 DEF Range
<1>6. p # <<>>
  BY DEF Variants
<1> QED
  BY <1>1, <1>2, <1>4, <1>5, <1>6 DEF Pattern

\* There are finitely many patterns.
LEMMA VariantsAreFinite == IsFiniteSet(Variants)
<1> DEFINE P(s) == {s, LinesOf(s).rest} \cup Range(LinesOf(s).ended)
           f == [s \in Secrets |-> P(s)]
           R == {f[s] : s \in Secrets}
<1>1. IsFiniteSet(Secrets)
  BY RedactorAssumption
<1>2. IsFiniteSet(R)
  <2>1. f \in Surjection(Secrets, R)
    <3> HIDE DEF P
    <3>1. f \in [Secrets -> R] /\ \A t \in R : \E s \in Secrets : f[s] = t
      OBVIOUS
    <3> QED
      BY <3>1 DEF Surjection
  <2> QED
    BY <1>1, <2>1, FS_Surjection
<1>3. ASSUME NEW t \in R PROVE IsFiniteSet(t)
  <2>1. PICK s \in Secrets : t = P(s)
    OBVIOUS
  <2> DEFINE E == LinesOf(s).ended
  <2>2. E \in Seq(Seq(Letters))
    <3>1. s \in Seq(Letters)
      BY RedactorAssumption
    <3>2. LinesOf(s) \in Lines(Letters)
      BY <3>1, LinesType
    <3> QED
      BY <3>2 DEF Lines
  <2> HIDE DEF E
  <2>3. IsFiniteSet(Range(E))
    <3>1. Len(E) \in Nat /\ DOMAIN E = 1 .. Len(E) /\ E = [k \in 1 .. Len(E) |-> E[k]]
      BY <2>2, SeqIsFunction
    <3>2. IsFiniteSet(1 .. Len(E))
      BY <3>1, FS_Interval
    <3>3. E \in Surjection(1 .. Len(E), Range(E))
      BY <3>1 DEF Surjection, Range
    <3> QED
      BY <3>2, <3>3, FS_Surjection
  <2>4. IsFiniteSet({s, LinesOf(s).rest})
    <3>1. IsFiniteSet({s} \cup {LinesOf(s).rest})
      BY FS_Singleton, FS_Union
    <3>2. {s} \cup {LinesOf(s).rest} = {s, LinesOf(s).rest}
      OBVIOUS
    <3> QED
      BY <3>1, <3>2
  <2>5. IsFiniteSet({s, LinesOf(s).rest} \cup Range(E))
    BY <2>3, <2>4, FS_Union
  <2> QED
    BY <2>1, <2>5 DEF E
<1>4. IsFiniteSet(UNION R)
  <2> HIDE DEF R
  <2> QED
    BY <1>2, <1>3, FS_UNION
<1>5. Variants \in SUBSET UNION R
  BY DEF Variants
<1> QED
  BY <1>4, <1>5, FS_Subset

\* What NewRedactor returns has every variant, the longest first.
LEMMA RedactorPatterns ==
  ASSUME NEW ps \in NewRedactor
  PROVE  /\ ps \in Seq(Pattern) /\ LongestFirst(ps)
         /\ \A p \in Variants : \E h \in 1 .. Len(ps) : ps[h] = p
<1> DEFINE n == Cardinality(Variants)
<1>1. n \in Nat
  BY VariantsAreFinite, FS_CardinalityType
<1>2. /\ ps \in [1 .. n -> Variants] /\ Range(ps) = Variants
      /\ \A i, j \in DOMAIN ps : i < j => Len(ps[i]) >= Len(ps[j])
  BY DEF NewRedactor
<1> HIDE DEF n
<1>3. ps \in [1 .. n -> Pattern]
  BY <1>2, VariantType
<1>4. ps \in Seq(Pattern) /\ Len(ps) = n /\ DOMAIN ps = 1 .. n
  BY <1>1, <1>3
<1>5. \A p \in Variants : \E h \in 1 .. n : ps[h] = p
  BY <1>2, <1>4 DEF Range
<1> QED
  BY <1>2, <1>4, <1>5 DEF LongestFirst

-----------------------------------------------------------------------------
\* The invariant: the patterns are those of a redactor, and the state of the
\* stream is a function of the lines delivered, whatever the chunks were.
LogInv ==
  /\ lpatterns \in NewRedactor /\ lraw \in Seq(Alphabet) /\ lended \in BOOLEAN
  /\ ~ lended => [buffer |-> lbuffer, dropping |-> ldropping, out |-> lout]
                 = StateOf(lpatterns, LinesOf(lraw).ended, LinesOf(lraw).rest)
  /\ lended => lout = ShownAll(lpatterns, Due)

\* Equal states of a stream have equal fields.
LEMMA SameFields ==
  ASSUME NEW a, NEW b, NEW c, NEW d, NEW e, NEW f,
         [buffer |-> a, dropping |-> b, out |-> c] = [buffer |-> d, dropping |-> e, out |-> f]
  PROVE  a = d /\ b = e /\ c = f
<1> DEFINE x == [buffer |-> a, dropping |-> b, out |-> c]
           y == [buffer |-> d, dropping |-> e, out |-> f]
<1>1. x.buffer = a /\ x.dropping = b /\ x.out = c
  OBVIOUS
<1>2. y.buffer = d /\ y.dropping = e /\ y.out = f
  OBVIOUS
<1> HIDE DEF x, y
<1>3. x = y
  BY DEF x, y
<1> QED
  BY <1>1, <1>2, <1>3, Zenon

\* The state of a stream is the record of its fields.
LEMMA StateIsRecord ==
  ASSUME NEW ps, NEW E, NEW r, NEW st, st = StateOf(ps, E, r)
  PROVE  [buffer |-> st.buffer, dropping |-> st.dropping, out |-> st.out] = st
<1>1. CASE Len(r) > MaxLogLineBytes
  BY <1>1 DEF StateOf
<1>2. CASE ~ (Len(r) > MaxLogLineBytes)
  BY <1>2 DEF StateOf
<1> QED
  BY <1>1, <1>2

\* The fields of the lines of a text.
LEMMA LinesFields ==
  ASSUME NEW A, NEW text \in Seq(A)
  PROVE  LinesOf(text).ended \in Seq(Seq(A)) /\ LinesOf(text).rest \in Seq(A)
BY LinesType DEF Lines

\* Appending is concatenation of one element.
LEMMA ConcatOne ==
  ASSUME NEW A, NEW s \in Seq(A), NEW x \in A
  PROVE  s \o <<x>> = Append(s, x) /\ s \o <<>> = s
OBVIOUS

\* The lines that are due, and that the invariant shows them.
LEMMA DueIs ==
  ASSUME LogInv
  PROVE  LET E == LinesOf(lraw).ended
             r == LinesOf(lraw).rest
         IN  Due = IF Len(r) > MaxLogLineBytes \/ (lended /\ r # <<>>) THEN Append(E, r) ELSE E
<1> DEFINE E == LinesOf(lraw).ended
           r == LinesOf(lraw).rest
<1>1. Due = E \o (IF Len(r) > MaxLogLineBytes \/ (lended /\ r # <<>>) THEN <<r>> ELSE <<>>)
  BY DEF Due
<1>2. E \in Seq(Seq(Alphabet)) /\ r \in Seq(Alphabet)
  BY LinesFields DEF LogInv
<1> HIDE DEF E, r
<1>3. E \o <<r>> = Append(E, r) /\ E \o <<>> = E
  BY <1>2, ConcatOne
<1>4. Due = IF Len(r) > MaxLogLineBytes \/ (lended /\ r # <<>>) THEN Append(E, r) ELSE E
  BY <1>1, <1>3
<1> QED
  BY <1>4 DEF E, r

\* What was emitted is what is due, line by line.
LEMMA DueIsShown ==
  ASSUME LogInv PROVE Due \in Seq(Seq(Alphabet)) /\ lout = ShownAll(lpatterns, Due)
<1> DEFINE E == LinesOf(lraw).ended
           r == LinesOf(lraw).rest
<1>1. E \in Seq(Seq(Alphabet)) /\ r \in Seq(Alphabet)
  BY LinesFields DEF LogInv
<1>2. Due = IF Len(r) > MaxLogLineBytes \/ (lended /\ r # <<>>) THEN Append(E, r) ELSE E
  BY DueIs
<1>3. lpatterns \in Seq(Pattern)
  BY RedactorPatterns DEF LogInv
<1>4. ~ lended => [buffer |-> lbuffer, dropping |-> ldropping, out |-> lout] = StateOf(lpatterns, E, r)
  BY DEF LogInv
<1>5. lended => lout = ShownAll(lpatterns, Due)
  BY DEF LogInv
<1>6. lended \in BOOLEAN
  BY DEF LogInv
<1> HIDE DEF E, r
<1>7. Due \in Seq(Seq(Alphabet))
  BY <1>1, <1>2
<1>8. CASE ~ lended /\ Len(r) > MaxLogLineBytes
  <2>1. lout = Append(ShownAll(lpatterns, E), Omitted)
    BY <1>4, <1>8, SameFields DEF StateOf
  <2>2. ShownBy(lpatterns, r) = Omitted
    BY <1>8 DEF ShownBy
  <2>3. Due = Append(E, r)
    BY <1>2, <1>8
  <2>4. ShownAll(lpatterns, Append(E, r)) = Append(ShownAll(lpatterns, E), ShownBy(lpatterns, r))
    BY <1>1, <1>3, ShownAppend
  <2> QED
    BY <1>7, <2>1, <2>2, <2>3, <2>4
<1>9. CASE ~ lended /\ ~ (Len(r) > MaxLogLineBytes)
  <2>1. lout = ShownAll(lpatterns, E)
    BY <1>4, <1>9, SameFields DEF StateOf
  <2>2. Due = E
    BY <1>2, <1>9
  <2> QED
    BY <1>7, <2>1, <2>2
<1> QED
  BY <1>5, <1>6, <1>7, <1>8, <1>9

\* The invariant holds before the first chunk.
LEMMA LogInitially == LogInit => LogInv
<1> SUFFICES ASSUME LogInit PROVE LogInv
  OBVIOUS
<1>1. <<>> \in Seq(Alphabet) /\ Len(<<>>) = 0
  OBVIOUS
<1>2. LinesOf(<<>>) = NoLines
  <2>1. 0 \in 0 .. 0
    OBVIOUS
  <2> QED
    BY <1>1, <2>1, LinesEquation DEF LinesOf
<1>3. StateOf(lpatterns, <<>>, <<>>) = [buffer |-> <<>>, dropping |-> FALSE, out |-> <<>>]
  <2>1. ~ (Len(<<>>) > MaxLogLineBytes)
    BY <1>1, RedactorAssumption
  <2>2. ShownAll(lpatterns, <<>>) = <<>>
    BY DEF ShownAll
  <2> QED
    BY <2>1, <2>2 DEF StateOf
<1>4. LinesOf(lraw).ended = <<>> /\ LinesOf(lraw).rest = <<>>
  BY <1>2 DEF NoLines, LogInit
<1>5. [buffer |-> lbuffer, dropping |-> ldropping, out |-> lout] = StateOf(lpatterns, LinesOf(lraw).ended, LinesOf(lraw).rest)
  BY <1>3, <1>4 DEF LogInit
<1> QED
  BY <1>1, <1>5 DEF LogInit, LogInv

\* A sequence over a set is one over any larger set.
LEMMA SeqWiden ==
  ASSUME NEW A, NEW B, A \subseteq B, NEW s \in Seq(A) PROVE s \in Seq(B)
OBVIOUS

\* A chunk: its parts are pushed one after another.
LEMMA PushStep ==
  ASSUME LogInv, NEW chunk \in LogChunks, Push(chunk) PROVE LogInv'
<1> DEFINE E == LinesOf(lraw).ended
           r == LinesOf(lraw).rest
           V == LinesOf(chunk).ended
           t == LinesOf(chunk).rest
           F == E \o Continued(r, V)
           s == IF V = <<>> THEN r ELSE <<>>
           ended == PushedParts(V)[Len(V)]
           after == IF t = <<>> THEN ended ELSE PushPart(ended, t, FALSE)
<1>1. lpatterns \in Seq(Pattern) /\ lraw \in Seq(Alphabet)
  BY RedactorPatterns DEF LogInv
<1>2. chunk \in Seq(Alphabet)
  <2>1. chunk \in Seq(STRING) /\ STRING \subseteq Alphabet
    BY RedactorAssumption DEF Alphabet
  <2> QED
    BY <2>1, SeqWiden, Zenon
<1>3. E \in Seq(Seq(Alphabet)) /\ r \in Seq(Alphabet) /\ V \in Seq(Seq(Alphabet)) /\ t \in Seq(Alphabet)
  BY <1>1, <1>2, LinesFields
<1>4. ~ lended /\ [buffer |-> lbuffer, dropping |-> ldropping, out |-> lout] = StateOf(lpatterns, E, r)
  BY DEF LogInv, Push
<1>5. /\ lraw' = lraw \o chunk /\ lpatterns' = lpatterns /\ lended' = lended
      /\ lbuffer' = after.buffer /\ ldropping' = after.dropping /\ lout' = after.out
  BY DEF Push
<1>6. LinesOf(lraw \o chunk) = [ended |-> F, rest |-> IF V = <<>> THEN r \o t ELSE t]
  BY <1>1, <1>2, LinesConcat DEF Joined
<1> HIDE DEF E, r, V, t
<1>7. ended = StateOf(lpatterns, F, s)
  BY <1>1, <1>3, <1>4, PushedPartsState
<1>8. F \in Seq(Seq(Alphabet)) /\ s \in Seq(Alphabet)
  <2> DEFINE C == Continued(r, V)
             B == Seq(Alphabet)
  <2>1. C \in Seq(B) /\ E \in Seq(B)
    BY <1>3, ContinuedType
  <2> HIDE DEF C, B
  <2>2. E \o C \in Seq(B)
    BY <2>1
  <2> QED
    BY <1>3, <2>2 DEF C, B
<1>9. s \o t = (IF V = <<>> THEN r \o t ELSE t) /\ s \o <<>> = s
  <2>1. <<>> \o t = t /\ r \o <<>> = r /\ <<>> \o <<>> = <<>>
    BY <1>3
  <2> QED
    BY <2>1
<1>10. after = StateOf(lpatterns, F, s \o t)
  <2> HIDE DEF F, s, ended
  <2>1. CASE t = <<>>
    BY <1>7, <1>9, <2>1
  <2>2. CASE t # <<>>
    <3>1. PushPart(StateOf(lpatterns, F, s), t, FALSE) = StateOf(lpatterns, F, s \o t)
      BY <1>1, <1>3, <1>8, PushTurns
    <3> QED
      BY <1>7, <2>2, <3>1
  <2> QED
    BY <2>1, <2>2
<1> HIDE DEF F, s, ended, after
<1>11. LinesOf(lraw').ended = F /\ LinesOf(lraw').rest = s \o t
  BY <1>5, <1>6, <1>9
<1>12. [buffer |-> after.buffer, dropping |-> after.dropping, out |-> after.out] = after
  BY <1>10, StateIsRecord
<1>13. [buffer |-> lbuffer', dropping |-> ldropping', out |-> lout']
       = StateOf(lpatterns', LinesOf(lraw').ended, LinesOf(lraw').rest)
  <2>1. [buffer |-> lbuffer', dropping |-> ldropping', out |-> lout'] = after
    BY <1>5, <1>12, Zenon
  <2> QED
    BY <1>5, <1>10, <1>11, <2>1
<1>14. lraw' \in Seq(Alphabet)
  BY <1>1, <1>2, <1>5
<1>15. lpatterns' \in NewRedactor /\ lended' \in BOOLEAN /\ ~ lended'
  BY <1>4, <1>5 DEF LogInv
<1> QED
  BY <1>13, <1>14, <1>15 DEF LogInv

\* The end of the stream: the unfinished line comes out, unless it is being
\* dropped.
LEMMA FlushStep ==
  ASSUME LogInv, Flush PROVE LogInv'
<1> DEFINE E == LinesOf(lraw).ended
           r == LinesOf(lraw).rest
<1>1. lpatterns \in Seq(Pattern)
  BY RedactorPatterns DEF LogInv
<1>2. E \in Seq(Seq(Alphabet)) /\ r \in Seq(Alphabet)
  BY LinesFields DEF LogInv
<1>3. ~ lended /\ [buffer |-> lbuffer, dropping |-> ldropping, out |-> lout] = StateOf(lpatterns, E, r)
  BY DEF LogInv, Flush
<1>4. lended' = TRUE /\ lpatterns' = lpatterns /\ lraw' = lraw
  BY DEF Flush
<1>5. lout' = IF ~ ldropping /\ lbuffer # <<>> THEN Append(lout, redact(lbuffer)) ELSE lout
  BY DEF Flush
<1>6. Due' = E \o (IF Len(r) > MaxLogLineBytes \/ r # <<>> THEN <<r>> ELSE <<>>)
  BY <1>4 DEF Due
<1> HIDE DEF E, r
<1>7. E \o <<r>> = Append(E, r) /\ E \o <<>> = E
  BY <1>2, ConcatOne
<1>8. ShownAll(lpatterns, Append(E, r)) = Append(ShownAll(lpatterns, E), ShownBy(lpatterns, r))
  BY <1>1, <1>2, ShownAppend
<1>9. lout' = ShownAll(lpatterns, Due')
  <2>1. CASE Len(r) > MaxLogLineBytes
    <3>1. ldropping = TRUE /\ lout = Append(ShownAll(lpatterns, E), Omitted)
      BY <1>3, <2>1, SameFields DEF StateOf
    <3>2. ShownBy(lpatterns, r) = Omitted
      BY <2>1 DEF ShownBy
    <3>3. Due' = Append(E, r)
      BY <1>6, <1>7, <2>1
    <3>4. lout' = lout
      BY <1>5, <3>1
    <3> QED
      BY <1>8, <3>1, <3>2, <3>3, <3>4
  <2>2. CASE ~ (Len(r) > MaxLogLineBytes)
    <3>1. lbuffer = r /\ ldropping = FALSE /\ lout = ShownAll(lpatterns, E)
      BY <1>3, <2>2, SameFields DEF StateOf
    <3>2. ShownBy(lpatterns, r) = redact(r)
      BY <2>2 DEF ShownBy, redact
    <3>3. Due' = IF r # <<>> THEN Append(E, r) ELSE E
      BY <1>6, <1>7, <2>2
    <3>4. lout' = IF r # <<>> THEN Append(ShownAll(lpatterns, E), redact(r)) ELSE ShownAll(lpatterns, E)
      BY <1>5, <3>1
    <3> QED
      BY <1>8, <3>2, <3>3, <3>4
  <2> QED
    BY <2>1, <2>2
<1>10. lpatterns' \in NewRedactor /\ lraw' \in Seq(Alphabet)
  BY <1>4 DEF LogInv
<1> QED
  BY <1>4, <1>9, <1>10 DEF LogInv

\* Every step keeps the invariant.
LEMMA LogStep == LogInv /\ [LogNext]_logVars => LogInv'
<1> SUFFICES ASSUME LogInv, [LogNext]_logVars PROVE LogInv'
  OBVIOUS
<1>1. CASE UNCHANGED logVars
  BY <1>1 DEF LogInv, logVars, Due
<1>2. CASE Flush
  BY <1>2, FlushStep
<1>3. ASSUME NEW chunk \in LogChunks, Push(chunk) PROVE LogInv'
  BY <1>3, PushStep
<1> QED
  BY <1>1, <1>2, <1>3 DEF LogNext

\* What the invariant says of the lines that were emitted.
LEMMA ShownIsRedacted ==
  ASSUME NEW ps \in NewRedactor, NEW line \in Seq(Alphabet)
  PROVE  /\ \A p \in Variants, i \in 1 .. Len(ShownBy(ps, line)) : ~ OccursAt(p, ShownBy(ps, line), i)
         /\ line \in Variants => ShownBy(ps, line) \in {Mask, Omitted}
<1>1. /\ ps \in Seq(Pattern) /\ LongestFirst(ps)
      /\ \A p \in Variants : \E h \in 1 .. Len(ps) : ps[h] = p
  BY RedactorPatterns
<1>2. ASSUME NEW p \in Variants, NEW i \in 1 .. Len(ShownBy(ps, line)) PROVE ~ OccursAt(p, ShownBy(ps, line), i)
  <2>1. CASE Len(line) > MaxLogLineBytes
    <3>1. ShownBy(ps, line) = <<"omitted">> /\ i = 1
      BY <2>1 DEF ShownBy, Omitted
    <3>2. p \in Pattern
      BY VariantType
    <3>3. 1 \in 1 .. Len(p) /\ p[1] # "omitted"
      BY <3>2, PatternType
    <3>4. <<"omitted">>[1] = "omitted" /\ 1 + 1 - 1 = 1
      OBVIOUS
    <3> QED
      BY <3>1, <3>3, <3>4 DEF OccursAt
  <2>2. CASE ~ (Len(line) > MaxLogLineBytes)
    <3>1. ShownBy(ps, line) = MaskedBy(line, ps)[Len(ps)]
      BY <2>2 DEF ShownBy
    <3>2. PICK h \in 1 .. Len(ps) : ps[h] = p
      BY <1>1
    <3> QED
      BY <1>1, <3>1, <3>2, RedactLeavesNone
  <2> QED
    BY <2>1, <2>2
<1>3. ASSUME line \in Variants PROVE ShownBy(ps, line) \in {Mask, Omitted}
  <2>1. PICK h \in 1 .. Len(ps) : ps[h] = line
    BY <1>1, <1>3
  <2>2. MaskedBy(line, ps)[Len(ps)] = Mask
    BY <1>1, <2>1, RedactMasksWhole
  <2> QED
    BY <2>2 DEF ShownBy
<1> QED
  BY <1>2, <1>3

\* The invariant implies the property.
LEMMA LogInvImplies == LogInv => LogsAreRedacted
<1> SUFFICES ASSUME LogInv PROVE LogsAreRedacted
  OBVIOUS
<1>1. Due \in Seq(Seq(Alphabet)) /\ lout = ShownAll(lpatterns, Due)
  BY DueIsShown
<1>2. lpatterns \in NewRedactor
  BY DEF LogInv
<1>3. \A line : Shown(line) = ShownBy(lpatterns, line)
  BY DEF Shown, ShownBy, redact
<1>4. lout = [k \in 1 .. Len(Due) |-> ShownBy(lpatterns, Due[k])] /\ Len(lout) = Len(Due)
  <2>1. lpatterns \in Seq(Pattern)
    BY <1>2, RedactorPatterns
  <2>2. Len(ShownAll(lpatterns, Due)) = Len(Due)
    BY <1>1, <2>1, ShownAllType
  <2> QED
    BY <1>1, <2>2 DEF ShownAll
<1>5. lout = [k \in 1 .. Len(Due) |-> Shown(Due[k])]
  BY <1>3, <1>4
<1>6. ASSUME NEW k \in 1 .. Len(lout)
      PROVE  /\ \A p \in Variants, i \in 1 .. Len(lout[k]) : ~ OccursAt(p, lout[k], i)
             /\ Due[k] \in Variants => lout[k] \in {Mask, Omitted}
  <2>1. Due[k] \in Seq(Alphabet)
    <3>1. k \in 1 .. Len(Due)
      BY <1>4
    <3> QED
      BY <1>1, <3>1
  <2>2. lout[k] = ShownBy(lpatterns, Due[k])
    BY <1>4
  <2> QED
    BY <1>2, <2>1, <2>2, ShownIsRedacted
<1> QED
  BY <1>5, <1>6 DEF LogsAreRedacted

\* However BuildKit cuts the stream into chunks, Redactor.Push and Flush emit
\* its lines as if they had been delivered whole, oversized ones omitted
\* once; no secret nor line of one is in what is emitted, in whatever order
\* the map yields the patterns of one length; and a line that is a secret
\* comes out as the mask alone.
THEOREM LogsStayRedacted == LogSpec => []LogsAreRedacted
<1>1. LogInit => LogInv
  BY LogInitially
<1>2. LogInv /\ [LogNext]_logVars => LogInv'
  BY LogStep
<1>3. LogInv => LogsAreRedacted
  BY LogInvImplies
<1> QED
  BY <1>1, <1>2, <1>3, PTL DEF LogSpec
=============================================================================
