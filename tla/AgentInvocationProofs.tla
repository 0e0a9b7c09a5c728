----------------------- MODULE AgentInvocationProofs -----------------------
(***************************************************************************)
(* For any number of sessions on one VM and any argument vectors: what the *)
(* launcher and the wrapper scripts make of the arguments, and that an     *)
(* agent runs with the user's options and with its own state only.         *)
(***************************************************************************)
EXTENDS AgentInvocation, TLAPS, FiniteSetTheorems, SequenceTheorems

---------------------------------------------------------------------------
(* Argument vectors                                                        *)
Fronted(w, s) == <<w>> \o s

LEMMA FrontShape ==
  ASSUME NEW w \in Word, NEW s \in Seq(Word)
  PROVE  /\ Fronted(w, s) \in Seq(Word) /\ Fronted(w, s) # <<>>
         /\ Head(Fronted(w, s)) = w /\ Tail(Fronted(w, s)) = s
<1> DEFINE f == Fronted(w, s)
           n == Len(s)
<1>1. <<w>> \in Seq(Word) /\ Len(<<w>>) = 1 /\ <<w>>[1] = w
  OBVIOUS
<1>2. n \in Nat
  BY LenProperties
<1>3. /\ f \in Seq(Word) /\ Len(f) = 1 + n
      /\ \A k \in 1..(1 + n) : f[k] = IF k <= 1 THEN <<w>>[k] ELSE s[k - 1]
  BY <1>1, ConcatProperties DEF Fronted
<1> HIDE DEF f
<1>4. f # <<>> /\ Head(f) = f[1]
  <2>1. f # <<>>
    BY <1>2, <1>3, EmptySeq
  <2> QED
    BY <1>3, <2>1
<1>5. Tail(f) \in Seq(Word) /\ Len(Tail(f)) = n /\ \A k \in 1..n : Tail(f)[k] = f[k + 1]
  BY <1>2, <1>3, <1>4, HeadTailProperties
<1>6. ASSUME NEW k \in 1..n PROVE Tail(f)[k] = s[k]
  <2>1. k + 1 \in 1..(1 + n) /\ ~(k + 1 <= 1) /\ (k + 1) - 1 = k
    BY <1>2
  <2> QED
    BY <1>3, <1>5, <2>1
<1>7. Tail(f) = s
  BY <1>5, <1>6, SeqEqual
<1>8. Head(f) = w
  BY <1>1, <1>2, <1>3, <1>4
<1> QED
  BY <1>3, <1>4, <1>7, <1>8 DEF f

LEMMA HeadTailAgain ==
  ASSUME NEW s \in Seq(Word), s # <<>>
  PROVE  /\ Head(s) \in Word /\ Tail(s) \in Seq(Word)
         /\ DOMAIN s = 1..Len(s) /\ Len(s) \in Nat \ {0} /\ Head(s) = s[1]
         /\ DOMAIN Tail(s) = 1..(Len(s) - 1)
         /\ \A k \in 1..(Len(s) - 1) : Tail(s)[k] = s[k + 1]
         /\ Fronted(Head(s), Tail(s)) = s
<1> DEFINE n == Len(s)
           t == Tail(s)
           w == Head(s)
<1>1. n \in Nat \ {0} /\ DOMAIN s = 1..n /\ w = s[1]
  BY EmptySeq, LenProperties
<1>2. w \in Word /\ t \in Seq(Word) /\ Len(t) = n - 1 /\ \A k \in 1..Len(t) : t[k] = s[k + 1]
  BY HeadTailProperties
<1>3. DOMAIN t = 1..(n - 1)
  BY <1>2, LenProperties
<1> HIDE DEF n, t, w
<1>4. <<w>> \in Seq(Word) /\ Len(<<w>>) = 1 /\ <<w>>[1] = w
  BY <1>2
<1>5. /\ Fronted(w, t) \in Seq(Word) /\ Len(Fronted(w, t)) = 1 + (n - 1)
      /\ \A k \in 1..(1 + (n - 1)) : Fronted(w, t)[k] = IF k <= 1 THEN <<w>>[k] ELSE t[k - 1]
  BY <1>2, <1>4, ConcatProperties DEF Fronted
<1>6. 1 + (n - 1) = n
  BY <1>1
<1>7. ASSUME NEW k \in 1..n PROVE Fronted(w, t)[k] = s[k]
  <2>1. CASE k = 1
    BY <1>1, <1>4, <1>5, <1>6, <2>1
  <2>2. CASE k # 1
    <3>1. k - 1 \in 1..Len(t) /\ (k - 1) + 1 = k /\ ~(k <= 1)
      BY <1>1, <1>2, <2>2
    <3> QED
      BY <1>2, <1>5, <1>6, <3>1
  <2> QED
    BY <2>1, <2>2
<1>8. Fronted(w, t) = s
  BY <1>5, <1>6, <1>7, SeqEqual DEF n
<1> QED
  BY <1>1, <1>2, <1>3, <1>8 DEF n, t, w

LEMMA HasAnyStep ==
  ASSUME NEW s \in Seq(Word), s # <<>>, NEW W
  PROVE  HasAny(s, W) <=> Head(s) \in W \/ HasAny(Tail(s), W)
<1> DEFINE n == Len(s)
           t == Tail(s)
<1>1. /\ DOMAIN s = 1..n /\ n \in Nat \ {0} /\ Head(s) = s[1]
      /\ DOMAIN t = 1..(n - 1) /\ \A k \in 1..(n - 1) : t[k] = s[k + 1]
  BY HeadTailAgain
<1> HIDE DEF n, t
<1>2. ASSUME NEW k \in 1..n, s[k] \in W PROVE s[1] \in W \/ HasAny(t, W)
  <2>1. CASE k # 1
    <3>1. k - 1 \in 1..(n - 1) /\ (k - 1) + 1 = k
      BY <1>1, <2>1
    <3> QED
      BY <1>1, <1>2, <3>1 DEF HasAny
  <2> QED
    BY <1>2, <2>1
<1>3. ASSUME NEW k \in 1..(n - 1), t[k] \in W PROVE HasAny(s, W)
  <2>1. k + 1 \in 1..n /\ s[k + 1] \in W
    BY <1>1, <1>3
  <2> QED
    BY <1>1, <2>1 DEF HasAny
<1>4. 1 \in 1..n
  BY <1>1
<1> QED
  BY <1>1, <1>2, <1>3, <1>4 DEF HasAny, t

LEMMA CountStep ==
  ASSUME NEW s \in Seq(Word), s # <<>>, NEW w
  PROVE  /\ Count(s, w) \in Nat /\ Count(Tail(s), w) \in Nat
         /\ Count(s, w) = Count(Tail(s), w) + (IF Head(s) = w THEN 1 ELSE 0)
<1> DEFINE n == Len(s)
           t == Tail(s)
           I == {k \in 1..(n - 1) : t[k] = w}
           J == {k \in 2..n : s[k] = w}
           shift == [k \in I |-> k + 1]
<1>1. /\ DOMAIN s = 1..n /\ n \in Nat \ {0} /\ Head(s) = s[1]
      /\ DOMAIN t = 1..(n - 1) /\ \A k \in 1..(n - 1) : t[k] = s[k + 1]
  BY HeadTailAgain
<1> HIDE DEF n, t
<1>2. IsFiniteSet(I) /\ Cardinality(I) \in Nat
  <2>1. IsFiniteSet(1..(n - 1))
    BY <1>1, FS_Interval
  <2>2. IsFiniteSet(I)
    BY <2>1, FS_Subset
  <2> QED
    BY <2>2, FS_CardinalityType
<1>3. ExistsBijection(I, J)
  <2>1. shift \in [I -> J]
    BY <1>1
  <2>2. \A j \in J : \E k \in I : shift[k] = j
    <3>1. ASSUME NEW j \in J PROVE j - 1 \in I /\ shift[j - 1] = j
      <4>1. j \in 2..n /\ s[j] = w /\ j - 1 \in 1..(n - 1) /\ (j - 1) + 1 = j
        BY <1>1
      <4>2. t[j - 1] = w
        BY <1>1, <4>1
      <4> QED
        BY <4>1, <4>2
    <3> QED
      BY <3>1
  <2>3. \A k, l \in I : shift[k] = shift[l] => k = l
    OBVIOUS
  <2> HIDE DEF shift, I, J
  <2>4. shift \in Bijection(I, J)
    BY <2>1, <2>2, <2>3 DEF Bijection, Injection, Surjection, IsInjective
  <2> QED
    BY <2>4 DEF ExistsBijection
<1>4. IsFiniteSet(J) /\ Cardinality(J) = Cardinality(I)
  BY <1>2, <1>3, FS_Bijection
<1>5. Count(t, w) = Cardinality(I)
  BY <1>1 DEF Count
<1>6. {k \in DOMAIN s : s[k] = w} = IF s[1] = w THEN J \cup {1} ELSE J
  BY <1>1
<1>7. 1 \notin J
  BY <1>1
<1> HIDE DEF I, J
<1>8. Cardinality(J \cup {1}) = Cardinality(J) + 1
  BY <1>4, <1>7, FS_AddElement
<1> DEFINE K == {k \in DOMAIN s : s[k] = w}
<1>9. Count(s, w) = Cardinality(K)
  BY DEF Count
<1> HIDE DEF K
<1>10. K = IF s[1] = w THEN J \cup {1} ELSE J
  BY <1>6 DEF K
<1>11. Count(s, w) = Cardinality(I) + (IF s[1] = w THEN 1 ELSE 0)
  <2>1. CASE s[1] = w
    BY <1>4, <1>8, <1>9, <1>10, <2>1
  <2>2. CASE s[1] # w
    BY <1>2, <1>4, <1>9, <1>10, <2>2
  <2> QED
    BY <2>1, <2>2
<1> QED
  BY <1>1, <1>2, <1>5, <1>11 DEF t

LEMMA FrontFacts ==
  ASSUME NEW w \in Word, NEW s \in Seq(Word)
  PROVE  /\ First(Fronted(w, s)) = w
         /\ \A W : HasAny(Fronted(w, s), W) <=> w \in W \/ HasAny(s, W)
         /\ \A v : /\ Count(Fronted(w, s), v) = Count(s, v) + (IF w = v THEN 1 ELSE 0)
                   /\ Count(s, v) \in Nat
<1> DEFINE f == Fronted(w, s)
<1>1. f \in Seq(Word) /\ f # <<>> /\ Head(f) = w /\ Tail(f) = s
  BY FrontShape
<1> HIDE DEF f
<1>2. \A W : HasAny(f, W) <=> w \in W \/ HasAny(s, W)
  BY <1>1, HasAnyStep
<1>3. \A v : /\ Count(f, v) = Count(s, v) + (IF w = v THEN 1 ELSE 0)
             /\ Count(s, v) \in Nat
  BY <1>1, CountStep
<1> QED
  BY <1>1, <1>2, <1>3 DEF f, First

(* What is left of the arguments without a leading --no-daemon.            *)
LEMMA LeadingFacts ==
  ASSUME NEW a \in Agent, NEW s \in Seq(Word)
  PROVE  LET rest == WithoutLeading(a, s) IN
         /\ rest \in Seq(Word) /\ Count(rest, "flag") = Count(s, "flag")
         /\ \A W : "noDaemon" \notin W => (HasAny(rest, W) <=> HasAny(s, W))
         /\ a # "codex" \/ First(s) # "noDaemon" => rest = s
         /\ a = "codex" /\ First(s) = "noDaemon" => rest = Tail(s) /\ s # <<>>
<1>1. CASE a = "codex" /\ First(s) = "noDaemon"
  <2>1. s # <<>> /\ Head(s) = "noDaemon" /\ WithoutLeading(a, s) = Tail(s)
    BY <1>1 DEF First, WithoutLeading
  <2>2. Tail(s) \in Seq(Word)
    BY <2>1, HeadTailAgain
  <2>3. Count(Tail(s), "flag") = Count(s, "flag")
    BY <2>1, CountStep
  <2>4. \A W : "noDaemon" \notin W => (HasAny(Tail(s), W) <=> HasAny(s, W))
    BY <2>1, HasAnyStep
  <2> QED
    BY <1>1, <2>1, <2>2, <2>3, <2>4
<1>2. CASE ~(a = "codex" /\ First(s) = "noDaemon")
  BY <1>2 DEF WithoutLeading
<1> QED
  BY <1>1, <1>2

LEMMA InsertFacts ==
  ASSUME NEW a \in Agent, NEW s \in Seq(Word)
  PROVE  LET inserted == InsertFlag(a, s) IN
         /\ inserted \in Seq(Word) /\ Count(inserted, "flag") = Count(s, "flag") + 1
         /\ First(inserted) # "noDaemon"
         /\ \A W : "flag" \notin W => (HasAny(inserted, W) <=> HasAny(s, W))
         /\ \A W : "flag" \in W => HasAny(inserted, W)
<1>1. CASE a = "codex" /\ First(s) = "exec"
  <2> DEFINE t == Tail(s)
             r == Fronted("flag", t)
  <2>1. s # <<>> /\ Head(s) = "exec"
    BY <1>1 DEF First
  <2>2. t \in Seq(Word) /\ Count(s, "flag") = Count(t, "flag") /\ Count(t, "flag") \in Nat
    BY <2>1, HeadTailAgain, CountStep
  <2>3. "flag" \in Word /\ "exec" \in Word
    BY DEF Word
  <2>4. r \in Seq(Word) /\ Fronted("exec", r) \in Seq(Word)
    BY <2>2, <2>3, FrontShape
  <2>5. InsertFlag(a, s) = Fronted("exec", r)
    <3>1. <<"exec">> \in Seq(Word) /\ <<"flag">> \in Seq(Word)
      BY <2>3
    <3>2. <<"exec">> \o <<"flag">> = <<"exec", "flag">>
      <4> DEFINE p == <<"exec">> \o <<"flag">>
                 q == <<"exec", "flag">>
      <4>1. Len(<<"exec">>) = 1 /\ Len(<<"flag">>) = 1 /\ <<"exec">>[1] = "exec" /\ <<"flag">>[1] = "flag"
        OBVIOUS
      <4>2. p \in Seq(Word) /\ Len(p) = 2 /\ p[1] = "exec" /\ p[2] = "flag"
        BY <3>1, <4>1, ConcatProperties
      <4>3. q \in Seq(Word) /\ Len(q) = 2 /\ q[1] = "exec" /\ q[2] = "flag"
        BY <2>3
      <4> HIDE DEF p, q
      <4>4. p = q
        BY <4>2, <4>3, SeqEqual
      <4> QED
        BY <4>4 DEF p, q
    <3>3. (<<"exec">> \o <<"flag">>) \o t = <<"exec">> \o (<<"flag">> \o t)
      BY <2>2, <3>1, ConcatAssociative
    <3> QED
      BY <1>1, <3>2, <3>3 DEF InsertFlag, Fronted
  <2> HIDE DEF t, r
  <2>6. \A v : Count(r, v) = Count(t, v) + (IF "flag" = v THEN 1 ELSE 0)
    BY <2>2, <2>3, FrontFacts DEF r
  <2>7. Count(Fronted("exec", r), "flag") = Count(r, "flag") + 0 /\ Count(r, "flag") \in Nat
    BY <2>3, <2>4, FrontFacts
  <2>8. First(Fronted("exec", r)) = "exec"
    BY <2>3, <2>4, FrontFacts
  <2>9. \A W : "flag" \in W => HasAny(r, W)
    BY <2>2, <2>3, FrontFacts DEF r
  <2>10. \A W : "flag" \in W => HasAny(Fronted("exec", r), W)
    BY <2>3, <2>4, <2>9, FrontFacts
  <2>11. Count(Fronted("exec", r), "flag") = Count(s, "flag") + 1
    BY <2>2, <2>6, <2>7
  <2>12. ASSUME NEW W, "flag" \notin W PROVE HasAny(Fronted("exec", r), W) <=> HasAny(s, W)
    <3>1. HasAny(r, W) <=> HasAny(t, W)
      BY <2>2, <2>3, <2>12, FrontFacts DEF r
    <3>2. HasAny(Fronted("exec", r), W) <=> "exec" \in W \/ HasAny(r, W)
      BY <2>3, <2>4, FrontFacts
    <3>3. HasAny(s, W) <=> "exec" \in W \/ HasAny(t, W)
      BY <2>1, HasAnyStep DEF t
    <3> QED
      BY <3>1, <3>2, <3>3
  <2> QED
    BY <2>4, <2>5, <2>8, <2>10, <2>11, <2>12
<1>2. CASE ~(a = "codex" /\ First(s) = "exec")
  <2>1. InsertFlag(a, s) = Fronted("flag", s) /\ "flag" \in Word
    BY <1>2 DEF InsertFlag, Fronted, Word
  <2>2. Fronted("flag", s) \in Seq(Word)
    BY <2>1, FrontShape
  <2>3. /\ First(Fronted("flag", s)) = "flag"
        /\ \A W : "flag" \in W => HasAny(Fronted("flag", s), W)
        /\ \A W : "flag" \notin W => (HasAny(Fronted("flag", s), W) <=> HasAny(s, W))
    BY <2>1, FrontFacts
  <2>4. Count(Fronted("flag", s), "flag") = Count(s, "flag") + 1
    BY <2>1, FrontFacts
  <2> QED
    BY <2>1, <2>2, <2>3, <2>4
<1> QED
  BY <1>1, <1>2

LEMMA DaemonFacts ==
  ASSUME NEW a \in Agent, NEW s \in Seq(Word), NEW forms
  PROVE  LET full == WithNoDaemon(a, s, forms) IN
         /\ full \in Seq(Word) /\ Count(full, "flag") = Count(s, "flag")
         /\ \A W : "noDaemon" \notin W => (HasAny(full, W) <=> HasAny(s, W))
         /\ a # "codex" \/ HasAny(s, forms) => full = s
         /\ a = "codex" /\ ~HasAny(s, forms) =>
              /\ full # <<>> /\ First(full) = "noDaemon" /\ Tail(full) = s
<1>1. "noDaemon" \in Word
  BY DEF Word
<1>2. CASE a = "codex" /\ ~HasAny(s, forms)
  <2>1. WithNoDaemon(a, s, forms) = Fronted("noDaemon", s)
    BY <1>2 DEF WithNoDaemon, Fronted
  <2>2. /\ Fronted("noDaemon", s) \in Seq(Word) /\ Fronted("noDaemon", s) # <<>>
        /\ Tail(Fronted("noDaemon", s)) = s
    BY <1>1, FrontShape
  <2>3. /\ First(Fronted("noDaemon", s)) = "noDaemon"
        /\ \A W : "noDaemon" \notin W => (HasAny(Fronted("noDaemon", s), W) <=> HasAny(s, W))
    BY <1>1, FrontFacts
  <2>4. Count(Fronted("noDaemon", s), "flag") = Count(s, "flag")
    BY <1>1, FrontFacts
  <2> QED
    BY <1>2, <2>1, <2>2, <2>3, <2>4
<1>3. CASE ~(a = "codex" /\ ~HasAny(s, forms))
  BY <1>3 DEF WithNoDaemon
<1> QED
  BY <1>2, <1>3

---------------------------------------------------------------------------
(* What the launcher and the wrappers add                                  *)

(* The permissions are the user's: an agent without a permission flag, a   *)
(* login, an explicit option.                                              *)
Own(a, given) ==
  LET rest == WithoutLeading(a, given)
  IN \/ ~HasDefault(a)
     \/ IsLoginCommand(a, rest)
     \/ HasAny(rest, {"flag", "option", "shortOption"})

Plain(args) == ~HasAny(args, {"shortOption"})

(* How launcher and wrapper spell the option that Codex runs with.         *)
LauncherForms == {"noDaemon", "noDaemonValue"}
WrapperForms == {"noDaemon"}

LEMMA LauncherCounts ==
  ASSUME NEW a \in Agent, NEW s \in Seq(Word)
  PROVE  /\ Launcher(a, s) \in Seq(Word)
         /\ Count(Launcher(a, s), "flag") = Count(s, "flag") + (IF Own(a, s) THEN 0 ELSE 1)
<1> DEFINE rest == WithoutLeading(a, s)
           full == IF Own(a, s) THEN rest ELSE InsertFlag(a, rest)
<1>1. rest \in Seq(Word) /\ Count(rest, "flag") = Count(s, "flag")
  BY LeadingFacts
<1>2. Launcher(a, s) = WithNoDaemon(a, full, LauncherForms)
  BY DEF Launcher, Own, LauncherForms
<1> HIDE DEF rest
<1>3. /\ full \in Seq(Word)
      /\ Count(full, "flag") = Count(s, "flag") + (IF Own(a, s) THEN 0 ELSE 1)
  <2>1. Count(s, "flag") \in Nat
    <3>1. "flag" \in Word
      BY DEF Word
    <3> QED
      BY <3>1, FrontFacts
  <2>2. CASE Own(a, s)
    BY <1>1, <2>1, <2>2
  <2>3. CASE ~Own(a, s)
    BY <1>1, <2>3, InsertFacts
  <2> QED
    BY <2>2, <2>3
<1> HIDE DEF full
<1> QED
  BY <1>2, <1>3, DaemonFacts

LEMMA PlainOwn ==
  ASSUME NEW a \in Agent, NEW s \in Seq(Word), Plain(s)
  PROVE  LET rest == WithoutLeading(a, s) IN
         Own(a, s) <=> \/ ~HasDefault(a) \/ IsLoginCommand(a, rest)
                       \/ HasAny(rest, {"flag", "option"})
<1> DEFINE rest == WithoutLeading(a, s)
<1>1. ~HasAny(rest, {"shortOption"})
  BY LeadingFacts DEF Plain
<1> HIDE DEF rest
<1>2. HasAny(rest, {"flag", "option", "shortOption"}) <=> HasAny(rest, {"flag", "option"})
  BY <1>1 DEF HasAny
<1> QED
  BY <1>2 DEF Own, rest

(* The wrapper's script and the launcher, written twice, agree on every    *)
(* argument vector without a one-letter permission option as -o=value and, *)
(* for Codex, without --no-daemon=value.                                   *)
THEOREM WrapperIsLauncher ==
  ASSUME NEW a \in Agent, NEW s \in Seq(Word), Plain(s),
         a = "codex" => ~HasAny(s, {"noDaemonValue"})
  PROVE  Wrapper(a, s) = Launcher(a, s)
<1> DEFINE rest == WithoutLeading(a, s)
           full == IF Own(a, s) THEN rest ELSE InsertFlag(a, rest)
<1>1. Wrapper(a, s) = WithNoDaemon(a, full, WrapperForms)
  BY PlainOwn DEF Wrapper, WrapperForms
<1>2. Launcher(a, s) = WithNoDaemon(a, full, LauncherForms)
  BY DEF Launcher, Own, LauncherForms
<1>3. rest \in Seq(Word) /\ (a = "codex" => ~HasAny(rest, {"noDaemonValue"}))
  BY LeadingFacts
<1>4. a = "codex" => ~HasAny(full, {"noDaemonValue"})
  BY <1>3, InsertFacts
<1> HIDE DEF full
<1>5. a = "codex" => (HasAny(full, LauncherForms) <=> HasAny(full, WrapperForms))
  BY <1>4 DEF HasAny, LauncherForms, WrapperForms
<1> QED
  BY <1>1, <1>2, <1>5 DEF WithNoDaemon

(* With --no-daemon=value too, they agree on the permission flag.          *)
LEMMA WrapperCounts ==
  ASSUME NEW a \in Agent, NEW s \in Seq(Word), Plain(s)
  PROVE  Count(Wrapper(a, s), "flag") = Count(Launcher(a, s), "flag")
<1> DEFINE rest == WithoutLeading(a, s)
           full == IF Own(a, s) THEN rest ELSE InsertFlag(a, rest)
<1>1. Wrapper(a, s) = WithNoDaemon(a, full, WrapperForms)
  BY PlainOwn DEF Wrapper, WrapperForms
<1>2. Launcher(a, s) = WithNoDaemon(a, full, LauncherForms)
  BY DEF Launcher, Own, LauncherForms
<1>3. rest \in Seq(Word)
  BY LeadingFacts
<1>4. full \in Seq(Word)
  BY <1>3, InsertFacts
<1> QED
  BY <1>1, <1>2, <1>4, DaemonFacts

LEMMA WrapperAfterLauncher ==
  ASSUME NEW a \in Agent, NEW s \in Seq(Word), Plain(s)
  PROVE  LET w == Launcher(a, s) IN
         /\ Wrapper(a, w) \in Seq(Word) /\ Count(Wrapper(a, w), "flag") = Count(w, "flag")
         /\ ~Repeated(a, s) =>
              \/ Wrapper(a, w) = w
              \/ /\ HasAny(w, {"noDaemonValue"}) /\ ~HasAny(w, {"noDaemon"})
                 /\ Wrapper(a, w) = Fronted("noDaemon", w)
<1> DEFINE rest == WithoutLeading(a, s)
           full == IF Own(a, s) THEN rest ELSE InsertFlag(a, rest)
           w == WithNoDaemon(a, full, LauncherForms)
           again == WithoutLeading(a, w)
<1>1. /\ rest \in Seq(Word)
      /\ a # "codex" \/ First(s) # "noDaemon" => rest = s
      /\ a = "codex" /\ First(s) = "noDaemon" => rest = Tail(s)
  BY LeadingFacts
<1>2. Launcher(a, s) = w
  BY DEF Launcher, Own, LauncherForms
<1>3. Own(a, s) <=> \/ ~HasDefault(a) \/ IsLoginCommand(a, rest)
                    \/ HasAny(rest, {"flag", "option"})
  BY PlainOwn
<1> HIDE DEF rest
<1>4. /\ full \in Seq(Word)
      /\ ~HasDefault(a) \/ IsLoginCommand(a, full) \/ HasAny(full, {"flag", "option"})
      /\ First(full) = "noDaemon" => full = rest
  <2>1. CASE Own(a, s)
    BY <1>1, <1>3, <2>1
  <2>2. CASE ~Own(a, s)
    BY <1>1, <2>2, InsertFacts
  <2> QED
    BY <2>1, <2>2
<1>5. ~Repeated(a, s) /\ a = "codex" /\ First(full) = "noDaemon"
        => ~HasAny(Tail(full), {"noDaemon"})
  BY <1>1, <1>4 DEF Repeated
<1> HIDE DEF full
<1>6. /\ w \in Seq(Word)
      /\ HasAny(w, {"flag", "option"}) <=> HasAny(full, {"flag", "option"})
      /\ a # "codex" \/ HasAny(full, LauncherForms) => w = full
      /\ a = "codex" /\ ~HasAny(full, LauncherForms) =>
           w # <<>> /\ First(w) = "noDaemon" /\ Tail(w) = full
  BY <1>4, DaemonFacts DEF LauncherForms
<1> HIDE DEF w
<1>7. /\ again \in Seq(Word) /\ Count(again, "flag") = Count(w, "flag")
      /\ HasAny(again, {"flag", "option"}) <=> HasAny(w, {"flag", "option"})
      /\ a # "codex" \/ First(w) # "noDaemon" => again = w
      /\ a = "codex" /\ First(w) = "noDaemon" => again = Tail(w)
  BY <1>6, LeadingFacts
<1> HIDE DEF again
<1>8. IsLoginCommand(a, full) => IsLoginCommand(a, again)
  <2> SUFFICES ASSUME IsLoginCommand(a, full) PROVE IsLoginCommand(a, again)
    OBVIOUS
  <2>1. First(full) = "login"
    BY DEF IsLoginCommand
  <2>2. again = full
    BY <1>6, <1>7, <2>1
  <2> QED
    BY <2>2
<1>9. Wrapper(a, w) = WithNoDaemon(a, again, WrapperForms)
  <2>1. ~(HasDefault(a) /\ ~IsLoginCommand(a, again) /\ ~HasAny(again, {"flag", "option"}))
    BY <1>4, <1>6, <1>7, <1>8
  <2> QED
    BY <2>1 DEF Wrapper, WrapperForms, again
<1> DEFINE got == WithNoDaemon(a, again, WrapperForms)
<1>10. /\ got \in Seq(Word)
       /\ Count(got, "flag") = Count(again, "flag")
       /\ a # "codex" \/ HasAny(again, WrapperForms) => got = again
       /\ a = "codex" /\ ~HasAny(again, WrapperForms) => got = Fronted("noDaemon", again)
  BY <1>7, DaemonFacts DEF WithNoDaemon, Fronted
<1>11. HasAny(full, LauncherForms)
         <=> HasAny(full, WrapperForms) \/ HasAny(full, {"noDaemonValue"})
  BY DEF HasAny, LauncherForms, WrapperForms
<1>12. First(full) = "noDaemon" => HasAny(full, WrapperForms)
  <2>1. First(full) = "noDaemon" => full # <<>> /\ Head(full) \in WrapperForms
    BY DEF First, WrapperForms
  <2> QED
    BY <1>4, <2>1, HasAnyStep
<1>13. ~Repeated(a, s) =>
         \/ got = w
         \/ /\ HasAny(w, {"noDaemonValue"}) /\ ~HasAny(w, WrapperForms)
            /\ got = Fronted("noDaemon", w)
  <2>1. CASE a # "codex"
    BY <1>7, <1>10, <2>1
  <2>2. CASE a = "codex" /\ ~HasAny(full, LauncherForms)
    <3>1. again = full /\ w = Fronted("noDaemon", full)
      BY <1>6, <1>7, <2>2 DEF w, WithNoDaemon, Fronted
    <3> QED
      BY <1>10, <1>11, <2>2, <3>1
  <2>3. CASE a = "codex" /\ HasAny(full, WrapperForms) /\ First(full) # "noDaemon"
    BY <1>6, <1>7, <1>10, <1>11, <2>3
  <2>4. CASE a = "codex" /\ HasAny(full, WrapperForms) /\ First(full) = "noDaemon" /\ ~Repeated(a, s)
    <3>1. w = full /\ again = Tail(w) /\ ~HasAny(again, WrapperForms)
      BY <1>5, <1>6, <1>7, <1>11, <2>4 DEF WrapperForms
    <3>2. w # <<>> /\ Head(w) = "noDaemon"
      BY <2>4, <3>1 DEF First
    <3>3. Fronted("noDaemon", again) = w
      BY <1>6, <3>1, <3>2, HeadTailAgain
    <3> QED
      BY <1>10, <2>4, <3>1, <3>3
  <2>5. CASE a = "codex" /\ ~HasAny(full, WrapperForms) /\ HasAny(full, {"noDaemonValue"})
    <3>1. w = full /\ again = w
      BY <1>6, <1>7, <1>11, <1>12, <2>5
    <3> QED
      BY <1>10, <2>5, <3>1
  <2> QED
    BY <1>11, <2>1, <2>2, <2>3, <2>4, <2>5
<1> HIDE DEF got
<1> QED
  BY <1>2, <1>7, <1>9, <1>10, <1>13 DEF got, WrapperForms

---------------------------------------------------------------------------
(* The inductive invariant                                                 *)
TypeOK ==
  /\ pc \in [Session -> {"prepare", "wrappers", "launch", "running", "over"}]
  /\ missing \in [Session -> SUBSET Agent]
  /\ wrappers \in SUBSET Agent
  /\ installed \in SUBSET Agent
  /\ process \in [Session -> Process]
  /\ calls \in [Session -> 0..MaxCalls]

(* What a session wrote stays: of the sessions that write wrappers, each   *)
(* writes those of the same agents.                                        *)
SameAgents ==
  \A s, t \in Session : WithWrappers(s) /\ WithWrappers(t) => Prepared[s] = Prepared[t]
WrappersKept ==
  \A s \in Session : WithWrappers(s) =>
    /\ pc[s] = "wrappers" => Prepared[s] \ missing[s] \subseteq wrappers
    /\ pc[s] \in {"launch", "running"} => Prepared[s] \subseteq wrappers

LEMMA WrapperType ==
  ASSUME NEW a \in Agent, NEW s \in Seq(Word)
  PROVE  Wrapper(a, s) \in Seq(Word)
<1> DEFINE rest == WithoutLeading(a, s)
<1>1. rest \in Seq(Word)
  BY LeadingFacts
<1> HIDE DEF rest
<1>2. \A r \in Seq(Word) :
        /\ \A forms : WithNoDaemon(a, r, forms) \in Seq(Word)
        /\ InsertFlag(a, r) \in Seq(Word)
  BY DaemonFacts, InsertFacts
<1> QED
  BY <1>1, <1>2 DEF Wrapper, rest

(* What a session runs after a launch or a call                            *)
Launched(s, p) ==
  \E args \in Args :
    p = Executed(s, Selected[s], args, Launcher(Selected[s], args), {Selected[s]}, "launch")
Called(s, p) ==
  \E a \in Prepared[s], args \in Args :
    p = Executed(s, a, args, args, process[s].states, "call")

LEMMA ExecutedType ==
  ASSUME NEW s \in Session, NEW a \in Agent, NEW given \in Seq(Word), NEW args \in Seq(Word),
         NEW states \in SUBSET Agent, NEW by \in {"launch", "call"}
  PROVE  Executed(s, a, given, args, states, by) \in Process
<1>1. Wrapper(a, args) \in Seq(Word)
  BY WrapperType
<1> QED
  BY <1>1 DEF Executed, Process, WrapperStates

LEMMA StartedType ==
  ASSUME TypeOK, NEW s \in Session, NEW p,
         (Launched(s, p) /\ Selected[s] # "shell") \/ Called(s, p)
  PROVE  p \in Process
<1>1. CASE Launched(s, p) /\ Selected[s] # "shell"
  <2>1. PICK args \in Args : p = Executed(s, Selected[s], args, Launcher(Selected[s], args),
                                          {Selected[s]}, "launch")
    BY <1>1 DEF Launched
  <2>2. Selected[s] \in Agent /\ args \in Seq(Word)
    BY <1>1, InvocationAssumption
  <2>3. Launcher(Selected[s], args) \in Seq(Word)
    BY <2>2, LauncherCounts
  <2> QED
    BY <2>1, <2>2, <2>3, ExecutedType
<1>2. CASE Called(s, p)
  <2>1. PICK a \in Prepared[s], args \in Args :
          p = Executed(s, a, args, args, process[s].states, "call")
    BY <1>2 DEF Called
  <2>2. a \in Agent /\ args \in Seq(Word) /\ process[s].states \in SUBSET Agent
    BY InvocationAssumption DEF TypeOK, Process
  <2> QED
    BY <2>1, <2>2, ExecutedType
<1> QED
  BY <1>1, <1>2

(* What one step does to the process of a session.                         *)
LEMMA ProcessStep ==
  ASSUME TypeOK, [Next]_agentVars, NEW s \in Session
  PROVE  \/ process'[s] = process[s]
         \/ process'[s] = Nothing
         \/ /\ Launched(s, process'[s]) /\ pc[s] = "launch"
            /\ Selected[s] # "shell"
         \/ /\ Called(s, process'[s]) /\ pc[s] = "running"
            /\ WithWrappers(s)
<1> USE DEF TypeOK
<1>1. ASSUME NEW t \in Session,
             Prepare(t) \/ Unlock(t) \/ Fails(t) \/ OpenShell(t) \/ \E a \in Agent : WriteWrapper(t, a)
      PROVE  process'[s] = process[s]
  BY <1>1 DEF Prepare, Unlock, Fails, OpenShell, WriteWrapper
<1>2. ASSUME NEW t \in Session, Launch(t)
      PROVE  \/ process'[s] = process[s]
             \/ /\ Launched(s, process'[s]) /\ pc[s] = "launch"
                /\ Selected[s] # "shell"
  <2>1. PICK args \in Args :
          process' = [process EXCEPT ![t] = Executed(t, Selected[t], args,
                        Launcher(Selected[t], args), {Selected[t]}, "launch")]
    BY <1>2 DEF Launch
  <2>2. CASE t = s
    BY <1>2, <2>1, <2>2 DEF Launch, Launched
  <2>3. CASE t # s
    BY <1>2, <2>1, <2>3 DEF Launch
  <2> QED
    BY <2>2, <2>3
<1>3. ASSUME NEW t \in Session, NEW a \in Agent, Call(t, a)
      PROVE  \/ process'[s] = process[s]
             \/ /\ Called(s, process'[s]) /\ pc[s] = "running"
                /\ WithWrappers(s)
  <2>1. PICK args \in Args :
          process' = [process EXCEPT ![t] =
                        Executed(t, a, args, args, process[t].states, "call")]
    BY <1>3 DEF Call
  <2>2. CASE t = s
    BY <1>3, <2>1, <2>2 DEF Call, Called
  <2>3. CASE t # s
    BY <1>3, <2>1, <2>3 DEF Call
  <2> QED
    BY <2>2, <2>3
<1>4. ASSUME NEW t \in Session, Ends(t)
      PROVE  \/ process'[s] = process[s]
             \/ process'[s] = Nothing
  BY <1>4 DEF Ends
<1>5. CASE UNCHANGED agentVars
  BY <1>5 DEF agentVars
<1> QED
  BY <1>1, <1>2, <1>3, <1>4, <1>5 DEF Next, AllOver

LEMMA InitTypes == Init => TypeOK /\ WrappersKept
<1> SUFFICES ASSUME Init PROVE TypeOK /\ WrappersKept
  OBVIOUS
<1>1. Nothing \in Process
  BY EmptySeq DEF Nothing, Process
<1>2. 0 \in 0..MaxCalls
  BY InvocationAssumption
<1> QED
  BY <1>1, <1>2 DEF Init, TypeOK, WrappersKept

LEMMA TypeKept == TypeOK /\ [Next]_agentVars => TypeOK'
<1> SUFFICES ASSUME TypeOK, [Next]_agentVars PROVE TypeOK'
  OBVIOUS
<1> USE InvocationAssumption DEF TypeOK
<1> DEFINE Control == /\ pc \in [Session -> {"prepare", "wrappers", "launch", "running", "over"}]
                      /\ missing \in [Session -> SUBSET Agent]
                      /\ wrappers \in SUBSET Agent /\ installed \in SUBSET Agent
                      /\ calls \in [Session -> 0..MaxCalls]
           Function == DOMAIN process' = Session /\ process' = [s \in Session |-> process'[s]]
<1>1. Control' /\ Function
  <2>1. ASSUME NEW s \in Session, Prepare(s) PROVE Control' /\ Function
    BY <2>1 DEF Prepare
  <2>2. ASSUME NEW s \in Session, Unlock(s) \/ Fails(s) \/ OpenShell(s) PROVE Control' /\ Function
    BY <2>2 DEF Unlock, Fails, OpenShell
  <2>3. ASSUME NEW s \in Session, Launch(s) PROVE Control' /\ Function
    BY <2>3 DEF Launch
  <2>4. ASSUME NEW s \in Session, Ends(s) PROVE Control' /\ Function
    BY <2>4 DEF Ends
  <2>5. ASSUME NEW s \in Session, NEW a \in Agent, WriteWrapper(s, a) PROVE Control' /\ Function
    BY <2>5 DEF WriteWrapper
  <2>6. ASSUME NEW s \in Session, NEW a \in Agent, Call(s, a) PROVE Control' /\ Function
    <3>1. calls' = [calls EXCEPT ![s] = @ + 1] /\ calls[s] \in 0..MaxCalls /\ calls[s] < MaxCalls
      BY <2>6 DEF Call
    <3>2. calls[s] + 1 \in 0..MaxCalls
      BY <3>1
    <3>3. calls' \in [Session -> 0..MaxCalls]
      BY <3>1, <3>2
    <3>4. Function /\ UNCHANGED <<pc, missing, wrappers, installed>>
      BY <2>6 DEF Call
    <3> QED
      BY <3>3, <3>4
  <2>7. CASE UNCHANGED agentVars
    BY <2>7 DEF agentVars
  <2> QED
    BY <2>1, <2>2, <2>3, <2>4, <2>5, <2>6, <2>7 DEF Next, AllOver
<1>2. ASSUME NEW s \in Session PROVE process'[s] \in Process
  <2> HIDE DEF Control, Function
  <2>1. Nothing \in Process /\ process[s] \in Process
    BY EmptySeq DEF Nothing, Process
  <2> QED
    BY <2>1, ProcessStep, StartedType
<1> QED
  BY <1>1, <1>2

LEMMA WrappersStayKept ==
  ASSUME SameAgents, TypeOK, WrappersKept, [Next]_agentVars
  PROVE  WrappersKept'
<1> USE InvocationAssumption DEF TypeOK, WrappersKept
<1>1. \A s \in Session : WithWrappers(s)' <=> WithWrappers(s)
  BY DEF WithWrappers
<1>2. ASSUME NEW t \in Session, Prepare(t) PROVE WrappersKept'
  BY <1>1, <1>2 DEF Prepare, SameAgents
<1>3. ASSUME NEW t \in Session, Unlock(t) \/ Fails(t) \/ OpenShell(t) \/ Launch(t) \/ Ends(t)
      PROVE  WrappersKept'
  BY <1>1, <1>3 DEF Unlock, Fails, OpenShell, Launch, Ends
<1>4. ASSUME NEW t \in Session, NEW a \in Agent, WriteWrapper(t, a) PROVE WrappersKept'
  BY <1>1, <1>4 DEF WriteWrapper
<1>5. ASSUME NEW t \in Session, NEW a \in Agent, Call(t, a) PROVE WrappersKept'
  BY <1>1, <1>5 DEF Call
<1>6. CASE UNCHANGED agentVars
  BY <1>1, <1>6 DEF agentVars
<1> QED
  BY <1>2, <1>3, <1>4, <1>5, <1>6 DEF Next, AllOver

---------------------------------------------------------------------------
(* Sessions on one VM that name the same agents and pass no one-letter     *)
(* option as -o=value: the runs other_agents and short_option show that    *)
(* neither hypothesis can be dropped.                                      *)
PlainArgs == \A args \in Args : Plain(args)

IInv == TypeOK /\ WrappersKept

LEMMA TypeHolds == Spec => []TypeOK
BY InitTypes, TypeKept, PTL DEF Spec

LEMMA InvHolds ==
  ASSUME SameAgents
  PROVE  Spec => []IInv
<1>1. Init => IInv
  BY InitTypes DEF IInv
<1>2. IInv /\ [Next]_agentVars => IInv'
  BY TypeKept, WrappersStayKept DEF IInv
<1> QED
  BY <1>1, <1>2, PTL DEF Spec

LEMMA LaunchedWith ==
  ASSUME NEW s \in Session, NEW p, Launched(s, p), Selected[s] # "shell"
  PROVE  /\ p.agent \in Agent /\ p.given \in Args /\ p.states = {p.agent} /\ p.by = "launch"
         /\ p.argv \in {Launcher(p.agent, p.given), Wrapper(p.agent, Launcher(p.agent, p.given))}
<1>1. PICK args \in Args : p = Executed(s, Selected[s], args, Launcher(Selected[s], args),
                                        {Selected[s]}, "launch")
  BY DEF Launched
<1>2. Selected[s] \in Agent
  BY InvocationAssumption
<1> QED
  BY <1>1, <1>2 DEF Executed, WrapperStates

LEMMA CalledBy ==
  ASSUME NEW s \in Session, NEW p, Called(s, p)
  PROVE  p.by = "call"
BY DEF Called, Executed

(* With the wrappers in place, a call by name goes through the agent's.    *)
LEMMA CalledWith ==
  ASSUME IInv, NEW s \in Session, NEW p, Called(s, p), pc[s] = "running", WithWrappers(s)
  PROVE  /\ p.agent \in Agent /\ p.given \in Args /\ p.states = {p.agent}
         /\ p.argv = Wrapper(p.agent, p.given)
<1>1. PICK a \in Prepared[s], args \in Args :
        p = Executed(s, a, args, args, process[s].states, "call")
  BY DEF Called
<1>2. a \in Agent /\ a \in wrappers
  BY InvocationAssumption DEF IInv, WrappersKept
<1> QED
  BY <1>1, <1>2 DEF Executed, WrapperStates

(* An agent has its own state and no other's, whoever starts it and        *)
(* however many sessions prepare, run and fail beside it.                  *)
THEOREM StateIsOwn ==
  ASSUME SameAgents
  PROVE  Spec => []OwnState
<1> DEFINE Own1(p) == p.agent \in Agent => p.states = {p.agent}
           Inv == \A s \in Session : Own1(process[s])
<1>1. Init => Inv
  BY DEF Init, Nothing, Agent
<1>2. IInv /\ Inv /\ [Next]_agentVars => Inv'
  <2> SUFFICES ASSUME IInv, Inv, [Next]_agentVars, NEW s \in Session
               PROVE  Own1(process'[s])
    OBVIOUS
  <2>1. Own1(process[s]) /\ Own1(Nothing)
    BY DEF Nothing, Agent
  <2>2. \/ process'[s] = process[s] \/ process'[s] = Nothing
        \/ Launched(s, process'[s]) /\ Selected[s] # "shell"
        \/ Called(s, process'[s]) /\ pc[s] = "running" /\ WithWrappers(s)
    BY ProcessStep DEF IInv
  <2> QED
    BY <2>1, <2>2, LaunchedWith, CalledWith
<1>3. Inv => OwnState
  BY DEF OwnState, Agents
<1> HIDE DEF Inv
<1> QED
  BY <1>1, <1>2, <1>3, InvHolds, PTL DEF Spec

(* Through the launcher, a wrapper or both: an explicit permission option, *)
(* and a login, leave the permissions alone, and any other start of Codex  *)
(* or Claude gets LJA's flag exactly once.                                 *)
THEOREM OptionsWin ==
  ASSUME SameAgents, PlainArgs
  PROVE  Spec => []ExplicitOptionsWin
<1> DEFINE Won(p) == p.agent \in Agent =>
                       Count(p.argv, "flag") = Count(p.given, "flag")
                                                 + (IF Own(p.agent, p.given) THEN 0 ELSE 1)
           Inv == \A s \in Session : Won(process[s])
<1>1. Init => Inv
  BY DEF Init, Nothing, Agent
<1>2. IInv /\ Inv /\ [Next]_agentVars => Inv'
  <2> SUFFICES ASSUME IInv, Inv, [Next]_agentVars, NEW s \in Session
               PROVE  Won(process'[s])
    OBVIOUS
  <2>1. Won(process[s]) /\ Won(Nothing)
    BY DEF Nothing, Agent
  <2>2. ASSUME NEW p, \/ Launched(s, p) /\ Selected[s] # "shell"
                      \/ Called(s, p) /\ pc[s] = "running" /\ WithWrappers(s)
        PROVE  Won(p)
    <3>1. /\ p.agent \in Agent /\ p.given \in Args
          /\ p.argv \in {Launcher(p.agent, p.given), Wrapper(p.agent, p.given),
                         Wrapper(p.agent, Launcher(p.agent, p.given))}
      BY <2>2, LaunchedWith, CalledWith
    <3>2. p.given \in Seq(Word) /\ Plain(p.given)
      BY <3>1, InvocationAssumption DEF PlainArgs
    <3>3. Count(Wrapper(p.agent, p.given), "flag") = Count(Launcher(p.agent, p.given), "flag")
      BY <3>1, <3>2, WrapperCounts
    <3>4. Count(Wrapper(p.agent, Launcher(p.agent, p.given)), "flag")
            = Count(Launcher(p.agent, p.given), "flag")
      BY <3>1, <3>2, WrapperAfterLauncher
    <3>5. Count(Launcher(p.agent, p.given), "flag")
            = Count(p.given, "flag") + (IF Own(p.agent, p.given) THEN 0 ELSE 1)
      BY <3>1, <3>2, LauncherCounts
    <3> QED
      BY <3>1, <3>3, <3>4, <3>5
  <2>3. \/ process'[s] = process[s] \/ process'[s] = Nothing
        \/ Launched(s, process'[s]) /\ Selected[s] # "shell"
        \/ Called(s, process'[s]) /\ pc[s] = "running" /\ WithWrappers(s)
    BY ProcessStep DEF IInv
  <2> QED
    BY <2>1, <2>2, <2>3
<1>3. Inv => ExplicitOptionsWin
  BY DEF ExplicitOptionsWin, Agents, Own
<1> HIDE DEF Inv
<1> QED
  BY <1>1, <1>2, <1>3, InvHolds, PTL DEF Spec

(* A launch that goes through a wrapper starts what a direct launch would, *)
(* but for a repeated --no-daemon, and for --no-daemon in front of one     *)
(* that is written --no-daemon=value.                                      *)
THEOREM LaunchIsUnchanged ==
  ASSUME PlainArgs
  PROVE  Spec => []LaunchUnchanged
<1> DEFINE Same(p) == p.agent \in Agent /\ p.by = "launch" /\ ~Repeated(p.agent, p.given) =>
                        LET built == Launcher(p.agent, p.given)
                        IN \/ p.argv = built
                           \/ /\ HasAny(built, {"noDaemonValue"}) /\ ~HasAny(built, {"noDaemon"})
                              /\ p.argv = <<"noDaemon">> \o built
           Inv == \A s \in Session : Same(process[s])
<1>1. Init => Inv
  BY DEF Init, Nothing, Agent
<1>2. TypeOK /\ Inv /\ [Next]_agentVars => Inv'
  <2> SUFFICES ASSUME TypeOK, Inv, [Next]_agentVars, NEW s \in Session
               PROVE  Same(process'[s])
    OBVIOUS
  <2>1. Same(process[s]) /\ Same(Nothing)
    BY DEF Nothing, Agent
  <2>2. ASSUME Launched(s, process'[s]), Selected[s] # "shell" PROVE Same(process'[s])
    <3> DEFINE p == process'[s]
    <3>1. /\ p.agent \in Agent /\ p.given \in Args
          /\ p.argv \in {Launcher(p.agent, p.given), Wrapper(p.agent, Launcher(p.agent, p.given))}
      BY <2>2, LaunchedWith
    <3>2. p.given \in Seq(Word) /\ Plain(p.given)
      BY <3>1, InvocationAssumption DEF PlainArgs
    <3>3. ~Repeated(p.agent, p.given) =>
            LET built == Launcher(p.agent, p.given)
            IN \/ Wrapper(p.agent, built) = built
               \/ /\ HasAny(built, {"noDaemonValue"}) /\ ~HasAny(built, {"noDaemon"})
                  /\ Wrapper(p.agent, built) = <<"noDaemon">> \o built
      BY <3>1, <3>2, WrapperAfterLauncher DEF Fronted
    <3> QED
      BY <3>1, <3>3
  <2>3. \/ process'[s] = process[s] \/ process'[s] = Nothing
        \/ Launched(s, process'[s]) /\ Selected[s] # "shell"
        \/ Called(s, process'[s]) /\ pc[s] = "running" /\ WithWrappers(s)
    BY ProcessStep
  <2> QED
    BY <2>1, <2>2, <2>3, CalledBy
<1>3. Inv => LaunchUnchanged
  BY DEF LaunchUnchanged, Agents
<1> HIDE DEF Inv
<1> QED
  BY <1>1, <1>2, <1>3, TypeHolds, PTL DEF Spec
=============================================================================
