------------------------ MODULE ProvisioningProofs ------------------------
(***************************************************************************)
(* For any packages, executables, tools, requests and guests, and however  *)
(* often the connection is lost: what a step relies on was seen in the     *)
(* guest after the last command that could have taken it away, and nothing *)
(* that is there is installed over.                                        *)
(*                                                                         *)
(* The lists of a request have any length, so the lemmas of the first part *)
(* say what the model's recursive functions on lists return for all of     *)
(* them, by induction over the position in the list.                       *)
(***************************************************************************)
EXTENDS Provisioning, TLAPS, WellFoundedInduction, SequenceTheorems


(* Induction up to a bound, for the elements of a set.                     *)
LEMMA Induction ==
  ASSUME NEW n \in Nat, NEW S \in SUBSET (0..n), 0 \in S, \A k \in S : k < n => k + 1 \in S
  PROVE  S = 0..n
<1> DEFINE R == {ss \in Nat \X Nat : ss[1] < ss[2]}
           Out == (0..n) \ S
<1>1. SUFFICES ASSUME Out # {} PROVE FALSE
  OBVIOUS
<1>2. Out \subseteq Nat
  OBVIOUS
<1>3. PICK k \in Out : \A l \in Out : ~(<<l, k>> \in R)
  <2>1. IsWellFoundedOn(R, Nat)
    BY NatLessThanWellFounded, Zenon DEF OpToRel
  <2> HIDE DEF R, Out
  <2> QED
    BY <1>1, <1>2, <2>1, WFMin
<1>4. k \in 1..n /\ k - 1 \in 0..n /\ <<k - 1, k>> \in R
  OBVIOUS
<1>5. k - 1 \in S
  BY <1>3, <1>4
<1> QED
  BY <1>4, <1>5

(* A sequence of values, each made from the one before.                    *)
Iterates(f, n, X, base, step) ==
  /\ f \in [0..n -> X] /\ f[0] = base
  /\ \A k \in 1..n : f[k] = step[k][f[k - 1]]

LEMMA Iterate ==
  ASSUME NEW n \in Nat, NEW X, NEW base \in X, NEW step \in [1..n -> [X -> X]]
  PROVE  \E f : Iterates(f, n, X, base, step)
<1> DEFINE S == {m \in 0..n : \E f : Iterates(f, m, X, base, step)}
<1>1. 0 \in S
  <2>1. Iterates([k \in {0} |-> base], 0, X, base, step)
    BY DEF Iterates
  <2> QED
    BY <2>1
<1>2. ASSUME NEW m \in S, m < n PROVE m + 1 \in S
  <2>1. PICK f : Iterates(f, m, X, base, step)
    OBVIOUS
  <2> DEFINE e == [k \in 0..(m + 1) |-> IF k = m + 1 THEN step[m + 1][f[m]] ELSE f[k]]
  <2>2. m \in Nat /\ m + 1 \in 1..n /\ m + 1 \in 0..n /\ f[m] \in X
    BY <1>2, <2>1 DEF Iterates
  <2>3. step[m + 1][f[m]] \in X
    BY <2>2
  <2>4. e \in [0..(m + 1) -> X]
    BY <2>1, <2>2, <2>3 DEF Iterates
  <2>5. ASSUME NEW k \in 1..(m + 1)
        PROVE  e[k] = step[k][e[k - 1]]
    <3>1. CASE k = m + 1
      <4>1. k - 1 \in 0..(m + 1) /\ k - 1 # m + 1 /\ k - 1 = m
        BY <2>2, <3>1
      <4> QED
        BY <4>1, <3>1
    <3>2. CASE k \in 1..m
      <4>1. k # m + 1 /\ k - 1 \in 0..(m + 1) /\ k - 1 # m + 1
        BY <2>2, <3>2
      <4>2. e[k] = f[k] /\ e[k - 1] = f[k - 1]
        BY <4>1
      <4> QED
        BY <2>1, <3>2, <4>2 DEF Iterates
    <3> QED
      BY <2>2, <3>1, <3>2
  <2>6. e[0] = base
    BY <2>1, <2>2 DEF Iterates
  <2>7. Iterates(e, m + 1, X, base, step)
    BY <2>4, <2>5, <2>6 DEF Iterates
  <2> QED
    BY <2>2, <2>7
<1>3. S = 0..n
  <2>1. S \in SUBSET (0..n)
    OBVIOUS
  <2> HIDE DEF S
  <2> QED
    BY <1>1, <1>2, <2>1, Induction
<1>4. n \in S
  <2> HIDE DEF S
  <2> QED
    BY <1>3
<1> QED
  BY <1>4

---------------------------------------------------------------------------
(* The plans of packages and tools                                         *)

LEMMA AppendUniqueShape ==
  ASSUME NEW S, NEW q \in Seq(S), NEW x \in S
  PROVE  /\ AppendUnique(q, x) \in Seq(S)
         /\ ToSet(AppendUnique(q, x)) = ToSet(q) \cup {x}
         /\ Len(AppendUnique(q, x)) >= Len(q)
         /\ \A k \in DOMAIN q : AppendUnique(q, x)[k] = q[k]
         /\ \A k \in DOMAIN AppendUnique(q, x) : k \in DOMAIN q \/ AppendUnique(q, x)[k] = x
<1>1. Len(q) \in Nat /\ DOMAIN q = 1..Len(q)
  BY LenProperties
<1>2. CASE Contains(q, x)
  BY <1>1, <1>2 DEF AppendUnique, Contains, ToSet
<1>3. CASE ~Contains(q, x)
  <2> DEFINE a == Append(q, x)
  <2>1. AppendUnique(q, x) = a
    BY <1>3 DEF AppendUnique
  <2>2. /\ a \in Seq(S) /\ Len(a) = Len(q) + 1
        /\ \A k \in 1..Len(q) : a[k] = q[k]
        /\ a[Len(q) + 1] = x
    BY AppendProperties
  <2>3. DOMAIN a = 1..(Len(q) + 1)
    BY <2>2, LenProperties
  <2> HIDE DEF a
  <2>4. ToSet(a) = ToSet(q) \cup {x}
    BY <1>1, <2>2, <2>3 DEF ToSet
  <2> QED
    BY <1>1, <2>1, <2>2, <2>3, <2>4
<1> QED
  BY <1>2, <1>3

LEMMA AppendEachDef ==
  ASSUME NEW S, NEW s \in Seq(S), NEW xs \in Seq(S)
  PROVE  \E u : /\ AppendEach(s, xs) = u[Len(xs)] /\ u[0] = s
               /\ \A k \in 1..Len(xs) : u[k] = AppendUnique(u[k - 1], xs[k])
<1> DEFINE n == Len(xs)
           step == [k \in 1..n |-> [q \in Seq(S) |-> AppendUnique(q, xs[k])]]
           P(u) == u = [k \in 0..Len(xs) |->
                          IF k = 0 THEN s ELSE AppendUnique(u[k - 1], xs[k])]
<1>1. n \in Nat /\ \A k \in 1..n : xs[k] \in S
  BY LenProperties, ElementOfSeq
<1>2. PICK f : Iterates(f, n, Seq(S), s, step)
  <2>1. step \in [1..n -> [Seq(S) -> Seq(S)]]
    BY <1>1, AppendUniqueShape
  <2> HIDE DEF step, n
  <2> QED
    BY <1>1, <2>1, Iterate
<1>3. ASSUME NEW k \in 0..n PROVE f[k] = IF k = 0 THEN s ELSE AppendUnique(f[k - 1], xs[k])
  <2>1. k # 0 => k \in 1..n /\ k - 1 \in 0..n
    BY <1>1
  <2> QED
    BY <1>2, <2>1 DEF Iterates
<1>4. P(f)
  <2>1. f = [k \in 0..n |-> f[k]]
    BY <1>2 DEF Iterates
  <2> QED
    BY <1>3, <2>1
<1> DEFINE c == CHOOSE u : P(u)
<1>5. AppendEach(s, xs) = c[n]
  BY DEF AppendEach
<1>6. P(c)
  BY <1>4
<1>7. ASSUME NEW k \in 0..n PROVE c[k] = IF k = 0 THEN s ELSE AppendUnique(c[k - 1], xs[k])
  <2> HIDE DEF c
  <2> QED
    BY <1>6
<1> QED
  <2>1. 0 \in 0..n /\ \A k \in 1..n : k \in 0..n /\ k # 0
    BY <1>1
  <2> HIDE DEF c, P, step
  <2> QED
    BY <1>5, <1>7, <2>1

LEMMA AppendEachShape ==
  ASSUME NEW S, NEW s \in Seq(S), NEW xs \in Seq(S)
  PROVE  /\ AppendEach(s, xs) \in Seq(S)
         /\ ToSet(AppendEach(s, xs)) = ToSet(s) \cup ToSet(xs)
<1> DEFINE n == Len(xs)
<1>1. PICK u : /\ AppendEach(s, xs) = u[n] /\ u[0] = s
               /\ \A k \in 1..n : u[k] = AppendUnique(u[k - 1], xs[k])
  BY AppendEachDef
<1>2. n \in Nat /\ DOMAIN xs = 1..n /\ \A k \in 1..n : xs[k] \in S
  BY LenProperties, ElementOfSeq
<1> HIDE DEF n
<1> DEFINE I == {k \in 0..n : /\ u[k] \in Seq(S)
                            /\ ToSet(u[k]) = ToSet(s) \cup {xs[j] : j \in 1..k}}
<1>3. 0 \in I
  BY <1>1, <1>2
<1>4. ASSUME NEW k \in I, k < n PROVE k + 1 \in I
  <2>1. k + 1 \in 1..n /\ k + 1 \in 0..n /\ (k + 1) - 1 = k
    BY <1>2, <1>4
  <2>2. u[k + 1] = AppendUnique(u[k], xs[k + 1]) /\ u[k] \in Seq(S) /\ xs[k + 1] \in S
    BY <1>1, <1>2, <2>1
  <2>3. u[k + 1] \in Seq(S) /\ ToSet(u[k + 1]) = ToSet(u[k]) \cup {xs[k + 1]}
    <3>1. \A q \in Seq(S), x \in S :
            /\ AppendUnique(q, x) \in Seq(S)
            /\ ToSet(AppendUnique(q, x)) = ToSet(q) \cup {x}
      BY AppendUniqueShape
    <3> QED
      BY <2>2, <3>1
  <2>4. {xs[j] : j \in 1..(k + 1)} = {xs[j] : j \in 1..k} \cup {xs[k + 1]}
    BY <2>1
  <2>5. ToSet(u[k]) = ToSet(s) \cup {xs[j] : j \in 1..k}
    OBVIOUS
  <2> QED
    BY <2>1, <2>3, <2>4, <2>5
<1>5. I = 0..n
  <2>1. I \in SUBSET (0..n)
    OBVIOUS
  <2> HIDE DEF I
  <2> QED
    BY <1>2, <1>3, <1>4, <2>1, Induction
<1>6. n \in I
  <2>1. n \in 0..n
    BY <1>2
  <2> HIDE DEF I
  <2> QED
    BY <1>5, <2>1
<1>7. ToSet(xs) = {xs[j] : j \in 1..n}
  BY <1>2 DEF ToSet
<1> QED
  BY <1>1, <1>6, <1>7

LEMMA UniqueShape ==
  ASSUME NEW S, NEW s \in Seq(S)
  PROVE  Unique(s) \in Seq(S) /\ ToSet(Unique(s)) = ToSet(s)
<1>1. <<>> \in Seq(S) /\ ToSet(<<>>) = {}
  BY EmptySeq DEF ToSet
<1>2. AppendEach(<<>>, s) \in Seq(S) /\ ToSet(AppendEach(<<>>, s)) = ToSet(<<>>) \cup ToSet(s)
  <2>1. \A q \in Seq(S) : AppendEach(q, s) \in Seq(S) /\ ToSet(AppendEach(q, s)) = ToSet(q) \cup ToSet(s)
    BY AppendEachShape
  <2> QED
    BY <1>1, <2>1
<1> QED
  BY <1>1, <1>2 DEF Unique

(* A tool comes after its prerequisites.                                   *)
Grounded(q) ==
  \A k \in DOMAIN q : \A x \in ToSet(ToolDefinition[q[k]].prerequisites) :
    \E j \in 1..(k - 1) : q[j] = x

LEMMA ToolTypes ==
  ASSUME NEW t \in Tool
  PROVE  LET d == ToolDefinition[t] IN
         /\ d.natives \in Seq(Package \cap Executable)
         /\ d.prerequisites \in Seq(Tool) /\ d.by \in Executable
         /\ d.by \in ToSet(d.natives) \cup ToSet(d.prerequisites)
         /\ ToSet(d.prerequisites) \subseteq Tool
         /\ \A r \in ToSet(d.prerequisites) :
              r \in Tool /\ ToSet(ToolDefinition[r].prerequisites) = {}
<1> DEFINE d == ToolDefinition[t]
<1>1. d \in [natives: Seq(Package \cap Executable), prerequisites: Seq(Tool), by: Executable]
  BY ProvisioningAssumption
<1>2. /\ d.by \in ToSet(d.natives) \cup ToSet(d.prerequisites)
      /\ \A r \in ToSet(d.prerequisites) : ToolDefinition[r].prerequisites = <<>>
  BY ProvisioningAssumption
<1>3. d.natives \in Seq(Package \cap Executable) /\ d.prerequisites \in Seq(Tool) /\ d.by \in Executable
  BY <1>1
<1>4. ToSet(<<>>) = {}
  BY DEF ToSet
<1> HIDE DEF d
<1>5. ToSet(d.prerequisites) \subseteq Tool
  BY <1>3, LenProperties, ElementOfSeq DEF ToSet
<1> QED
  BY <1>2, <1>3, <1>4, <1>5 DEF d

LEMMA AppendGrounded ==
  ASSUME NEW q \in Seq(Tool), Grounded(q), NEW x \in Tool,
         ToSet(ToolDefinition[x].prerequisites) \subseteq ToSet(q)
  PROVE  Grounded(AppendUnique(q, x))
<1>1. CASE Contains(q, x)
  BY <1>1 DEF AppendUnique
<1>2. CASE ~Contains(q, x)
  <2> DEFINE a == Append(q, x)
             n == Len(q)
  <2>1. AppendUnique(q, x) = a
    BY <1>2 DEF AppendUnique
  <2>2. n \in Nat /\ DOMAIN q = 1..n /\ DOMAIN a = 1..(n + 1)
        /\ (\A k \in 1..n : a[k] = q[k]) /\ a[n + 1] = x
    BY AppendProperties, LenProperties
  <2> HIDE DEF a, n
  <2>3. ASSUME NEW k \in DOMAIN a, NEW y \in ToSet(ToolDefinition[a[k]].prerequisites)
        PROVE  \E j \in 1..(k - 1) : a[j] = y
    <3>1. CASE k \in 1..n
      <4>1. a[k] = q[k]
        BY <2>2, <3>1
      <4>2. PICK j \in 1..(k - 1) : q[j] = y
        BY <2>2, <2>3, <3>1, <4>1 DEF Grounded
      <4> QED
        BY <2>2, <3>1, <4>2
    <3>2. CASE k = n + 1
      <4>1. y \in ToSet(q)
        BY <2>2, <2>3, <3>2
      <4>2. PICK j \in 1..n : q[j] = y
        BY <2>2, <4>1 DEF ToSet
      <4> QED
        BY <2>2, <3>2, <4>2
    <3> QED
      BY <2>2, <3>1, <3>2
  <2> QED
    BY <2>1, <2>3 DEF Grounded
<1> QED
  BY <1>1, <1>2

LEMMA AppendEachGrounded ==
  ASSUME NEW q \in Seq(Tool), Grounded(q), NEW t \in Tool
  PROVE  /\ AppendEach(q, WithPrerequisites(t)) \in Seq(Tool)
         /\ Grounded(AppendEach(q, WithPrerequisites(t)))
         /\ ToSet(q) \cup {t} \subseteq ToSet(AppendEach(q, WithPrerequisites(t)))
<1> DEFINE xs == WithPrerequisites(t)
           first == ToolDefinition[t].prerequisites
           n == Len(xs)
           m == Len(first)
<1>1. first \in Seq(Tool) /\ m \in Nat /\ DOMAIN first = 1..m
  BY ToolTypes, LenProperties
<1>2. xs = Append(first, t)
  BY DEF WithPrerequisites
<1> HIDE DEF first, xs
<1>3. /\ xs \in Seq(Tool) /\ n = m + 1 /\ xs[n] = t
      /\ \A k \in 1..m : xs[k] = first[k] /\ xs[k] \in ToSet(first)
  BY <1>1, <1>2, AppendProperties DEF ToSet
<1>4. DOMAIN xs = 1..n /\ \A k \in 1..n : xs[k] \in Tool
  BY <1>3, LenProperties, ElementOfSeq
<1>5. PICK u : /\ AppendEach(q, xs) = u[n] /\ u[0] = q
               /\ \A k \in 1..n : u[k] = AppendUnique(u[k - 1], xs[k])
  <2>1. xs \in Seq(Tool)
    BY <1>3
  <2>2. \A s, r \in Seq(Tool) :
          \E u : /\ AppendEach(s, r) = u[Len(r)] /\ u[0] = s
                 /\ \A k \in 1..Len(r) : u[k] = AppendUnique(u[k - 1], r[k])
    BY AppendEachDef
  <2> QED
    BY <2>1, <2>2
<1> HIDE DEF n, m
<1> DEFINE I == {k \in 0..n : /\ u[k] \in Seq(Tool) /\ Grounded(u[k])
                            /\ ToSet(q) \cup {xs[j] : j \in 1..k} \subseteq ToSet(u[k])}
<1>6. 0 \in I
  <2>1. 0 \in 0..n /\ {xs[j] : j \in 1..0} = {}
    BY <1>1, <1>3
  <2> QED
    BY <1>5, <2>1
<1>7. ASSUME NEW k \in I, k < n PROVE k + 1 \in I
  <2>1. k + 1 \in 1..n /\ k + 1 \in 0..n /\ (k + 1) - 1 = k /\ k \in Nat /\ n \in Nat
    BY <1>1, <1>3, <1>7
  <2>2. PICK v \in Seq(Tool) : v = u[k] /\ Grounded(v) /\ ToSet(q) \cup {xs[j] : j \in 1..k} \subseteq ToSet(v)
    OBVIOUS
  <2>3. PICK x \in Tool : x = xs[k + 1]
    BY <1>4, <2>1
  <2>4. u[k + 1] = AppendUnique(v, x)
    BY <1>5, <2>1, <2>2, <2>3
  <2>5. ToSet(ToolDefinition[x].prerequisites) \subseteq ToSet(v)
    <3>1. CASE k + 1 \in 1..m
      <4>1. x \in ToSet(first)
        BY <1>3, <2>3, <3>1
      <4>2. ToSet(ToolDefinition[x].prerequisites) = {}
        BY <4>1, ToolTypes DEF first
      <4> QED
        BY <4>2
    <3>2. CASE k = m
      <4>1. x = t
        BY <1>3, <2>3, <3>2
      <4>2. ToSet(first) = {xs[j] : j \in 1..k}
        BY <1>1, <1>3, <3>2 DEF ToSet
      <4> QED
        BY <2>2, <4>1, <4>2 DEF first
    <3> QED
      BY <1>1, <1>3, <2>1, <3>1, <3>2
  <2>6. /\ AppendUnique(v, x) \in Seq(Tool)
        /\ ToSet(AppendUnique(v, x)) = ToSet(v) \cup {x}
    BY AppendUniqueShape
  <2>7. Grounded(AppendUnique(v, x))
    BY <2>2, <2>5, AppendGrounded
  <2>8. {xs[j] : j \in 1..(k + 1)} = {xs[j] : j \in 1..k} \cup {x}
    BY <2>1, <2>3
  <2> QED
    BY <2>1, <2>2, <2>4, <2>6, <2>7, <2>8
<1>8. I = 0..n
  <2>1. I \in SUBSET (0..n) /\ n \in Nat
    BY <1>1, <1>3
  <2> HIDE DEF I
  <2> QED
    BY <1>6, <1>7, <2>1, Induction
<1>9. n \in I
  <2>1. n \in 0..n
    BY <1>1, <1>3
  <2> HIDE DEF I
  <2> QED
    BY <1>8, <2>1
<1>10. t \in {xs[j] : j \in 1..n}
  BY <1>1, <1>3
<1> QED
  BY <1>5, <1>9, <1>10 DEF xs

LEMMA ToolPlanDef ==
  ASSUME NEW requested \in Seq(Tool)
  PROVE  \E u : /\ ToolPlan(requested) = u[Len(requested)] /\ u[0] = <<>>
               /\ \A k \in 1..Len(requested) :
                    u[k] = AppendEach(u[k - 1], WithPrerequisites(requested[k]))
<1> DEFINE n == Len(requested)
           step == [k \in 1..n |->
                      [q \in Seq(Tool) |-> AppendEach(q, WithPrerequisites(requested[k]))]]
           P(u) == u = [k \in 0..Len(requested) |->
                          IF k = 0 THEN <<>>
                          ELSE AppendEach(u[k - 1], WithPrerequisites(requested[k]))]
<1>1. n \in Nat /\ \A k \in 1..n : requested[k] \in Tool
  BY LenProperties, ElementOfSeq
<1>2. ASSUME NEW t \in Tool PROVE WithPrerequisites(t) \in Seq(Tool)
  BY ToolTypes, AppendProperties DEF WithPrerequisites
<1>3. \A q \in Seq(Tool), t \in Tool : AppendEach(q, WithPrerequisites(t)) \in Seq(Tool)
  BY <1>2, AppendEachShape
<1>4. PICK f : Iterates(f, n, Seq(Tool), <<>>, step)
  <2>1. step \in [1..n -> [Seq(Tool) -> Seq(Tool)]]
    BY <1>1, <1>3
  <2>2. <<>> \in Seq(Tool)
    BY EmptySeq
  <2> HIDE DEF step, n
  <2> QED
    BY <1>1, <2>1, <2>2, Iterate
<1>5. ASSUME NEW k \in 0..n
      PROVE  f[k] = IF k = 0 THEN <<>>
                    ELSE AppendEach(f[k - 1], WithPrerequisites(requested[k]))
  <2>1. k # 0 => k \in 1..n /\ k - 1 \in 0..n
    BY <1>1
  <2> QED
    BY <1>4, <2>1 DEF Iterates
<1>6. P(f)
  <2>1. f = [k \in 0..n |-> f[k]]
    BY <1>4 DEF Iterates
  <2> QED
    BY <1>5, <2>1
<1> DEFINE c == CHOOSE u : P(u)
<1>7. ToolPlan(requested) = c[n]
  BY DEF ToolPlan
<1>8. P(c)
  BY <1>6
<1>9. ASSUME NEW k \in 0..n
      PROVE  c[k] = IF k = 0 THEN <<>>
                    ELSE AppendEach(c[k - 1], WithPrerequisites(requested[k]))
  <2> HIDE DEF c
  <2> QED
    BY <1>8
<1> QED
  <2>1. 0 \in 0..n /\ \A k \in 1..n : k \in 0..n /\ k # 0
    BY <1>1
  <2> HIDE DEF c, P, step
  <2> QED
    BY <1>7, <1>9, <2>1

LEMMA ToolPlanShape ==
  ASSUME NEW requested \in Seq(Tool)
  PROVE  /\ ToolPlan(requested) \in Seq(Tool) /\ Grounded(ToolPlan(requested))
         /\ ToSet(requested) \subseteq ToSet(ToolPlan(requested))
         /\ requested = <<>> => ToolPlan(requested) = <<>>
<1> DEFINE n == Len(requested)
<1>1. PICK u : /\ ToolPlan(requested) = u[n] /\ u[0] = <<>>
               /\ \A k \in 1..n : u[k] = AppendEach(u[k - 1], WithPrerequisites(requested[k]))
  BY ToolPlanDef
<1>2. n \in Nat /\ DOMAIN requested = 1..n /\ \A k \in 1..n : requested[k] \in Tool
  BY LenProperties, ElementOfSeq
<1>3. requested = <<>> => n = 0
  BY EmptySeq
<1> HIDE DEF n
<1> DEFINE I == {k \in 0..n : /\ u[k] \in Seq(Tool) /\ Grounded(u[k])
                            /\ {requested[j] : j \in 1..k} \subseteq ToSet(u[k])}
<1>4. 0 \in I
  <2>1. 0 \in 0..n /\ {requested[j] : j \in 1..0} = {} /\ <<>> \in Seq(Tool)
    BY <1>2, EmptySeq
  <2>2. Grounded(<<>>)
    BY DEF Grounded
  <2> QED
    BY <1>1, <2>1, <2>2
<1>5. ASSUME NEW k \in I, k < n PROVE k + 1 \in I
  <2>1. k + 1 \in 1..n /\ k + 1 \in 0..n /\ (k + 1) - 1 = k /\ k \in Nat
    BY <1>2, <1>5
  <2>2. PICK v \in Seq(Tool) : /\ v = u[k] /\ Grounded(v)
                               /\ {requested[j] : j \in 1..k} \subseteq ToSet(v)
    OBVIOUS
  <2>3. PICK t \in Tool : t = requested[k + 1]
    BY <1>2, <2>1
  <2> DEFINE w == AppendEach(v, WithPrerequisites(t))
  <2>4. u[k + 1] = w
    BY <1>1, <2>1, <2>2, <2>3
  <2>5. w \in Seq(Tool) /\ Grounded(w) /\ ToSet(v) \cup {t} \subseteq ToSet(w)
    BY <2>2, AppendEachGrounded
  <2> HIDE DEF w
  <2>6. {requested[j] : j \in 1..(k + 1)} = {requested[j] : j \in 1..k} \cup {t}
    BY <2>1, <2>3
  <2> QED
    BY <2>1, <2>2, <2>4, <2>5, <2>6
<1>6. I = 0..n
  <2>1. I \in SUBSET (0..n)
    OBVIOUS
  <2> HIDE DEF I
  <2> QED
    BY <1>2, <1>4, <1>5, <2>1, Induction
<1>7. n \in I
  <2>1. n \in 0..n
    BY <1>2
  <2> HIDE DEF I
  <2> QED
    BY <1>6, <2>1
<1>8. ToSet(requested) = {requested[j] : j \in 1..n}
  BY <1>2 DEF ToSet
<1> QED
  BY <1>1, <1>3, <1>7, <1>8

LEMMA NativePackagesDef ==
  ASSUME NEW requested \in Seq(Tool)
  PROVE  LET tools == ToolPlan(requested) IN
         \E u : /\ NativePackages(requested) = u[Len(tools)] /\ u[0] = <<>>
               /\ \A k \in 1..Len(tools) :
                    u[k] = AppendEach(u[k - 1], ToolDefinition[tools[k]].natives)
<1> DEFINE tools == ToolPlan(requested)
           n == Len(tools)
           N == Package \cap Executable
           step == [k \in 1..n |->
                      [q \in Seq(N) |-> AppendEach(q, ToolDefinition[tools[k]].natives)]]
           P(u) == u = [k \in 0..Len(tools) |->
                          IF k = 0 THEN <<>>
                          ELSE AppendEach(u[k - 1], ToolDefinition[tools[k]].natives)]
<1>1. n \in Nat /\ \A k \in 1..n : tools[k] \in Tool
  BY ToolPlanShape, LenProperties, ElementOfSeq
<1>2. NativePackages(requested) = (CHOOSE u : P(u))[n]
  BY DEF NativePackages
<1>3. \A q \in Seq(N), t \in Tool : AppendEach(q, ToolDefinition[t].natives) \in Seq(N)
  <2>1. \A t \in Tool : ToolDefinition[t].natives \in Seq(N)
    BY ToolTypes
  <2> HIDE DEF N
  <2> QED
    BY <2>1, AppendEachShape
<1> HIDE DEF tools
<1>4. PICK f : Iterates(f, n, Seq(N), <<>>, step)
  <2>1. step \in [1..n -> [Seq(N) -> Seq(N)]]
    BY <1>1, <1>3
  <2>2. <<>> \in Seq(N)
    BY EmptySeq
  <2> HIDE DEF step, n, N
  <2> QED
    BY <1>1, <2>1, <2>2, Iterate
<1>5. ASSUME NEW k \in 0..n
      PROVE  f[k] = IF k = 0 THEN <<>>
                    ELSE AppendEach(f[k - 1], ToolDefinition[tools[k]].natives)
  <2>1. k # 0 => k \in 1..n /\ k - 1 \in 0..n
    BY <1>1
  <2> QED
    BY <1>4, <2>1 DEF Iterates
<1>6. P(f)
  <2>1. f = [k \in 0..n |-> f[k]]
    BY <1>4 DEF Iterates
  <2> QED
    BY <1>5, <2>1
<1> DEFINE c == CHOOSE u : P(u)
<1>7. NativePackages(requested) = c[n]
  BY <1>2
<1>8. P(c)
  BY <1>6
<1>9. ASSUME NEW k \in 0..n
      PROVE  c[k] = IF k = 0 THEN <<>>
                    ELSE AppendEach(c[k - 1], ToolDefinition[tools[k]].natives)
  <2> HIDE DEF c
  <2> QED
    BY <1>8
<1>10. c[0] = <<>> /\ \A k \in 1..n : c[k] = AppendEach(c[k - 1], ToolDefinition[tools[k]].natives)
  <2>1. 0 \in 0..n /\ \A k \in 1..n : k \in 0..n /\ k # 0
    BY <1>1
  <2> HIDE DEF c, P, step
  <2> QED
    BY <1>9, <2>1
<1> HIDE DEF c
<1> QED
  BY <1>7, <1>10 DEF tools

LEMMA NativePackagesShape ==
  ASSUME NEW requested \in Seq(Tool)
  PROVE  /\ NativePackages(requested) \in Seq(Package \cap Executable)
         /\ \A t \in ToSet(ToolPlan(requested)) :
              ToSet(ToolDefinition[t].natives) \subseteq ToSet(NativePackages(requested))
         /\ requested = <<>> => NativePackages(requested) = <<>>
<1> DEFINE tools == ToolPlan(requested)
           n == Len(tools)
           N == Package \cap Executable
           natives(t) == ToolDefinition[t].natives
<1>1. PICK u : /\ NativePackages(requested) = u[n] /\ u[0] = <<>>
               /\ \A k \in 1..n : u[k] = AppendEach(u[k - 1], natives(tools[k]))
  BY NativePackagesDef
<1>2. n \in Nat /\ DOMAIN tools = 1..n /\ \A k \in 1..n : tools[k] \in Tool
  BY ToolPlanShape, LenProperties, ElementOfSeq
<1>3. \A t \in Tool : natives(t) \in Seq(N)
  BY ToolTypes
<1>4. requested = <<>> => n = 0
  BY ToolPlanShape, EmptySeq
<1> HIDE DEF tools, n, N, natives
<1> DEFINE I == {k \in 0..n : /\ u[k] \in Seq(N)
                            /\ \A j \in 1..k : ToSet(natives(tools[j])) \subseteq ToSet(u[k])}
<1>5. 0 \in I
  <2>1. 0 \in 0..n /\ 1..0 = {} /\ <<>> \in Seq(N)
    BY <1>2, EmptySeq
  <2> QED
    BY <1>1, <2>1
<1>6. ASSUME NEW k \in I, k < n PROVE k + 1 \in I
  <2>1. k + 1 \in 1..n /\ k + 1 \in 0..n /\ (k + 1) - 1 = k /\ k \in Nat
    BY <1>2, <1>6
  <2>2. PICK v \in Seq(N) : /\ v = u[k]
                            /\ \A j \in 1..k : ToSet(natives(tools[j])) \subseteq ToSet(v)
    OBVIOUS
  <2>3. PICK xs \in Seq(N) : xs = natives(tools[k + 1])
    BY <1>2, <1>3, <2>1
  <2> DEFINE w == AppendEach(v, xs)
  <2>4. u[k + 1] = w
    BY <1>1, <2>1, <2>2, <2>3
  <2>5. w \in Seq(N) /\ ToSet(w) = ToSet(v) \cup ToSet(xs)
    BY AppendEachShape
  <2> HIDE DEF w
  <2>6. ASSUME NEW j \in 1..(k + 1) PROVE ToSet(natives(tools[j])) \subseteq ToSet(w)
    <3>1. j \in 1..k \/ j = k + 1
      BY <2>1
    <3> QED
      BY <2>2, <2>3, <2>5, <3>1
  <2> QED
    BY <2>1, <2>4, <2>5, <2>6
<1>7. I = 0..n
  <2>1. I \in SUBSET (0..n)
    OBVIOUS
  <2> HIDE DEF I
  <2> QED
    BY <1>2, <1>5, <1>6, <2>1, Induction
<1>8. n \in I
  <2>1. n \in 0..n
    BY <1>2
  <2> HIDE DEF I
  <2> QED
    BY <1>7, <2>1
<1>9. ASSUME NEW t \in ToSet(tools) PROVE ToSet(natives(t)) \subseteq ToSet(u[n])
  <2>1. PICK j \in 1..n : t = tools[j]
    BY <1>2 DEF ToSet
  <2> QED
    BY <1>8, <2>1
<1> QED
  BY <1>1, <1>4, <1>8, <1>9 DEF tools, natives, N

LEMMA EmptyToSet ==
  ASSUME NEW S, NEW s \in Seq(S)
  PROVE  /\ ToSet(s) = {} <=> s = <<>>
         /\ ToSet(s) \subseteq S
<1>1. DOMAIN s = 1..Len(s) /\ Len(s) \in Nat
  BY LenProperties
<1>2. s # <<>> => s[1] \in ToSet(s)
  BY <1>1, EmptySeq DEF ToSet
<1>3. ToSet(<<>>) = {}
  BY DEF ToSet
<1>4. ToSet(s) \subseteq S
  BY <1>1, ElementOfSeq DEF ToSet
<1> QED
  BY <1>2, <1>3, <1>4

LEMMA UniqueEmpty ==
  ASSUME NEW S, NEW s \in Seq(S)
  PROVE  Unique(s) = <<>> <=> s = <<>>
<1>1. Unique(s) \in Seq(S) /\ ToSet(Unique(s)) = ToSet(s)
  BY UniqueShape
<1> DEFINE u == Unique(s)
<1> HIDE DEF u
<1>2. \A q \in Seq(S) : ToSet(q) = {} <=> q = <<>>
  BY EmptyToSet
<1> QED
  BY <1>1, <1>2

LEMMA ToolsNeedPackages ==
  ASSUME NEW requested \in Seq(Tool), requested # <<>>
  PROVE  ToolPlan(requested) # <<>> /\ NativePackages(requested) # <<>>
<1> DEFINE plan == ToolPlan(requested)
           natives == NativePackages(requested)
<1>1. plan \in Seq(Tool) /\ ToSet(requested) \subseteq ToSet(plan) /\ Grounded(plan)
  BY ToolPlanShape
<1>2. /\ natives \in Seq(Package \cap Executable)
      /\ \A t \in ToSet(plan) : ToSet(ToolDefinition[t].natives) \subseteq ToSet(natives)
  BY NativePackagesShape
<1> HIDE DEF plan, natives
<1>3. PICK t \in Tool : t \in ToSet(plan)
  BY <1>1, EmptyToSet
<1>4. PICK r \in ToSet(plan) : r \in Tool /\ ToSet(ToolDefinition[r].natives) # {}
  <2>1. CASE ToSet(ToolDefinition[t].prerequisites) = {}
    BY <1>3, <2>1, ToolTypes
  <2>2. CASE ToSet(ToolDefinition[t].prerequisites) # {}
    <3>1. PICK r \in ToSet(ToolDefinition[t].prerequisites) : TRUE
      BY <2>2
    <3>2. r \in Tool /\ ToSet(ToolDefinition[r].prerequisites) = {}
      BY <3>1, ToolTypes
    <3>3. ToSet(ToolDefinition[r].natives) # {}
      BY <3>2, ToolTypes
    <3>4. r \in ToSet(plan)
      <4>1. PICK k \in DOMAIN plan : plan[k] = t
        BY <1>3 DEF ToSet
      <4>2. PICK j \in 1..(k - 1) : plan[j] = r
        BY <1>1, <3>1, <4>1 DEF Grounded
      <4>3. j \in DOMAIN plan
        BY <1>1, <4>1, <4>2, LenProperties
      <4> QED
        BY <4>2, <4>3 DEF ToSet
    <3> QED
      BY <3>2, <3>3, <3>4
  <2> QED
    BY <2>1, <2>2
<1>5. ToSet(plan) # {} /\ ToSet(natives) # {}
  BY <1>2, <1>4
<1>6. ToSet(<<>>) = {}
  BY DEF ToSet
<1> QED
  BY <1>5, <1>6 DEF plan, natives

NothingWanted(config) ==
  /\ config.packages = <<>> /\ config.tools = <<>>
  /\ ~config.gpg /\ ~config.git /\ ~config.github

LEMMA RequestTypes ==
  ASSUME NEW config \in Requests
  PROVE  /\ config.packages \in Seq(Package) /\ config.tools \in Seq(Tool)
         /\ config.git \in BOOLEAN /\ config.github \in BOOLEAN /\ config.gpg \in BOOLEAN
         /\ config.update \in Update
BY ProvisioningAssumption

LEMMA ConcatType ==
  ASSUME NEW S, NEW a \in Seq(S), NEW b \in Seq(S)
  PROVE  a \o b \in Seq(S) /\ (a \o b = <<>> <=> a = <<>> /\ b = <<>>)
BY ConcatProperties, ConcatEqualIffEmpty

LEMMA PackagesWanted ==
  ASSUME NEW config \in Requests
  PROVE  /\ DevelopmentPackages(config) \in Seq(Package)
         /\ DevelopmentPackages(config) = <<>> <=> NothingWanted(config)
<1> DEFINE a == config.packages
           b == NativePackages(config.tools)
           c == IF config.gpg THEN <<Backend.gpg>> ELSE <<>>
           d == IF config.git THEN <<Backend.git>> ELSE <<>>
           e == IF config.github THEN <<Backend.git, Backend.gh>> ELSE <<>>
<1>1. a \in Seq(Package)
  BY RequestTypes
<1>2. b \in Seq(Package) /\ (b = <<>> <=> config.tools = <<>>)
  <2>1. NativePackages(config.tools) \in Seq(Package \cap Executable)
    BY RequestTypes, NativePackagesShape
  <2>2. Seq(Package \cap Executable) \subseteq Seq(Package)
    BY SeqMonotonic
  <2>3. b = <<>> <=> config.tools = <<>>
    BY RequestTypes, NativePackagesShape, ToolsNeedPackages
  <2> QED
    BY <2>1, <2>2, <2>3
<1>3. Backend.git \in Package /\ Backend.gh \in Package /\ Backend.gpg \in Package
  BY ProvisioningAssumption
<1>4. c \in Seq(Package) /\ (c = <<>> <=> ~config.gpg)
  BY <1>3, RequestTypes
<1>5. d \in Seq(Package) /\ (d = <<>> <=> ~config.git)
  BY <1>3, RequestTypes
<1>6. e \in Seq(Package) /\ (e = <<>> <=> ~config.github)
  BY <1>3, RequestTypes
<1>7. DevelopmentPackages(config) = Unique(a \o b \o c \o d \o e)
  BY DEF DevelopmentPackages
<1> HIDE DEF a, b, c, d, e
<1> DEFINE all == a \o b \o c \o d \o e
<1>8. /\ all \in Seq(Package)
      /\ all = <<>> <=> a = <<>> /\ b = <<>> /\ c = <<>> /\ d = <<>> /\ e = <<>>
  <2>1. a \o b \in Seq(Package) /\ (a \o b = <<>> <=> a = <<>> /\ b = <<>>)
    BY <1>1, <1>2, ConcatType
  <2> DEFINE ab == a \o b
  <2> HIDE DEF ab
  <2>2. ab \o c \in Seq(Package) /\ (ab \o c = <<>> <=> ab = <<>> /\ c = <<>>)
    BY <1>4, <2>1, ConcatType DEF ab
  <2> DEFINE abc == ab \o c
  <2> HIDE DEF abc
  <2>3. abc \o d \in Seq(Package) /\ (abc \o d = <<>> <=> abc = <<>> /\ d = <<>>)
    BY <1>5, <2>2, ConcatType DEF abc
  <2> DEFINE abcd == abc \o d
  <2> HIDE DEF abcd
  <2>4. abcd \o e \in Seq(Package) /\ (abcd \o e = <<>> <=> abcd = <<>> /\ e = <<>>)
    BY <1>6, <2>3, ConcatType DEF abcd
  <2> QED
    BY <2>1, <2>2, <2>3, <2>4 DEF ab, abc, abcd
<1> HIDE DEF all
<1>9. Unique(all) \in Seq(Package) /\ (Unique(all) = <<>> <=> all = <<>>)
  BY <1>8, UniqueShape, UniqueEmpty
<1> QED
  BY <1>2, <1>4, <1>5, <1>6, <1>7, <1>8, <1>9 DEF NothingWanted, all, a

LEMMA ExecutablesWanted ==
  ASSUME NEW config \in Requests
  PROVE  /\ RequiredExecutables(config) \in Seq(Executable)
         /\ NothingWanted(config) => RequiredExecutables(config) = <<>>
<1> DEFINE a == IF config.git THEN <<"git">> ELSE <<>>
           b == IF config.github THEN <<"git", "gh">> ELSE <<>>
           c == IF config.gpg THEN <<"gpg", "gpgconf">> ELSE <<>>
<1>1. {"git", "gh", "gpg", "gpgconf"} \subseteq Executable
  BY ProvisioningAssumption
<1>2. /\ a \in Seq(Executable) /\ b \in Seq(Executable) /\ c \in Seq(Executable)
      /\ NothingWanted(config) => a = <<>> /\ b = <<>> /\ c = <<>>
  BY <1>1 DEF NothingWanted
<1>3. RequiredExecutables(config) = Unique(a \o b \o c)
  BY DEF RequiredExecutables
<1> HIDE DEF a, b, c
<1>4. a \o b \in Seq(Executable) /\ (a \o b = <<>> <=> a = <<>> /\ b = <<>>)
  BY <1>2, ConcatType
<1> DEFINE ab == a \o b
<1> HIDE DEF ab
<1>5. ab \o c \in Seq(Executable) /\ (ab \o c = <<>> <=> ab = <<>> /\ c = <<>>)
  BY <1>2, <1>4, ConcatType DEF ab
<1> DEFINE abc == ab \o c
<1> HIDE DEF abc
<1>6. Unique(abc) \in Seq(Executable) /\ (Unique(abc) = <<>> <=> abc = <<>>)
  BY <1>5, UniqueShape, UniqueEmpty DEF abc
<1> QED
  BY <1>2, <1>3, <1>4, <1>5, <1>6 DEF ab, abc

---------------------------------------------------------------------------
(* The inductive invariant                                                 *)
LoopPhase == QueryPhase \cup PathPhase \cup VersionPhase
ToolPhase == {"tools", "toolInstall", "toolCheck"}
LaterPhase == {"executables", "natives"} \cup ToolPhase \cup {"git", "setup"}
PackagePhase == {"release", "backend", "query", "install", "requery"}

Plan == ToSet(ToolPlan(want.tools))
Natives == ToSet(NativePackages(want.tools))

(* What the loop in hand has still to look at. *)
Ahead(x) == x \in ToSet(todo)
Works(x) == exe[x] = "works"
(* Between the installation of a tool and its probe. *)
Fresh(x) == phase = "toolCheck" /\ x = Head(todo)

(* Which items, job and missing packages go with which phase. *)
Control ==
  /\ stage # "ask" => phase \in LoopPhase
  /\ stage = "version" => phase \in VersionPhase
  /\ phase \in QueryPhase => todo \in Seq(Package)
  /\ phase \in PathPhase \cup VersionPhase => todo \in Seq(Executable)
  /\ phase \in ToolPhase => todo \in Seq(Tool) /\ todo # <<>>
  /\ phase \in {"agent", "agentCheck"} => todo = <<Agent>>
  /\ phase \in LaterPhase \cup {"reach", "agent"} => job = "development"
  /\ phase = "runtimeCheck" => job = "node"
  /\ phase \in {"install", "requery"} => missing # <<>>
  /\ phase \in {"release", "backend"} => missing = <<>>
  /\ phase = "runtime" /\ job = "node" => missing = <<>>
  /\ phase \in PackagePhase /\ job = "development" => DevelopmentPackages(want) # <<>>
  /\ phase \in {"natives"} \cup ToolPhase => want.tools # <<>>

(* A wanted package was seen installed, or is still to be looked at or installed. *)
PackagesBacked ==
  /\ phase = "query" /\ job = "development" =>
       \A x \in ToSet(DevelopmentPackages(want)) : Ahead(x) \/ x \in ToSet(missing) \cup installed
  /\ phase = "requery" => \A x \in ToSet(missing) : Ahead(x) \/ x \in installed
  /\ phase \in LaterPhase =>
       ToSet(IF missing = <<>> THEN DevelopmentPackages(want) ELSE missing) \subseteq installed
  /\ phase \in {"query", "install"} => ToSet(missing) \cap installed \subseteq lapsed

(* The same of the executables that the phases after the packages rely on. *)
ExecutablesBacked ==
  /\ phase = "executables" =>
       \A x \in ToSet(RequiredExecutables(want)) : Ahead(x) \/ exe[x] # "absent"
  /\ phase \in LaterPhase \ {"executables"} =>
       \A x \in ToSet(RequiredExecutables(want)) : exe[x] # "absent" \/ Fresh(x)
  /\ phase = "natives" => \A x \in Natives : Ahead(x) \/ Works(x)
  /\ phase \in ToolPhase \cup {"git", "setup"} => \A x \in Natives : Works(x) \/ Fresh(x)
  /\ phase \in ToolPhase => \A x \in Plan : Ahead(x) \/ Works(x)
  /\ phase \in {"git", "setup"} => \A x \in Plan : Works(x)

(* The tools still to come belong to the plan, behind their prerequisites. *)
ToolsGrounded ==
  phase \in ToolPhase => \A k \in DOMAIN todo :
    /\ todo[k] \in Plan
    /\ \A x \in ToSet(ToolDefinition[todo[k]].prerequisites) :
         Works(x) \/ \E j \in 1..(k - 1) : todo[j] = x

(* Between a probe and its consequence nothing appears in the guest unnoticed. *)
VerifyBacked ==
  /\ stage = "verify" /\ connected => ~Present(Head(todo)) \/ Head(todo) \in lapsed
  /\ phase = "toolInstall" => exe[Head(todo)] = "absent" \/ Head(todo) \in lapsed

(* Node is installed for a runtime that is absent, never for one that fails. *)
NotBroken(x) == exe[x] # "broken" \/ x \in lapsed
RuntimeBacked ==
  /\ phase = "runtime" =>
       \A x \in ToSet(Runtime) : Ahead(x) \/ Works(x) \/ (job = "node" /\ NotBroken(x))
  /\ job = "node" /\ phase \in {"release", "backend", "query", "install"} =>
       \A x \in ToSet(Runtime) : NotBroken(x)
  /\ phase = "runtimeCheck" => \A x \in ToSet(Runtime) : Ahead(x) \/ Works(x)
  /\ phase \in {"legacy", "npmInstall"} => \A x \in ToSet(Runtime) : Works(x)

AgentBacked ==
  phase = "done" => exe[Agent] # "absent"

IInv ==
  /\ TypeOK /\ Control /\ PackagesBacked /\ ExecutablesBacked /\ ToolsGrounded
  /\ VerifyBacked /\ RuntimeBacked /\ AgentBacked

(* Between the probe that did not find the agent and npm. *)
AgentPhase ==
  \/ phase \in {"runtime", "runtimeCheck", "legacy", "npmInstall"}
  \/ job = "node" /\ phase \in PackagePhase
AgentAbsent ==
  /\ want.update = "no" /\ AgentPhase => exe[Agent] = "absent" \/ Agent \in lapsed
  /\ phase = "legacy" => want.update = "legacy"

(* The agent comes from npm and from no native package. *)
AgentFromNpm == \A p \in Package : Agent \notin Provides[p]

---------------------------------------------------------------------------
LEMMA TodoShape ==
  ASSUME NEW S, todo \in Seq(S), todo # <<>>
  PROVE  /\ Head(todo) \in S /\ Tail(todo) \in Seq(S)
         /\ ToSet(todo) = {Head(todo)} \cup ToSet(Tail(todo))
         /\ Len(todo) > 1 => Tail(todo) # <<>>
         /\ ~(Len(todo) > 1) => ToSet(todo) = {Head(todo)}
         /\ DOMAIN todo = 1..Len(todo) /\ Len(todo) \in Nat \ {0}
         /\ DOMAIN Tail(todo) = 1..(Len(todo) - 1)
         /\ \A k \in 1..(Len(todo) - 1) : Tail(todo)[k] = todo[k + 1]
         /\ Head(todo) = todo[1]
<1> DEFINE n == Len(todo)
           t == Tail(todo)
<1>1. n \in Nat \ {0} /\ DOMAIN todo = 1..n /\ Head(todo) = todo[1] /\ \A k \in 1..n : todo[k] \in S
  BY EmptySeq, LenProperties, ElementOfSeq
<1>2. t \in Seq(S) /\ Len(t) = n - 1 /\ \A k \in 1..Len(t) : t[k] = todo[k + 1]
  BY HeadTailProperties
<1>3. DOMAIN t = 1..(n - 1)
  BY <1>2, LenProperties
<1> HIDE DEF n, t
<1>4. n > 1 => t # <<>>
  BY <1>1, <1>2, EmptySeq
<1>5. ASSUME NEW x \in ToSet(todo), x # todo[1] PROVE x \in ToSet(t)
  <2>1. PICK k \in 1..n : x = todo[k]
    BY <1>1 DEF ToSet
  <2>2. k - 1 \in 1..(n - 1) /\ (k - 1) + 1 = k
    BY <1>1, <1>5, <2>1
  <2>3. t[k - 1] = x
    BY <1>1, <1>2, <2>1, <2>2
  <2> QED
    BY <1>3, <2>2, <2>3 DEF ToSet
<1>6. ASSUME NEW x \in ToSet(t) PROVE x \in ToSet(todo)
  <2>1. PICK k \in 1..(n - 1) : x = t[k]
    BY <1>3 DEF ToSet
  <2>2. x = todo[k + 1] /\ k + 1 \in 1..n
    BY <1>1, <1>2, <2>1
  <2> QED
    BY <1>1, <2>2 DEF ToSet
<1>7. todo[1] \in ToSet(todo)
  BY <1>1 DEF ToSet
<1>8. ~(n > 1) => ToSet(t) = {}
  BY <1>1, <1>3 DEF ToSet
<1> QED
  BY <1>1, <1>2, <1>3, <1>4, <1>5, <1>6, <1>7, <1>8 DEF n, t

(* What a request asks for, by the types of its lists.                     *)
LEMMA Wanted ==
  ASSUME want \in Requests
  PROVE  /\ want.tools \in Seq(Tool) /\ want.update \in Update
         /\ DevelopmentPackages(want) \in Seq(Package)
         /\ DevelopmentPackages(want) = <<>> <=> NothingWanted(want)
         /\ RequiredExecutables(want) \in Seq(Executable)
         /\ NothingWanted(want) => RequiredExecutables(want) = <<>>
         /\ NativePackages(want.tools) \in Seq(Executable)
         /\ ToolPlan(want.tools) \in Seq(Tool) /\ ToolPlan(want.tools) \in Seq(Executable)
         /\ Grounded(ToolPlan(want.tools))
         /\ \A t \in Plan : ToSet(ToolDefinition[t].natives) \subseteq Natives
         /\ want.tools = <<>> => Plan = {} /\ Natives = {}
         /\ want.tools # <<>> => ToolPlan(want.tools) # <<>> /\ NativePackages(want.tools) # <<>>
<1>1. want.tools \in Seq(Tool) /\ want.update \in Update
  BY RequestTypes
<1>2. NativePackages(want.tools) \in Seq(Executable)
  <2>1. NativePackages(want.tools) \in Seq(Package \cap Executable)
    BY <1>1, NativePackagesShape
  <2>2. Seq(Package \cap Executable) \subseteq Seq(Executable)
    BY SeqMonotonic
  <2> QED
    BY <2>1, <2>2
<1>3. ToolPlan(want.tools) \in Seq(Tool) /\ ToolPlan(want.tools) \in Seq(Executable)
  <2>1. Tool \subseteq Executable
    BY ProvisioningAssumption
  <2>2. Seq(Tool) \subseteq Seq(Executable)
    BY <2>1, SeqMonotonic
  <2> QED
    BY <1>1, <2>2, ToolPlanShape
<1>4. ToSet(<<>>) = {}
  BY DEF ToSet
<1>5. want.tools = <<>> => Plan = {} /\ Natives = {}
  BY <1>1, <1>4, ToolPlanShape, NativePackagesShape DEF Plan, Natives
<1>6. \A t \in Plan : ToSet(ToolDefinition[t].natives) \subseteq Natives
  BY <1>1, NativePackagesShape DEF Plan, Natives
<1>7. Grounded(ToolPlan(want.tools))
  BY <1>1, ToolPlanShape
<1>8. want.tools # <<>> => ToolPlan(want.tools) # <<>> /\ NativePackages(want.tools) # <<>>
  BY <1>1, ToolsNeedPackages
<1> QED
  BY <1>1, <1>2, <1>3, <1>5, <1>6, <1>7, <1>8, PackagesWanted, ExecutablesWanted

(* Preparation ends with an error: nothing is claimed of the guest.        *)
LEMMA FailKeeps ==
  ASSUME TypeOK, Fail, UNCHANGED <<missing, job, want>>,
         installed' \in SUBSET Package, exe' \in [Executable -> Health],
         connected' \in BOOLEAN, losses' \in 0..MaxLosses,
         lapsed' \in SUBSET (Package \cup Executable)
  PROVE  IInv'
<1> USE DEF Fail, QueryPhase, PathPhase, VersionPhase, CommandPhase, Over
<1>1. TypeOK'
  BY DEF TypeOK
<1>2. Control'
  BY DEF Control, LoopPhase, ToolPhase, LaterPhase, PackagePhase
<1>3. PackagesBacked' /\ ExecutablesBacked' /\ ToolsGrounded'
  BY DEF PackagesBacked, ExecutablesBacked, ToolsGrounded, LaterPhase, ToolPhase
<1>4. VerifyBacked' /\ RuntimeBacked' /\ AgentBacked'
  BY DEF VerifyBacked, RuntimeBacked, AgentBacked
<1> QED
  BY <1>1, <1>2, <1>3, <1>4 DEF IInv

LEMMA InitKeeps == Init => IInv
<1> SUFFICES ASSUME Init PROVE IInv
  OBVIOUS
<1> USE DEF QueryPhase, PathPhase, VersionPhase, CommandPhase, Over
<1>1. want \in Requests /\ phase = FirstPhase /\ missing = <<>> /\ todo = <<>>
      /\ stage = "ask" /\ job = "development" /\ lapsed = {} /\ connected = TRUE
  BY DEF Init
<1>2. <<>> \in Seq(Package) /\ ToSet(<<>>) = {}
  BY EmptySeq DEF ToSet
<1>3. \/ phase = "release" /\ DevelopmentPackages(want) # <<>>
      \/ /\ phase \in {"git", "setup"} /\ DevelopmentPackages(want) = <<>>
         /\ RequiredExecutables(want) = <<>> /\ want.tools = <<>>
  BY <1>1, Wanted DEF FirstPhase, AfterTools, NothingWanted
<1>4. TypeOK
  <2>1. installed \in SUBSET Package /\ exe \in [Executable -> Health]
    BY ProvisioningAssumption DEF Init
  <2>2. losses \in 0..MaxLosses
    BY ProvisioningAssumption DEF Init
  <2> QED
    BY <1>1, <1>2, <1>3, <2>1, <2>2 DEF TypeOK
<1>5. Control
  BY <1>1, <1>3 DEF Control, LoopPhase, ToolPhase, LaterPhase, PackagePhase
<1>6. PackagesBacked
  BY <1>1, <1>2, <1>3 DEF PackagesBacked, LaterPhase, ToolPhase
<1>7. ExecutablesBacked
  BY <1>1, <1>2, <1>3, Wanted DEF ExecutablesBacked, LaterPhase, ToolPhase
<1>8. ToolsGrounded /\ VerifyBacked /\ RuntimeBacked /\ AgentBacked
  BY <1>1, <1>3 DEF ToolsGrounded, ToolPhase, VerifyBacked, RuntimeBacked, AgentBacked
<1> QED
  BY <1>4, <1>5, <1>6, <1>7, <1>8 DEF IInv

---------------------------------------------------------------------------
(* What is known of the item in hand when the loop goes on.                *)
Saw ==
  /\ phase \in QueryPhase => Head(todo) \in installed
  /\ phase \in PathPhase => exe[Head(todo)] # "absent"
  /\ phase \in VersionPhase => Works(Head(todo))

LEMMA LoopFacts ==
  ASSUME IInv, phase \in LoopPhase
  PROVE  /\ todo # <<>> /\ Head(todo) = todo[1]
         /\ ToSet(todo) = {Head(todo)} \cup ToSet(Tail(todo))
         /\ Len(todo) > 1 => Tail(todo) # <<>>
         /\ ~(Len(todo) > 1) => ToSet(todo) = {Head(todo)}
         /\ DOMAIN todo = 1..Len(todo) /\ Len(todo) \in Nat \ {0}
         /\ DOMAIN Tail(todo) = 1..(Len(todo) - 1)
         /\ \A k \in 1..(Len(todo) - 1) : Tail(todo)[k] = todo[k + 1]
         /\ phase \in QueryPhase => Head(todo) \in Package /\ Tail(todo) \in Seq(Package)
         /\ phase \notin QueryPhase => Head(todo) \in Executable /\ Tail(todo) \in Seq(Executable)
         /\ phase \in ToolPhase => Head(todo) \in Tool /\ Tail(todo) \in Seq(Tool)
<1>1. todo # <<>>
  BY DEF IInv, TypeOK, LoopPhase
<1>2. CASE phase \in QueryPhase
  <2>1. todo \in Seq(Package) /\ phase \notin ToolPhase
    BY <1>2 DEF IInv, Control, QueryPhase, ToolPhase
  <2> QED
    BY <1>1, <1>2, <2>1, TodoShape
<1>3. CASE phase \notin QueryPhase
  <2>1. todo \in Seq(Executable)
    BY <1>3 DEF IInv, Control, LoopPhase
  <2>2. phase \in ToolPhase => todo \in Seq(Tool)
    BY DEF IInv, Control
  <2>3. phase \in ToolPhase => Head(todo) \in Tool /\ Tail(todo) \in Seq(Tool)
    BY <1>1, <2>2, TodoShape
  <2> QED
    BY <1>1, <1>3, <2>1, <2>3, TodoShape
<1> QED
  BY <1>2, <1>3

(* There are items left.                                                   *)
LEMMA NextItem ==
  ASSUME IInv, phase \in LoopPhase, Saw, Len(todo) > 1,
         phase' = IF phase = "toolCheck" THEN "tools" ELSE phase,
         todo' = Tail(todo), stage' = "ask",
         UNCHANGED <<guestVars, environment, missing, job>>
  PROVE  IInv'
<1> USE DEF guestVars, environment
<1>1. /\ todo # <<>> /\ Head(todo) = todo[1] /\ Tail(todo) # <<>>
      /\ ToSet(todo) = {Head(todo)} \cup ToSet(Tail(todo))
      /\ DOMAIN todo = 1..Len(todo) /\ Len(todo) \in Nat \ {0}
      /\ DOMAIN Tail(todo) = 1..(Len(todo) - 1)
      /\ \A k \in 1..(Len(todo) - 1) : Tail(todo)[k] = todo[k + 1]
  BY LoopFacts
<1>2. /\ phase \in QueryPhase => Head(todo) \in Package /\ Tail(todo) \in Seq(Package)
      /\ phase \notin QueryPhase => Head(todo) \in Executable /\ Tail(todo) \in Seq(Executable)
      /\ phase \in ToolPhase => Head(todo) \in Tool /\ Tail(todo) \in Seq(Tool)
  BY LoopFacts
<1> USE DEF QueryPhase, PathPhase, VersionPhase, LoopPhase
<1>3. TypeOK'
  BY <1>1, <1>2 DEF IInv, TypeOK
<1>4. phase \notin {"agent", "agentCheck"}
  <2>1. Len(<<Agent>>) = 1
    OBVIOUS
  <2> QED
    BY <2>1 DEF IInv, Control
<1>5. Control'
  BY <1>1, <1>2, <1>4 DEF IInv, Control, ToolPhase, LaterPhase, PackagePhase
<1>6. PackagesBacked'
  BY <1>1 DEF IInv, PackagesBacked, Saw, Ahead, LaterPhase, ToolPhase
<1>7. ExecutablesBacked'
  BY <1>1 DEF IInv, ExecutablesBacked, Saw, Ahead, Works, Fresh, LaterPhase, ToolPhase,
              Natives, Plan
<1>8. ToolsGrounded'
  <2>1. SUFFICES ASSUME phase' \in ToolPhase, NEW k \in DOMAIN todo'
                 PROVE  /\ todo'[k] \in Plan'
                        /\ \A x \in ToSet(ToolDefinition[todo'[k]].prerequisites) :
                             Works(x)' \/ \E j \in 1..(k - 1) : todo'[j] = x
    BY DEF ToolsGrounded
  <2>2. phase \in ToolPhase /\ Works(Head(todo)) /\ Plan' = Plan
    BY <2>1 DEF ToolPhase, Saw, Plan
  <2>3. k \in 1..(Len(todo) - 1) /\ k + 1 \in DOMAIN todo /\ todo'[k] = todo[k + 1]
    BY <1>1, <2>1
  <2>4. todo[k + 1] \in Plan
    BY <2>2, <2>3 DEF IInv, ToolsGrounded
  <2>5. ASSUME NEW x \in ToSet(ToolDefinition[todo[k + 1]].prerequisites)
        PROVE  Works(x)' \/ \E j \in 1..(k - 1) : todo'[j] = x
    <3>1. Works(x) \/ \E j \in 1..k : todo[j] = x
      BY <2>2, <2>3 DEF IInv, ToolsGrounded
    <3>2. CASE Works(x)
      BY <3>2 DEF Works
    <3>3. CASE \E j \in 1..k : todo[j] = x
      <4>1. PICK j \in 1..k : todo[j] = x
        BY <3>3
      <4>2. CASE j = 1
        BY <1>1, <2>2, <4>1, <4>2 DEF Works
      <4>3. CASE j # 1
        <5>1. j - 1 \in 1..(k - 1) /\ j - 1 \in 1..(Len(todo) - 1) /\ (j - 1) + 1 = j
          BY <1>1, <2>3, <4>1, <4>3
        <5> QED
          BY <1>1, <4>1, <5>1
      <4> QED
        BY <4>2, <4>3
    <3> QED
      BY <3>1, <3>2, <3>3
  <2> QED
    BY <2>2, <2>3, <2>4, <2>5
<1>9. VerifyBacked'
  BY DEF VerifyBacked
<1>10. RuntimeBacked' /\ AgentBacked'
  BY <1>1 DEF IInv, RuntimeBacked, AgentBacked, Saw, Ahead, Works, NotBroken
<1> QED
  BY <1>3, <1>5, <1>6, <1>7, <1>8, <1>9, <1>10 DEF IInv

---------------------------------------------------------------------------
(* Where a loop leads                                                      *)
PackagesThere ==
  ToSet(IF missing = <<>> THEN DevelopmentPackages(want) ELSE missing) \subseteq installed
ExecutablesThere == \A x \in ToSet(RequiredExecutables(want)) : exe[x] # "absent"

LEMMA EntersTools ==
  ASSUME TypeOK, job = "development", PackagesThere, ExecutablesThere,
         \A x \in Natives \cup Plan : Works(x),
         Enter(AfterTools), UNCHANGED <<guestVars, environment, missing, job>>
  PROVE  IInv'
<1> USE DEF guestVars, environment, Enter, Items, AfterTools
<1>1. phase' \in {"git", "setup"} /\ todo' = <<>> /\ stage' = "ask"
  OBVIOUS
<1> USE DEF QueryPhase, PathPhase, VersionPhase, CommandPhase, LoopPhase, LaterPhase,
            ToolPhase, PackagePhase
<1>2. <<>> \in Seq(Package)
  BY EmptySeq
<1>3. TypeOK'
  BY <1>1, <1>2 DEF TypeOK
<1>4. Control'
  BY <1>1 DEF Control
<1>5. PackagesBacked' /\ ExecutablesBacked' /\ ToolsGrounded'
  BY <1>1 DEF PackagesBacked, ExecutablesBacked, ToolsGrounded, PackagesThere,
              ExecutablesThere, Works, Natives, Plan
<1>6. VerifyBacked' /\ RuntimeBacked' /\ AgentBacked'
  BY <1>1 DEF VerifyBacked, RuntimeBacked, AgentBacked
<1> QED
  BY <1>3, <1>4, <1>5, <1>6 DEF IInv

LEMMA EntersNatives ==
  ASSUME TypeOK, job = "development", PackagesThere, ExecutablesThere,
         Enter(AfterExecutables), UNCHANGED <<guestVars, environment, missing, job>>
  PROVE  IInv'
<1>1. want \in Requests
  BY DEF TypeOK
<1>2. CASE want.tools = <<>>
  BY <1>1, <1>2, Wanted, EntersTools DEF AfterExecutables
<1>3. CASE want.tools # <<>>
  <2> USE DEF guestVars, environment, Enter, Items, AfterExecutables
  <2>1. phase' = "natives" /\ todo' = NativePackages(want.tools) /\ stage' = "ask"
    BY <1>3
  <2>2. todo' \in Seq(Executable) /\ todo' # <<>>
    BY <1>1, <1>3, <2>1, Wanted
  <2> USE DEF QueryPhase, PathPhase, VersionPhase, CommandPhase, LoopPhase, LaterPhase,
              ToolPhase, PackagePhase
  <2>3. TypeOK'
    BY <2>1, <2>2 DEF TypeOK
  <2>4. Control'
    BY <1>3, <2>1, <2>2 DEF Control
  <2>5. PackagesBacked' /\ ExecutablesBacked' /\ ToolsGrounded'
    BY <2>1 DEF PackagesBacked, ExecutablesBacked, ToolsGrounded, PackagesThere,
                ExecutablesThere, Ahead, Natives
  <2>6. VerifyBacked' /\ RuntimeBacked' /\ AgentBacked'
    BY <2>1 DEF VerifyBacked, RuntimeBacked, AgentBacked
  <2> QED
    BY <2>3, <2>4, <2>5, <2>6 DEF IInv
<1> QED
  BY <1>2, <1>3

LEMMA RuntimeTypes == Runtime \in Seq(Executable) /\ Runtime # <<>>
BY ProvisioningAssumption

LEMMA LeavesPackages ==
  ASSUME TypeOK, job = "development" => PackagesThere,
         Enter(AfterPackages), UNCHANGED <<guestVars, environment, missing, job>>
  PROVE  IInv'
<1>1. want \in Requests /\ job \in {"development", "node"}
  BY DEF TypeOK
<1>2. CASE job = "node"
  <2> USE DEF guestVars, environment, Enter, Items, AfterPackages
  <2>1. phase' = "runtimeCheck" /\ todo' = Runtime /\ stage' = "ask"
    BY <1>2
  <2> USE DEF QueryPhase, PathPhase, VersionPhase, CommandPhase, LoopPhase, LaterPhase,
              ToolPhase, PackagePhase
  <2>2. TypeOK' /\ Control'
    BY <1>2, <2>1, RuntimeTypes DEF TypeOK, Control
  <2>3. PackagesBacked' /\ ExecutablesBacked' /\ ToolsGrounded'
    BY <2>1 DEF PackagesBacked, ExecutablesBacked, ToolsGrounded
  <2>4. VerifyBacked' /\ RuntimeBacked' /\ AgentBacked'
    BY <2>1 DEF VerifyBacked, RuntimeBacked, AgentBacked, Ahead
  <2> QED
    BY <2>2, <2>3, <2>4 DEF IInv
<1>3. CASE job = "development" /\ RequiredExecutables(want) = <<>>
  <2>1. ExecutablesThere
    BY <1>3 DEF ExecutablesThere, ToSet
  <2>2. Enter(AfterExecutables)
    BY <1>3 DEF AfterPackages
  <2> QED
    BY <1>3, <2>1, <2>2, EntersNatives
<1>4. CASE job = "development" /\ RequiredExecutables(want) # <<>>
  <2> USE DEF guestVars, environment, Enter, Items, AfterPackages
  <2>1. phase' = "executables" /\ todo' = RequiredExecutables(want) /\ stage' = "ask"
    BY <1>4
  <2>2. todo' \in Seq(Executable) /\ todo' # <<>>
    BY <1>1, <1>4, <2>1, Wanted
  <2> USE DEF QueryPhase, PathPhase, VersionPhase, CommandPhase, LoopPhase, LaterPhase,
              ToolPhase, PackagePhase
  <2>3. TypeOK' /\ Control'
    BY <1>4, <2>1, <2>2 DEF TypeOK, Control
  <2>4. PackagesBacked' /\ ExecutablesBacked' /\ ToolsGrounded'
    BY <1>4, <2>1 DEF PackagesBacked, ExecutablesBacked, ToolsGrounded, PackagesThere, Ahead
  <2>5. VerifyBacked' /\ RuntimeBacked' /\ AgentBacked'
    BY <2>1 DEF VerifyBacked, RuntimeBacked, AgentBacked
  <2> QED
    BY <2>3, <2>4, <2>5 DEF IInv
<1> QED
  BY <1>1, <1>2, <1>3, <1>4

LEMMA EntersQuery ==
  ASSUME IInv, phase = "backend", Enter("query"),
         UNCHANGED <<guestVars, environment, missing, job>>
  PROVE  IInv'
<1> USE DEF guestVars, environment, Enter, Items
<1>1. phase' = "query" /\ stage' = "ask" /\ missing = <<>> /\ ToSet(<<>>) = {}
      /\ todo' = IF job = "node" THEN Backend.node ELSE DevelopmentPackages(want)
  BY DEF IInv, Control, ToSet
<1> USE DEF QueryPhase, PathPhase, VersionPhase, CommandPhase, LoopPhase, LaterPhase,
            ToolPhase, PackagePhase
<1>2. todo' \in Seq(Package) /\ todo' # <<>>
  <2>1. want \in Requests
    BY DEF IInv, TypeOK
  <2>2. Backend.node \in Seq(Package) /\ Backend.node # <<>>
    BY ProvisioningAssumption
  <2>3. job # "node" => DevelopmentPackages(want) # <<>>
    BY DEF IInv, Control, TypeOK
  <2> QED
    BY <1>1, <2>1, <2>2, <2>3, Wanted
<1>3. TypeOK' /\ Control'
  BY <1>1, <1>2 DEF IInv, TypeOK, Control
<1>4. PackagesBacked'
  BY <1>1 DEF PackagesBacked, Ahead
<1>5. ExecutablesBacked' /\ ToolsGrounded'
  BY <1>1 DEF ExecutablesBacked, ToolsGrounded
<1>6. VerifyBacked' /\ RuntimeBacked' /\ AgentBacked'
  BY <1>1 DEF IInv, VerifyBacked, RuntimeBacked, AgentBacked, NotBroken
<1> QED
  BY <1>3, <1>4, <1>5, <1>6 DEF IInv

LEMMA EntersInstall ==
  ASSUME IInv, phase = "query", Enter("install"), UNCHANGED <<guestVars, environment, job>>,
         missing' \in Seq(Package), missing' # <<>>, ToSet(missing') \cap installed \subseteq lapsed
  PROVE  IInv'
<1> USE DEF guestVars, environment, Enter, Items
<1>1. phase' = "install" /\ stage' = "ask" /\ todo' = <<>> /\ <<>> \in Seq(Package)
  BY EmptySeq
<1> USE DEF QueryPhase, PathPhase, VersionPhase, CommandPhase, LoopPhase, LaterPhase,
            ToolPhase, PackagePhase
<1>2. TypeOK' /\ Control'
  BY <1>1 DEF IInv, TypeOK, Control
<1>3. PackagesBacked' /\ ExecutablesBacked' /\ ToolsGrounded'
  BY <1>1 DEF PackagesBacked, ExecutablesBacked, ToolsGrounded
<1>4. VerifyBacked' /\ RuntimeBacked' /\ AgentBacked'
  BY <1>1 DEF IInv, VerifyBacked, RuntimeBacked, AgentBacked, NotBroken
<1> QED
  BY <1>2, <1>3, <1>4 DEF IInv

LEMMA EntersToolLoop ==
  ASSUME TypeOK, job = "development", PackagesThere, ExecutablesThere, want.tools # <<>>,
         \A x \in Natives : Works(x),
         Enter("tools"), UNCHANGED <<guestVars, environment, missing, job>>
  PROVE  IInv'
<1> USE DEF guestVars, environment, Enter, Items
<1>1. phase' = "tools" /\ stage' = "ask" /\ todo' = ToolPlan(want.tools)
  OBVIOUS
<1>2. /\ todo' \in Seq(Tool) /\ todo' \in Seq(Executable) /\ todo' # <<>> /\ Grounded(todo')
  BY <1>1, Wanted DEF TypeOK
<1> USE DEF QueryPhase, PathPhase, VersionPhase, CommandPhase, LoopPhase, LaterPhase,
            ToolPhase, PackagePhase
<1>3. TypeOK' /\ Control'
  BY <1>1, <1>2 DEF TypeOK, Control
<1>4. PackagesBacked'
  BY <1>1 DEF PackagesBacked, PackagesThere
<1>5. ExecutablesBacked'
  BY <1>1 DEF ExecutablesBacked, ExecutablesThere, Works, Ahead, Natives, Plan
<1>6. ToolsGrounded'
  <2>1. \A k \in DOMAIN todo' : todo'[k] \in Plan'
    BY <1>1 DEF Plan, ToSet
  <2>2. \A k \in DOMAIN todo' : \A x \in ToSet(ToolDefinition[todo'[k]].prerequisites) :
          \E j \in 1..(k - 1) : todo'[j] = x
    BY <1>2 DEF Grounded
  <2> QED
    BY <2>1, <2>2 DEF ToolsGrounded
<1>7. VerifyBacked' /\ RuntimeBacked' /\ AgentBacked'
  BY <1>1 DEF VerifyBacked, RuntimeBacked, AgentBacked
<1> QED
  BY <1>3, <1>4, <1>5, <1>6, <1>7 DEF IInv

LEMMA EntersRuntime ==
  ASSUME TypeOK, job = "development", Enter("runtime"),
         UNCHANGED <<guestVars, environment, missing, job>>
  PROVE  IInv'
<1> USE DEF guestVars, environment, Enter, Items
<1>1. phase' = "runtime" /\ stage' = "ask" /\ todo' = Runtime
  OBVIOUS
<1> USE DEF QueryPhase, PathPhase, VersionPhase, CommandPhase, LoopPhase, LaterPhase,
            ToolPhase, PackagePhase
<1>2. TypeOK' /\ Control'
  BY <1>1, RuntimeTypes DEF TypeOK, Control
<1>3. PackagesBacked' /\ ExecutablesBacked' /\ ToolsGrounded'
  BY <1>1 DEF PackagesBacked, ExecutablesBacked, ToolsGrounded
<1>4. VerifyBacked' /\ RuntimeBacked' /\ AgentBacked'
  BY <1>1 DEF VerifyBacked, RuntimeBacked, AgentBacked, Ahead
<1> QED
  BY <1>2, <1>3, <1>4 DEF IInv

LEMMA EntersRelease ==
  ASSUME TypeOK, job' = "node", missing' = <<>>, \A x \in ToSet(Runtime) : NotBroken(x),
         Enter("release"), UNCHANGED <<guestVars, environment>>
  PROVE  IInv'
<1> USE DEF guestVars, environment, Enter, Items
<1>1. phase' = "release" /\ stage' = "ask" /\ todo' = <<>> /\ <<>> \in Seq(Package)
  BY EmptySeq
<1> USE DEF QueryPhase, PathPhase, VersionPhase, CommandPhase, LoopPhase, LaterPhase,
            ToolPhase, PackagePhase
<1>2. TypeOK' /\ Control'
  BY <1>1 DEF TypeOK, Control
<1>3. PackagesBacked' /\ ExecutablesBacked' /\ ToolsGrounded'
  BY <1>1 DEF PackagesBacked, ExecutablesBacked, ToolsGrounded
<1>4. VerifyBacked' /\ RuntimeBacked' /\ AgentBacked'
  BY <1>1 DEF VerifyBacked, RuntimeBacked, AgentBacked, NotBroken
<1> QED
  BY <1>2, <1>3, <1>4 DEF IInv

LEMMA EntersAgentInstallation ==
  ASSUME TypeOK, \A x \in ToSet(Runtime) : Works(x),
         Enter(AgentInstallation), UNCHANGED <<guestVars, environment, missing, job>>
  PROVE  IInv'
<1> USE DEF guestVars, environment, Enter, Items, AgentInstallation
<1>1. phase' \in {"legacy", "npmInstall"} /\ stage' = "ask" /\ todo' = <<>> /\ <<>> \in Seq(Package)
  BY EmptySeq
<1> USE DEF QueryPhase, PathPhase, VersionPhase, CommandPhase, LoopPhase, LaterPhase,
            ToolPhase, PackagePhase
<1>2. TypeOK' /\ Control'
  BY <1>1 DEF TypeOK, Control
<1>3. PackagesBacked' /\ ExecutablesBacked' /\ ToolsGrounded'
  BY <1>1 DEF PackagesBacked, ExecutablesBacked, ToolsGrounded
<1>4. VerifyBacked' /\ RuntimeBacked' /\ AgentBacked'
  BY <1>1 DEF VerifyBacked, RuntimeBacked, AgentBacked, Works
<1> QED
  BY <1>2, <1>3, <1>4 DEF IInv

LEMMA EntersDone ==
  ASSUME TypeOK, exe[Agent] # "absent",
         Enter("done"), UNCHANGED <<guestVars, environment, missing, job>>
  PROVE  IInv'
<1> USE DEF guestVars, environment, Enter, Items
<1>1. phase' = "done" /\ stage' = "ask" /\ todo' = <<>> /\ <<>> \in Seq(Package)
  BY EmptySeq
<1> USE DEF QueryPhase, PathPhase, VersionPhase, CommandPhase, Over, LoopPhase, LaterPhase,
            ToolPhase, PackagePhase
<1>2. TypeOK' /\ Control'
  BY <1>1 DEF TypeOK, Control
<1>3. PackagesBacked' /\ ExecutablesBacked' /\ ToolsGrounded'
  BY <1>1 DEF PackagesBacked, ExecutablesBacked, ToolsGrounded
<1>4. VerifyBacked' /\ RuntimeBacked' /\ AgentBacked'
  BY <1>1 DEF VerifyBacked, RuntimeBacked, AgentBacked
<1> QED
  BY <1>2, <1>3, <1>4 DEF IInv

(* The last item of a loop is there.                                       *)
LEMMA LastItem ==
  ASSUME IInv, phase \in LoopPhase, Saw, ~(Len(todo) > 1),
         Enter(AfterFound), UNCHANGED <<guestVars, environment, missing, job>>
  PROVE  IInv'
<1>1. TypeOK /\ ToSet(todo) = {Head(todo)}
  BY LoopFacts DEF IInv
<1>2. \A x : Ahead(x) => x = Head(todo)
  BY <1>1 DEF Ahead
<1> USE DEF QueryPhase, PathPhase, VersionPhase
<1>3. CASE phase = "backend"
  <2>1. Enter("query")
    BY <1>3 DEF AfterFound
  <2> QED
    BY <1>3, <2>1, EntersQuery
<1>4. CASE phase = "query" /\ missing = <<>>
  <2>1. Enter(AfterPackages)
    BY <1>4 DEF AfterFound
  <2>2. job = "development" => PackagesThere
    BY <1>2, <1>4 DEF IInv, PackagesBacked, PackagesThere, Saw, ToSet
  <2> QED
    BY <1>1, <2>1, <2>2, LeavesPackages
<1>5. CASE phase = "query" /\ missing # <<>>
  <2>1. Enter("install")
    BY <1>5 DEF AfterFound
  <2>2. missing' \in Seq(Package) /\ missing' # <<>> /\ ToSet(missing') \cap installed \subseteq lapsed
    BY <1>5 DEF IInv, TypeOK, PackagesBacked
  <2> QED
    BY <1>5, <2>1, <2>2, EntersInstall
<1>6. CASE phase = "requery"
  <2>1. Enter(AfterPackages)
    BY <1>6 DEF AfterFound
  <2>2. PackagesThere
    BY <1>2, <1>6 DEF IInv, Control, PackagesBacked, PackagesThere, Saw
  <2> QED
    BY <1>1, <2>1, <2>2, LeavesPackages
<1>7. CASE phase = "executables"
  <2>1. Enter(AfterExecutables)
    BY <1>7 DEF AfterFound
  <2>2. PackagesThere /\ job = "development"
    BY <1>7 DEF IInv, Control, PackagesBacked, PackagesThere, LaterPhase
  <2>3. ExecutablesThere
    BY <1>2, <1>7 DEF IInv, ExecutablesBacked, ExecutablesThere, Saw
  <2> QED
    BY <1>1, <2>1, <2>2, <2>3, EntersNatives
<1>8. CASE phase = "natives"
  <2>1. Enter("tools")
    BY <1>8 DEF AfterFound
  <2>2. PackagesThere /\ job = "development" /\ want.tools # <<>>
    BY <1>8 DEF IInv, Control, PackagesBacked, PackagesThere, LaterPhase
  <2>3. ExecutablesThere /\ \A x \in Natives : Works(x)
    BY <1>2, <1>8 DEF IInv, ExecutablesBacked, ExecutablesThere, Saw, Fresh, LaterPhase
  <2> QED
    BY <1>1, <2>1, <2>2, <2>3, EntersToolLoop
<1>9. CASE phase \in {"tools", "toolCheck"}
  <2>1. Enter(AfterTools)
    BY <1>9 DEF AfterFound
  <2>2. PackagesThere /\ job = "development"
    BY <1>9 DEF IInv, Control, PackagesBacked, PackagesThere, LaterPhase, ToolPhase
  <2>3. ExecutablesThere
    BY <1>9 DEF IInv, ExecutablesBacked, ExecutablesThere, Saw, Fresh, Works,
                LaterPhase, ToolPhase
  <2>4. \A x \in Natives \cup Plan : Works(x)
    BY <1>2, <1>9 DEF IInv, ExecutablesBacked, Saw, Fresh, ToolPhase
  <2> QED
    BY <1>1, <2>1, <2>2, <2>3, <2>4, EntersTools
<1>10. CASE (phase = "agent" /\ want.update = "no") \/ phase = "agentCheck"
  <2>1. Enter("done")
    BY <1>10 DEF AfterFound
  <2>2. Head(todo) = Agent
    BY <1>10 DEF IInv, Control
  <2> QED
    BY <1>1, <1>10, <2>1, <2>2, EntersDone DEF Saw
<1>11. CASE phase = "agent" /\ want.update # "no"
  <2>1. Enter("runtime") /\ job = "development"
    BY <1>11 DEF AfterFound, IInv, Control
  <2> QED
    BY <1>1, <2>1, EntersRuntime
<1>12. CASE phase = "runtime" /\ job = "node"
  <2>1. Enter("release") /\ missing' = <<>> /\ job' = "node"
    BY <1>12 DEF AfterFound, IInv, Control
  <2>2. \A x \in ToSet(Runtime) : NotBroken(x)
    BY <1>2, <1>12 DEF IInv, RuntimeBacked, Saw, Works, NotBroken
  <2> QED
    BY <1>1, <2>1, <2>2, EntersRelease
<1>13. CASE (phase = "runtime" /\ job # "node") \/ phase = "runtimeCheck"
  <2>1. Enter(AgentInstallation)
    BY <1>13 DEF AfterFound
  <2>2. \A x \in ToSet(Runtime) : Works(x)
    BY <1>2, <1>13 DEF IInv, RuntimeBacked, Saw
  <2> QED
    BY <1>1, <2>1, <2>2, EntersAgentInstallation
<1> QED
  BY <1>3, <1>4, <1>5, <1>6, <1>7, <1>8, <1>9, <1>10, <1>11, <1>12, <1>13 DEF LoopPhase

LEMMA FoundKeeps ==
  ASSUME IInv, phase \in LoopPhase, Saw, Found, UNCHANGED <<guestVars, environment>>
  PROVE  IInv'
<1>1. CASE Len(todo) > 1
  BY <1>1, NextItem DEF Found, Advance
<1>2. CASE ~(Len(todo) > 1)
  BY <1>2, LastItem DEF Found, Advance
<1> QED
  BY <1>1, <1>2

(* What is known when the item in hand counts as missing.                  *)
Lacks == ~Present(Head(todo)) \/ Head(todo) \in lapsed

LEMMA MissingPackage ==
  ASSUME IInv, phase = "query", Lacks, missing' = Append(missing, Head(todo)),
         Advance("install"), UNCHANGED <<job, guestVars, environment>>
  PROVE  IInv'
<1> DEFINE q == missing
           x == Head(todo)
<1> USE DEF QueryPhase, PathPhase, VersionPhase, LoopPhase
<1>1. /\ todo # <<>> /\ Head(todo) \in Package /\ Tail(todo) \in Seq(Package)
      /\ ToSet(todo) = {Head(todo)} \cup ToSet(Tail(todo))
      /\ Len(todo) > 1 => Tail(todo) # <<>>
  BY LoopFacts
<1>2. q \in Seq(Package)
  BY DEF IInv, TypeOK
<1>3. missing' \in Seq(Package) /\ missing' # <<>> /\ ToSet(missing') = ToSet(missing) \cup {x}
  <2> HIDE DEF q
  <2>1. /\ Append(q, x) \in Seq(Package) /\ Len(Append(q, x)) = Len(q) + 1
        /\ \A k \in 1..Len(q) : Append(q, x)[k] = q[k]
        /\ Append(q, x)[Len(q) + 1] = x
    BY <1>1, <1>2, AppendProperties
  <2>2. Len(q) \in Nat /\ DOMAIN q = 1..Len(q) /\ DOMAIN Append(q, x) = 1..(Len(q) + 1)
    BY <1>2, <2>1, LenProperties
  <2>3. ToSet(Append(q, x)) = ToSet(q) \cup {x}
    BY <2>1, <2>2 DEF ToSet
  <2>4. Append(q, x) # <<>>
    BY <2>1, <2>2, EmptySeq
  <2> QED
    BY <2>1, <2>3, <2>4 DEF q
<1>4. ToSet(missing') \cap installed \subseteq lapsed
  BY <1>3 DEF IInv, PackagesBacked, Lacks, Present
<1>5. CASE Len(todo) > 1
  <2> USE DEF guestVars, environment
  <2>1. phase' = "query" /\ todo' = Tail(todo) /\ stage' = "ask"
    BY <1>5 DEF Advance
  <2> USE DEF LaterPhase, ToolPhase, PackagePhase
  <2>2. TypeOK' /\ Control'
    BY <1>1, <1>3, <1>5, <2>1 DEF IInv, TypeOK, Control
  <2>3. PackagesBacked'
    BY <1>1, <1>3, <1>4, <2>1 DEF IInv, PackagesBacked, Ahead
  <2>4. ExecutablesBacked' /\ ToolsGrounded'
    BY <2>1 DEF ExecutablesBacked, ToolsGrounded
  <2>5. VerifyBacked' /\ RuntimeBacked' /\ AgentBacked'
    BY <2>1 DEF IInv, VerifyBacked, RuntimeBacked, AgentBacked, NotBroken
  <2> QED
    BY <2>2, <2>3, <2>4, <2>5 DEF IInv
<1>6. CASE ~(Len(todo) > 1)
  <2>1. Enter("install")
    BY <1>6 DEF Advance
  <2> QED
    BY <1>3, <1>4, <2>1, EntersInstall
<1> QED
  BY <1>5, <1>6


LEMMA MissingRuntime ==
  ASSUME IInv, phase = "runtime", Lacks, job' = "node", missing' = <<>>,
         Advance("release"), UNCHANGED <<guestVars, environment>>
  PROVE  IInv'
<1> USE DEF QueryPhase, PathPhase, VersionPhase, LoopPhase
<1>1. /\ todo # <<>> /\ Head(todo) \in Executable /\ Tail(todo) \in Seq(Executable)
      /\ ToSet(todo) = {Head(todo)} \cup ToSet(Tail(todo))
      /\ Len(todo) > 1 => Tail(todo) # <<>>
      /\ ~(Len(todo) > 1) => ToSet(todo) = {Head(todo)}
  BY LoopFacts
<1>2. NotBroken(Head(todo))
  BY DEF Lacks, Present, NotBroken
<1>3. \A x \in ToSet(Runtime) : x \in ToSet(Tail(todo)) \/ NotBroken(x) \/ x = Head(todo)
  BY <1>1 DEF IInv, RuntimeBacked, Ahead, Works, NotBroken
<1>4. CASE Len(todo) > 1
  <2> USE DEF guestVars, environment
  <2>1. phase' = "runtime" /\ todo' = Tail(todo) /\ stage' = "ask"
    BY <1>4 DEF Advance
  <2> USE DEF LaterPhase, ToolPhase, PackagePhase
  <2>2. <<>> \in Seq(Package)
    BY EmptySeq
  <2>3. TypeOK' /\ Control'
    BY <1>1, <1>4, <2>1, <2>2 DEF IInv, TypeOK, Control
  <2>4. PackagesBacked' /\ ExecutablesBacked' /\ ToolsGrounded'
    BY <2>1 DEF PackagesBacked, ExecutablesBacked, ToolsGrounded
  <2>5. RuntimeBacked'
    BY <1>2, <1>3, <2>1 DEF RuntimeBacked, Ahead, NotBroken
  <2>6. VerifyBacked' /\ AgentBacked'
    BY <2>1 DEF VerifyBacked, AgentBacked
  <2> QED
    BY <2>3, <2>4, <2>5, <2>6 DEF IInv
<1>5. CASE ~(Len(todo) > 1)
  <2>1. Enter("release")
    BY <1>5 DEF Advance
  <2>2. \A x \in ToSet(Runtime) : NotBroken(x)
    <3>1. \A x \in ToSet(Tail(todo)) : x = Head(todo)
      BY <1>1, <1>5
    <3> QED
      BY <1>2, <1>3, <3>1
  <2> QED
    BY <2>1, <2>2, EntersRelease DEF IInv
<1> QED
  BY <1>4, <1>5

LEMMA MissingTool ==
  ASSUME IInv, phase = "tools", Lacks, phase' = "toolInstall", stage' = "ask",
         UNCHANGED <<todo, missing, job, guestVars, environment>>
  PROVE  IInv'
<1> USE DEF QueryPhase, PathPhase, VersionPhase, CommandPhase, LoopPhase, LaterPhase,
            ToolPhase, PackagePhase, guestVars, environment
<1>1. TypeOK' /\ Control'
  BY DEF IInv, TypeOK, Control
<1>2. PackagesBacked'
  BY DEF IInv, PackagesBacked
<1>3. ExecutablesBacked'
  BY DEF IInv, ExecutablesBacked, Ahead, Works, Fresh, Natives, Plan
<1>4. ToolsGrounded'
  BY DEF IInv, ToolsGrounded, Works, Plan
<1>5. VerifyBacked'
  BY DEF VerifyBacked, Lacks, Present
<1>6. RuntimeBacked' /\ AgentBacked'
  BY DEF RuntimeBacked, AgentBacked
<1> QED
  BY <1>1, <1>2, <1>3, <1>4, <1>5, <1>6 DEF IInv

LEMMA NotFoundKeeps ==
  ASSUME IInv, phase \in LoopPhase, Lacks, NotFound, UNCHANGED <<guestVars, environment>>
  PROVE  IInv'
<1>1. CASE /\ phase = "query"
           /\ missing' = Append(missing, Head(todo))
           /\ Advance("install")
           /\ UNCHANGED job
  BY <1>1, MissingPackage
<1>2. CASE /\ phase = "tools"
           /\ phase' = "toolInstall" /\ stage' = "ask"
           /\ UNCHANGED <<todo, missing, job>>
  BY <1>2, MissingTool
<1>3. CASE phase = "agent" /\ Enter("runtime") /\ UNCHANGED <<missing, job>>
  <2>1. TypeOK /\ job = "development"
    BY <1>3 DEF IInv, Control
  <2> QED
    BY <1>3, <2>1, EntersRuntime
<1>4. CASE /\ phase = "runtime"
           /\ job' = "node" /\ missing' = <<>>
           /\ Advance("release")
  BY <1>4, MissingRuntime
<1>5. CASE Fail /\ UNCHANGED <<missing, job>>
  BY <1>5, FailKeeps DEF IInv, TypeOK, guestVars, environment
<1> QED
  BY <1>1, <1>2, <1>3, <1>4, <1>5 DEF NotFound

---------------------------------------------------------------------------
(* One lemma for each action                                               *)
LEMMA StageKeeps ==
  ASSUME IInv, phase \in LoopPhase,
         \/ stage' = "version" /\ phase \in VersionPhase
         \/ stage' = "verify" /\ (connected => Lacks),
         UNCHANGED <<phase, todo, missing, job, guestVars, environment>>
  PROVE  IInv'
<1> USE DEF guestVars, environment
<1>1. TypeOK'
  BY DEF IInv, TypeOK
<1>2. Control'
  BY DEF IInv, Control
<1>3. PackagesBacked'
  BY DEF IInv, PackagesBacked, Ahead
<1>4. ExecutablesBacked'
  BY DEF IInv, ExecutablesBacked, Ahead, Works, Fresh, Natives, Plan
<1>5. ToolsGrounded'
  BY DEF IInv, ToolsGrounded, Works, Plan
<1>6. VerifyBacked'
  BY DEF IInv, VerifyBacked, Lacks, Present
<1>7. RuntimeBacked' /\ AgentBacked'
  BY DEF IInv, RuntimeBacked, AgentBacked, Ahead, Works, NotBroken
<1> QED
  BY <1>1, <1>2, <1>3, <1>4, <1>5, <1>6, <1>7 DEF IInv

LEMMA FailStep ==
  ASSUME IInv, Fail, UNCHANGED <<missing, job, guestVars, environment>>
  PROVE  IInv'
BY FailKeeps DEF IInv, TypeOK, guestVars, environment

LEMMA AskKeeps == ASSUME IInv, Ask PROVE IInv'
<1>1. phase \in LoopPhase /\ UNCHANGED <<guestVars, environment>>
  BY DEF Ask, LoopPhase
<1>2. CASE Fail /\ UNCHANGED <<missing, job>>
  BY <1>1, <1>2, FailStep
<1>3. CASE connected /\ Present(Head(todo)) /\ phase \in VersionPhase
           /\ stage' = "version" /\ UNCHANGED <<phase, todo, missing, job>>
  BY <1>1, <1>3, StageKeeps
<1>4. CASE connected /\ Present(Head(todo)) /\ phase \notin VersionPhase /\ Found
  <2>1. Saw
    BY <1>4 DEF Saw, Present, QueryPhase, PathPhase
  <2> QED
    BY <1>1, <1>4, <2>1, FoundKeeps
<1>5. CASE ~(connected /\ Present(Head(todo))) /\ stage' = "verify"
           /\ UNCHANGED <<phase, todo, missing, job>>
  <2>1. connected => Lacks
    BY <1>5 DEF Lacks
  <2> QED
    BY <1>1, <1>5, <2>1, StageKeeps
<1>6. CASE ~Present(Head(todo)) /\ NotFound
  BY <1>1, <1>6, NotFoundKeeps DEF Lacks
<1> QED
  BY <1>2, <1>3, <1>4, <1>5, <1>6 DEF Ask

LEMMA VerifyKeeps == ASSUME IInv, Verify PROVE IInv'
<1>1. phase \in LoopPhase /\ UNCHANGED <<guestVars, environment>> /\ stage = "verify"
  BY DEF Verify, IInv, Control
<1>2. CASE Fail /\ UNCHANGED <<missing, job>>
  BY <1>1, <1>2, FailStep
<1>3. CASE connected /\ NotFound
  <2>1. Lacks
    BY <1>1, <1>3 DEF IInv, VerifyBacked, Lacks
  <2> QED
    BY <1>1, <1>3, <2>1, NotFoundKeeps
<1> QED
  BY <1>2, <1>3 DEF Verify

LEMMA VersionKeeps == ASSUME IInv, Version PROVE IInv'
<1>1. phase \in VersionPhase /\ phase \in LoopPhase /\ UNCHANGED <<guestVars, environment>>
  BY DEF Version, IInv, Control, LoopPhase
<1>2. CASE Fail /\ UNCHANGED <<missing, job>>
  BY <1>1, <1>2, FailStep
<1>3. CASE exe[Head(todo)] = "works" /\ Found
  <2>1. Saw
    BY <1>1, <1>3 DEF Saw, Works, QueryPhase, PathPhase, VersionPhase
  <2> QED
    BY <1>1, <1>3, <2>1, FoundKeeps
<1> QED
  BY <1>2, <1>3 DEF Version

LEMMA UnreachedKeeps == ASSUME IInv, Unreached PROVE IInv'
BY FailStep DEF Unreached

LEMMA ReleaseKeeps == ASSUME IInv, Release PROVE IInv'
<1>1. CASE Fail /\ UNCHANGED <<missing, job, guestVars, environment>>
  BY <1>1, FailStep
<1>2. CASE phase = "release" /\ Enter("backend")
           /\ UNCHANGED <<missing, job, guestVars, environment>>
  <2> USE DEF guestVars, environment, Enter, Items
  <2>1. phase' = "backend" /\ stage' = "ask" /\ todo' = Backend.tools
    BY <1>2
  <2>2. todo' \in Seq(Executable) /\ todo' # <<>>
    BY <2>1, ProvisioningAssumption
  <2> USE DEF QueryPhase, PathPhase, VersionPhase, CommandPhase, LoopPhase, LaterPhase,
              ToolPhase, PackagePhase
  <2>3. TypeOK' /\ Control'
    BY <1>2, <2>1, <2>2 DEF IInv, TypeOK, Control
  <2>4. PackagesBacked' /\ ExecutablesBacked' /\ ToolsGrounded'
    BY <2>1 DEF PackagesBacked, ExecutablesBacked, ToolsGrounded
  <2>5. VerifyBacked' /\ RuntimeBacked' /\ AgentBacked'
    BY <1>2, <2>1 DEF IInv, VerifyBacked, RuntimeBacked, AgentBacked, NotBroken
  <2> QED
    BY <2>3, <2>4, <2>5 DEF IInv
<1> QED
  BY <1>1, <1>2 DEF Release, Result

(* A command that changes executables leaves the rest of them alone.       *)
LEMMA ChangesShape ==
  ASSUME TypeOK, NEW packages, NEW xs, Changes(packages, xs)
  PROVE  /\ installed' = packages /\ exe' \in [Executable -> Health]
         /\ \A x \in Executable \ xs : exe'[x] = exe[x]
<1>1. PICK h \in [xs -> Health] : exe' = [x \in Executable |-> IF x \in xs THEN h[x] ELSE exe[x]]
  BY DEF Changes
<1>2. exe \in [Executable -> Health]
  BY DEF TypeOK
<1> QED
  BY <1>1, <1>2 DEF Changes

LEMMA InstallKeeps == ASSUME IInv, Install PROVE IInv'
<1>1. PICK gained \in SUBSET ToSet(missing), lost \in SUBSET (installed \ ToSet(missing)) :
        Changes((installed \cup gained) \ lost, UNION {Provides[p] : p \in gained \cup lost})
  BY DEF Install, PackageManagerRuns
<1>2. missing \in Seq(Package) /\ missing # <<>> /\ ToSet(missing) \subseteq Package
  <2>1. missing \in Seq(Package) /\ missing # <<>>
    BY DEF IInv, TypeOK, Control, Install
  <2>2. DOMAIN missing = 1..Len(missing) /\ \A k \in 1..Len(missing) : missing[k] \in Package
    BY <2>1, LenProperties, ElementOfSeq
  <2> QED
    BY <2>1, <2>2 DEF ToSet
<1>3. installed' \in SUBSET Package /\ exe' \in [Executable -> Health]
  BY <1>1, <1>2, ChangesShape DEF IInv, TypeOK
<1>4. CASE Fail /\ UNCHANGED <<missing, job, environment>>
  BY <1>3, <1>4, FailKeeps DEF IInv, TypeOK, environment
<1>5. CASE Enter("requery") /\ UNCHANGED <<missing, job, environment>>
  <2> USE DEF environment, Enter, Items
  <2>1. phase' = "requery" /\ stage' = "ask" /\ todo' = missing /\ missing' = missing
    BY <1>5
  <2> USE DEF QueryPhase, PathPhase, VersionPhase, CommandPhase, LoopPhase, LaterPhase,
              ToolPhase, PackagePhase
  <2>2. TypeOK' /\ Control'
    BY <1>2, <1>3, <1>5, <2>1 DEF IInv, TypeOK, Control, Install
  <2>3. PackagesBacked' /\ ExecutablesBacked' /\ ToolsGrounded'
    BY <2>1 DEF PackagesBacked, ExecutablesBacked, ToolsGrounded, Ahead
  <2>4. VerifyBacked' /\ RuntimeBacked' /\ AgentBacked'
    BY <2>1 DEF VerifyBacked, RuntimeBacked, AgentBacked
  <2> QED
    BY <2>2, <2>3, <2>4 DEF IInv
<1> QED
  BY <1>4, <1>5 DEF Install, Result

LEMMA ElementsOf ==
  ASSUME NEW S, NEW s \in Seq(S)
  PROVE  ToSet(s) \subseteq S
<1>1. DOMAIN s = 1..Len(s) /\ \A k \in 1..Len(s) : s[k] \in S
  BY LenProperties, ElementOfSeq
<1> QED
  BY <1>1 DEF ToSet

(* A tool that was just installed is probed next, and until then it is the *)
(* only one of which nothing is known; it is not its own prerequisite.     *)
LEMMA ToolInstallKeeps == ASSUME IInv, ToolInstall PROVE IInv'
<1> USE DEF QueryPhase, PathPhase, VersionPhase, CommandPhase, LoopPhase, LaterPhase,
            ToolPhase, PackagePhase, environment
<1>1. /\ phase = "toolInstall" /\ todo \in Seq(Tool) /\ todo # <<>> /\ TypeOK
      /\ UNCHANGED <<todo, stage, missing, job, environment>>
  BY DEF IInv, Control, ToolInstall
<1>2. /\ installed' = installed /\ exe' \in [Executable -> Health]
      /\ \A x \in Executable \ {Head(todo)} : exe'[x] = exe[x]
  BY <1>1, ChangesShape DEF ToolInstall
<1>3. CASE phase' = "failed"
  <2>1. stage = "ask"
    BY <1>1 DEF IInv, Control, TypeOK
  <2> QED
    BY <1>1, <1>2, <1>3, <2>1, FailKeeps DEF Fail, TypeOK
<1>4. CASE phase' = "toolCheck"
  <2> DEFINE h == Head(todo)
  <2>1. Tool \subseteq Executable
    BY ProvisioningAssumption
  <2>2. /\ h \in Tool /\ h = todo[1] /\ DOMAIN todo = 1..Len(todo) /\ h \in ToSet(todo)
        /\ Len(todo) \in Nat \ {0}
    BY <1>1, TodoShape
  <2>3. todo \in Seq(Executable) /\ stage = "ask"
    <3>1. Seq(Tool) \subseteq Seq(Executable)
      BY <2>1, SeqMonotonic
    <3> QED
      BY <1>1, <3>1 DEF IInv, Control
  <2>4. /\ ToSet(RequiredExecutables(want)) \subseteq Executable
        /\ Natives \subseteq Executable /\ Plan \subseteq Executable
    <3>1. /\ RequiredExecutables(want) \in Seq(Executable)
          /\ NativePackages(want.tools) \in Seq(Executable)
          /\ ToolPlan(want.tools) \in Seq(Executable)
      BY <1>1, Wanted DEF TypeOK
    <3> QED
      BY <3>1, ElementsOf DEF Natives, Plan
  <2>5. TypeOK' /\ Control'
    BY <1>1, <1>2, <1>4, <2>3 DEF IInv, TypeOK, Control
  <2>6. PackagesBacked'
    BY <1>1, <1>2, <1>4 DEF IInv, PackagesBacked
  <2>7. ExecutablesBacked'
    <3>1. \A x \in ToSet(RequiredExecutables(want)) : exe'[x] # "absent" \/ x = h
      BY <1>1, <1>2, <2>4 DEF IInv, ExecutablesBacked, Fresh
    <3>2. \A x \in Natives : exe'[x] = "works" \/ x = h
      BY <1>1, <1>2, <2>4 DEF IInv, ExecutablesBacked, Works, Fresh
    <3>3. \A x \in Plan : Ahead(x) \/ exe'[x] = "works"
      BY <1>1, <1>2, <2>2, <2>4 DEF IInv, ExecutablesBacked, Works, Ahead
    <3> QED
      BY <1>1, <1>4, <3>1, <3>2, <3>3 DEF ExecutablesBacked, Ahead, Works, Fresh, Natives, Plan
  <2>8. ToolsGrounded'
    <3>1. SUFFICES ASSUME NEW k \in DOMAIN todo
                   PROVE  /\ todo[k] \in Plan'
                          /\ \A x \in ToSet(ToolDefinition[todo[k]].prerequisites) :
                               Works(x)' \/ \E j \in 1..(k - 1) : todo[j] = x
      BY <1>1 DEF ToolsGrounded
    <3>2. todo[k] \in Plan /\ Plan' = Plan
      BY <1>1 DEF IInv, ToolsGrounded, Plan
    <3>3. todo[k] \in Tool
      BY <1>1, <2>2, ElementOfSeq
    <3>4. ASSUME NEW x \in ToSet(ToolDefinition[todo[k]].prerequisites)
          PROVE  Works(x)' \/ \E j \in 1..(k - 1) : todo[j] = x
      <4>1. Works(x) \/ \E j \in 1..(k - 1) : todo[j] = x
        BY <1>1 DEF IInv, ToolsGrounded
      <4>2. /\ ToolDefinition[todo[k]].prerequisites \in Seq(Tool)
            /\ ToolDefinition[x].prerequisites = <<>>
        BY <3>3, ProvisioningAssumption
      <4>3. x \in Executable /\ ToSet(<<>>) = {}
        BY <2>1, <4>2, ElementsOf DEF ToSet
      <4>4. CASE x # h
        BY <1>2, <4>1, <4>3, <4>4 DEF Works
      <4>5. CASE x = h
        <5>1. k # 1
          BY <2>2, <4>2, <4>3, <4>5
        <5>2. 1 \in 1..(k - 1)
          BY <2>2, <5>1
        <5> QED
          BY <2>2, <4>5, <5>2
      <4> QED
        BY <4>4, <4>5
    <3> QED
      BY <3>2, <3>4
  <2>9. VerifyBacked' /\ RuntimeBacked' /\ AgentBacked'
    BY <1>1, <1>4, <2>3 DEF VerifyBacked, RuntimeBacked, AgentBacked
  <2> QED
    BY <2>5, <2>6, <2>7, <2>8, <2>9 DEF IInv
<1> QED
  BY <1>3, <1>4 DEF ToolInstall

(* Phases of which only the types are claimed.                             *)
LEMMA EntersCommand ==
  ASSUME TypeOK, phase' \in {"setup", "reach"}, todo' = <<>>, stage' = "ask",
         phase' = "setup" => phase = "git" /\ IInv /\ UNCHANGED guestVars,
         job = "development", UNCHANGED <<missing, job, environment>>,
         installed' \in SUBSET Package, exe' \in [Executable -> Health]
  PROVE  IInv'
<1> USE DEF QueryPhase, PathPhase, VersionPhase, CommandPhase, LoopPhase, LaterPhase,
            ToolPhase, PackagePhase, environment, guestVars
<1>1. <<>> \in Seq(Package)
  BY EmptySeq
<1>2. TypeOK' /\ Control'
  BY <1>1 DEF TypeOK, Control
<1>3. PackagesBacked'
  BY DEF IInv, PackagesBacked
<1>4. ExecutablesBacked'
  BY DEF IInv, ExecutablesBacked, Works, Fresh, Natives, Plan
<1>5. ToolsGrounded' /\ VerifyBacked' /\ RuntimeBacked' /\ AgentBacked'
  BY DEF ToolsGrounded, VerifyBacked, RuntimeBacked, AgentBacked
<1> QED
  BY <1>2, <1>3, <1>4, <1>5 DEF IInv

LEMMA PrepareGitKeeps == ASSUME IInv, PrepareGit PROVE IInv'
<1>1. CASE Fail /\ UNCHANGED <<missing, job, guestVars, environment>>
  BY <1>1, FailStep
<1>2. CASE phase = "git" /\ Enter("setup") /\ UNCHANGED <<missing, job, guestVars, environment>>
  <2>1. phase' = "setup" /\ todo' = <<>> /\ stage' = "ask"
    BY <1>2 DEF Enter, Items
  <2>2. TypeOK /\ job = "development"
    BY <1>2 DEF IInv, Control, LaterPhase
  <2> QED
    BY <1>2, <2>1, <2>2, EntersCommand DEF guestVars, IInv, TypeOK
<1> QED
  BY <1>1, <1>2 DEF PrepareGit, Result

LEMMA SetupKeeps == ASSUME IInv, Setup PROVE IInv'
<1>1. installed' \in SUBSET Package /\ exe' \in [Executable -> Health]
  BY ChangesShape DEF Setup, IInv, TypeOK
<1>2. CASE Fail /\ UNCHANGED <<missing, job, environment>>
  BY <1>1, <1>2, FailKeeps DEF IInv, TypeOK, environment
<1>3. CASE phase = "setup" /\ Enter("reach") /\ UNCHANGED <<missing, job, environment>>
  <2>1. phase' = "reach" /\ todo' = <<>> /\ stage' = "ask"
    BY <1>3 DEF Enter, Items
  <2>2. TypeOK /\ job = "development"
    BY <1>3 DEF IInv, Control, LaterPhase
  <2> QED
    BY <1>1, <1>3, <2>1, <2>2, EntersCommand
<1> QED
  BY <1>2, <1>3 DEF Setup, Result

LEMMA ReachKeeps == ASSUME IInv, Reach PROVE IInv'
<1>1. CASE Fail /\ UNCHANGED <<missing, job, guestVars, environment>>
  BY <1>1, FailStep
<1>2. CASE phase = "reach" /\ Enter("agent") /\ UNCHANGED <<missing, job, guestVars, environment>>
  <2> USE DEF guestVars, environment, Enter, Items
  <2>1. phase' = "agent" /\ stage' = "ask" /\ todo' = <<Agent>>
    BY <1>2
  <2>2. todo' \in Seq(Executable) /\ todo' # <<>>
    BY <2>1, ProvisioningAssumption
  <2> USE DEF QueryPhase, PathPhase, VersionPhase, CommandPhase, LoopPhase, LaterPhase,
              ToolPhase, PackagePhase
  <2>3. TypeOK' /\ Control'
    BY <1>2, <2>1, <2>2 DEF IInv, TypeOK, Control
  <2>4. PackagesBacked' /\ ExecutablesBacked' /\ ToolsGrounded'
    BY <2>1 DEF PackagesBacked, ExecutablesBacked, ToolsGrounded
  <2>5. VerifyBacked' /\ RuntimeBacked' /\ AgentBacked'
    BY <2>1 DEF VerifyBacked, RuntimeBacked, AgentBacked
  <2> QED
    BY <2>3, <2>4, <2>5 DEF IInv
<1> QED
  BY <1>1, <1>2 DEF Reach, Result

(* npm changes the agent, which is not one of the runtime's executables.   *)
LEMMA AgentChanges ==
  ASSUME IInv, phase \in {"legacy", "npmInstall"}, Changes(installed, {Agent}),
         UNCHANGED environment
  PROVE  /\ installed' \in SUBSET Package /\ exe' \in [Executable -> Health]
         /\ \A x \in ToSet(Runtime) : exe'[x] = "works"
<1>1. /\ installed' = installed /\ exe' \in [Executable -> Health]
      /\ \A x \in Executable \ {Agent} : exe'[x] = exe[x]
  BY ChangesShape DEF IInv
<1>2. ToSet(Runtime) \subseteq Executable
  BY RuntimeTypes, ElementsOf
<1>3. Agent \notin ToSet(Runtime)
  BY ProvisioningAssumption
<1> QED
  BY <1>1, <1>2, <1>3 DEF IInv, TypeOK, RuntimeBacked, Works

LEMMA RemoveLegacyKeeps == ASSUME IInv, RemoveLegacy PROVE IInv'
<1>1. /\ installed' \in SUBSET Package /\ exe' \in [Executable -> Health]
      /\ \A x \in ToSet(Runtime) : exe'[x] = "works"
  BY AgentChanges DEF RemoveLegacy, Result
<1>2. CASE Fail /\ UNCHANGED <<missing, job, environment>>
  BY <1>1, <1>2, FailKeeps DEF IInv, TypeOK, environment
<1>3. CASE Enter("npmInstall") /\ UNCHANGED <<missing, job, environment>>
  <2> USE DEF environment, Enter, Items
  <2>1. phase' = "npmInstall" /\ stage' = "ask" /\ todo' = <<>> /\ <<>> \in Seq(Package)
    BY <1>3, EmptySeq
  <2> USE DEF QueryPhase, PathPhase, VersionPhase, CommandPhase, LoopPhase, LaterPhase,
              ToolPhase, PackagePhase
  <2>2. TypeOK' /\ Control'
    BY <1>1, <1>3, <2>1 DEF IInv, TypeOK, Control
  <2>3. PackagesBacked' /\ ExecutablesBacked' /\ ToolsGrounded'
    BY <2>1 DEF PackagesBacked, ExecutablesBacked, ToolsGrounded
  <2>4. VerifyBacked' /\ RuntimeBacked' /\ AgentBacked'
    BY <1>1, <2>1 DEF VerifyBacked, RuntimeBacked, AgentBacked, Works
  <2> QED
    BY <2>2, <2>3, <2>4 DEF IInv
<1> QED
  BY <1>2, <1>3 DEF RemoveLegacy, Result

LEMMA NpmInstallKeeps == ASSUME IInv, NpmInstall PROVE IInv'
<1>1. installed' \in SUBSET Package /\ exe' \in [Executable -> Health]
  BY AgentChanges DEF NpmInstall, Result
<1>2. CASE Fail /\ UNCHANGED <<missing, job, environment>>
  BY <1>1, <1>2, FailKeeps DEF IInv, TypeOK, environment
<1>3. CASE Enter("agentCheck") /\ UNCHANGED <<missing, job, environment>>
  <2> USE DEF environment, Enter, Items
  <2>1. phase' = "agentCheck" /\ stage' = "ask" /\ todo' = <<Agent>>
    BY <1>3
  <2>2. todo' \in Seq(Executable) /\ todo' # <<>>
    BY <2>1, ProvisioningAssumption
  <2> USE DEF QueryPhase, PathPhase, VersionPhase, CommandPhase, LoopPhase, LaterPhase,
              ToolPhase, PackagePhase
  <2>3. TypeOK' /\ Control'
    BY <1>1, <1>3, <2>1, <2>2 DEF IInv, TypeOK, Control
  <2>4. PackagesBacked' /\ ExecutablesBacked' /\ ToolsGrounded'
    BY <2>1 DEF PackagesBacked, ExecutablesBacked, ToolsGrounded
  <2>5. VerifyBacked' /\ RuntimeBacked' /\ AgentBacked'
    BY <2>1 DEF VerifyBacked, RuntimeBacked, AgentBacked
  <2> QED
    BY <2>3, <2>4, <2>5 DEF IInv
<1> QED
  BY <1>2, <1>3 DEF NpmInstall, Result

(* The connection goes and comes back: only what was lapsed grows.         *)
LEMMA ConnectionKeeps ==
  ASSUME IInv, UNCHANGED <<guestVars, want, phase, todo, stage, missing, job>>,
         connected' \in BOOLEAN, losses' \in 0..MaxLosses,
         lapsed' \in SUBSET (Package \cup Executable), lapsed \subseteq lapsed',
         stage = "verify" /\ connected' => connected \/ Head(todo) \in lapsed'
  PROVE  IInv'
<1> USE DEF guestVars
<1>1. TypeOK'
  BY DEF IInv, TypeOK
<1>2. Control'
  BY DEF IInv, Control
<1>3. PackagesBacked'
  BY DEF IInv, PackagesBacked, Ahead
<1>4. ExecutablesBacked'
  BY DEF IInv, ExecutablesBacked, Ahead, Works, Fresh, Natives, Plan
<1>5. ToolsGrounded'
  BY DEF IInv, ToolsGrounded, Works, Plan
<1>6. VerifyBacked'
  BY DEF IInv, VerifyBacked, Present
<1>7. RuntimeBacked' /\ AgentBacked'
  BY DEF IInv, RuntimeBacked, AgentBacked, Ahead, Works, NotBroken
<1> QED
  BY <1>1, <1>2, <1>3, <1>4, <1>5, <1>6, <1>7 DEF IInv

LEMMA DisconnectKeeps == ASSUME IInv, Disconnect PROVE IInv'
<1>1. losses' \in 0..MaxLosses
  BY ProvisioningAssumption DEF Disconnect, IInv, TypeOK
<1> QED
  BY <1>1, ConnectionKeeps DEF Disconnect, IInv, TypeOK

LEMMA ReconnectKeeps == ASSUME IInv, Reconnect PROVE IInv'
<1>1. CASE stage = "verify"
  <2>1. Head(todo) \in Package \cup Executable
    BY <1>1, LoopFacts DEF IInv, Control
  <2>2. /\ lapsed' \in SUBSET (Package \cup Executable) /\ lapsed \subseteq lapsed'
        /\ Head(todo) \in lapsed'
    BY <1>1, <2>1 DEF Reconnect, IInv, TypeOK
  <2> QED
    BY <2>2, ConnectionKeeps DEF Reconnect, IInv, TypeOK
<1>2. CASE stage # "verify"
  BY <1>2, ConnectionKeeps DEF Reconnect, IInv, TypeOK
<1> QED
  BY <1>1, <1>2

LEMMA NextKeeps == IInv /\ [Next]_vars => IInv'
<1> SUFFICES ASSUME IInv, [Next]_vars PROVE IInv'
  OBVIOUS
<1>1. CASE Next
  BY <1>1, AskKeeps, VerifyKeeps, VersionKeeps, UnreachedKeeps, ReleaseKeeps, InstallKeeps,
     ToolInstallKeeps, PrepareGitKeeps, SetupKeeps, ReachKeeps, RemoveLegacyKeeps,
     NpmInstallKeeps, DisconnectKeeps, ReconnectKeeps
  DEF Next
<1>2. CASE UNCHANGED vars
  BY <1>2, ConnectionKeeps DEF vars, guestVars, IInv, TypeOK
<1> QED
  BY <1>1, <1>2

LEMMA InvHolds == Spec => []IInv
BY InitKeeps, NextKeeps, PTL DEF Spec

(* Every state of a preparation is of the declared types, and a loop over  *)
(* packages, executables or tools never runs out of items before its end.  *)
THEOREM TypeCorrect == Spec => []TypeOK
BY InvHolds, PTL DEF IInv

(* Setup and Git meet the packages, executables and tools that were asked  *)
(* for, a tool is installed with a tool that works, npm runs on a runtime  *)
(* that works, and a success means that the agent is there.                *)
THEOREM UsesAreVerified == Spec => []VerifiedBeforeUse
<1>1. ASSUME IInv PROVE VerifiedBeforeUse
  <2> USE <1>1 DEF LaterPhase, ToolPhase
  <2>1. phase \in {"git", "setup"} =>
          /\ ToSet(IF missing = <<>> THEN DevelopmentPackages(want) ELSE missing) \subseteq installed
          /\ \A x \in ToSet(RequiredExecutables(want)) : exe[x] # "absent"
          /\ \A x \in ToSet(NativePackages(want.tools)) \cup ToSet(ToolPlan(want.tools)) :
               exe[x] = "works"
    BY DEF IInv, PackagesBacked, ExecutablesBacked, Works, Fresh, Natives, Plan
  <2>2. ASSUME phase = "toolInstall" PROVE exe[ToolDefinition[Head(todo)].by] = "works"
    <3> DEFINE d == ToolDefinition[todo[1]]
    <3>1. todo \in Seq(Tool) /\ todo # <<>>
      BY <2>2 DEF IInv, Control
    <3>2. todo[1] \in Tool /\ Head(todo) = todo[1] /\ 1 \in DOMAIN todo
      BY <3>1, TodoShape
    <3>3. d.by \in ToSet(d.natives) \cup ToSet(d.prerequisites)
      BY <3>2, ProvisioningAssumption
    <3>4. todo[1] \in Plan /\ \A x \in ToSet(d.prerequisites) :
                                Works(x) \/ \E j \in 1..(1 - 1) : todo[j] = x
      BY <2>2, <3>2 DEF IInv, ToolsGrounded
    <3>5. \A x \in ToSet(d.prerequisites) : Works(x)
      BY <3>4
    <3>6. ToSet(d.natives) \subseteq Natives
      BY <3>4, Wanted DEF IInv, TypeOK
    <3>7. \A x \in Natives : Works(x)
      BY <2>2 DEF IInv, ExecutablesBacked, Fresh
    <3> QED
      BY <3>2, <3>3, <3>5, <3>6, <3>7 DEF Works
  <2>3. phase \in {"legacy", "npmInstall"} => \A x \in ToSet(Runtime) : exe[x] = "works"
    BY DEF IInv, RuntimeBacked, Works
  <2>4. phase = "done" => exe[Agent] # "absent"
    BY DEF IInv, AgentBacked
  <2> QED
    BY <2>1, <2>2, <2>3, <2>4 DEF VerifiedBeforeUse
<1> QED
  BY <1>1, InvHolds, PTL

---------------------------------------------------------------------------
(* The agent                                                               *)
LEMMA FoundLeads ==
  ASSUME IInv, phase \in LoopPhase, Found
  PROVE  /\ AgentPhase' => AgentPhase \/ want.update # "no"
         /\ phase' = "legacy" => want.update = "legacy"
<1> USE DEF QueryPhase, PathPhase, VersionPhase, LoopPhase, PackagePhase, LaterPhase, ToolPhase
<1>1. job' = job /\ job \in {"development", "node"} /\ phase # "legacy"
  BY DEF Found, IInv, TypeOK
<1>2. CASE Len(todo) > 1
  BY <1>1, <1>2 DEF Found, Advance, AgentPhase
<1>3. CASE ~(Len(todo) > 1)
  <2>1. phase' = AfterFound
    BY <1>3 DEF Found, Advance, Enter
  <2>2. phase \in LaterPhase => job = "development"
    BY DEF IInv, Control
  <2>3. phase' = "legacy" => want.update = "legacy"
    BY <2>1 DEF AfterFound, AfterPackages, AfterExecutables, AfterTools, AgentInstallation
  <2>4. CASE phase \in {"query", "requery"} /\ job = "development"
    BY <1>1, <2>1, <2>3, <2>4
    DEF AfterFound, AfterPackages, AfterExecutables, AfterTools, AgentPhase
  <2>5. CASE phase \in LaterPhase
    BY <1>1, <2>1, <2>2, <2>3, <2>5
    DEF AfterFound, AfterExecutables, AfterTools, AgentPhase
  <2>6. CASE phase \in {"agent", "agentCheck"}
    <3>1. phase = "agent" => job = "development"
      BY DEF IInv, Control
    <3> QED
      BY <1>1, <2>1, <2>3, <2>6, <3>1 DEF AfterFound, AgentPhase
  <2>7. CASE phase = "backend" \/ AgentPhase
    BY <1>1, <2>1, <2>3, <2>7 DEF AfterFound, AgentPhase
  <2>8. \/ (phase \in {"query", "requery"} /\ job = "development") \/ phase \in LaterPhase
        \/ phase \in {"agent", "agentCheck"} \/ phase = "backend" \/ AgentPhase
    BY <1>1 DEF AgentPhase
  <2> QED
    BY <2>4, <2>5, <2>6, <2>7, <2>8
<1> QED
  BY <1>2, <1>3

LEMMA NotFoundLeads ==
  ASSUME IInv, phase \in LoopPhase, NotFound
  PROVE  /\ AgentPhase' => AgentPhase \/ phase = "agent"
         /\ phase' # "legacy"
<1> USE DEF QueryPhase, PathPhase, VersionPhase, LoopPhase, PackagePhase
<1>1. CASE phase = "query" /\ Advance("install") /\ UNCHANGED job
  BY <1>1 DEF Advance, Enter, AgentPhase
<1>2. CASE phase \in {"tools", "agent", "runtime"}
  BY <1>2 DEF NotFound, Advance, Enter, AgentPhase
<1>3. CASE Fail
  BY <1>3 DEF Fail, AgentPhase
<1> QED
  BY <1>1, <1>2, <1>3 DEF NotFound

LEMMA AgentLoopKeeps ==
  ASSUME IInv, AgentAbsent, Ask \/ Verify \/ Version
  PROVE  AgentAbsent'
<1> USE DEF guestVars, environment
<1>1. phase \in LoopPhase /\ UNCHANGED <<guestVars, environment>>
  BY DEF Ask, Verify, Version, IInv, Control, LoopPhase
<1>2. CASE Fail
  BY <1>1, <1>2 DEF Fail, AgentAbsent, AgentPhase, PackagePhase
<1>3. CASE UNCHANGED <<phase, job>>
  BY <1>1, <1>3 DEF AgentAbsent, AgentPhase
<1>4. CASE Found
  BY <1>1, <1>4, FoundLeads DEF AgentAbsent
<1>5. CASE NotFound /\ Lacks
  <2>1. phase = "agent" => exe[Agent] = "absent" \/ Agent \in lapsed
    BY <1>5 DEF IInv, Control, Lacks, Present, QueryPhase
  <2> QED
    BY <1>1, <1>5, <2>1, NotFoundLeads DEF AgentAbsent
<1>6. Verify /\ connected /\ NotFound => Lacks
  BY DEF Verify, IInv, VerifyBacked, Lacks
<1> QED
  BY <1>2, <1>3, <1>4, <1>5, <1>6 DEF Ask, Verify, Version, Lacks

LEMMA AgentNextKeeps ==
  ASSUME AgentFromNpm, IInv, AgentAbsent, [Next]_vars
  PROVE  AgentAbsent'
<1> USE DEF environment, PackagePhase
<1>1. CASE Ask \/ Verify \/ Version
  BY <1>1, AgentLoopKeeps
<1>2. ASSUME phase' = "failed", UNCHANGED <<missing, job, environment>> PROVE AgentAbsent'
  BY <1>2 DEF AgentAbsent, AgentPhase
<1>3. CASE Unreached
  BY <1>2, <1>3 DEF Unreached, Fail
<1>4. CASE Release
  <2>1. CASE Enter("backend") /\ UNCHANGED <<job, guestVars, environment>>
    BY <1>4, <2>1 DEF Release, Enter, guestVars, AgentAbsent, AgentPhase
  <2> QED
    BY <1>2, <1>4, <2>1 DEF Release, Result, Fail
<1>5. CASE Install
  <2>1. exe'[Agent] = exe[Agent]
    <3>1. PICK gained \in SUBSET ToSet(missing), lost \in SUBSET (installed \ ToSet(missing)) :
            Changes((installed \cup gained) \ lost, UNION {Provides[p] : p \in gained \cup lost})
      BY <1>5 DEF Install, PackageManagerRuns
    <3>2. gained \cup lost \subseteq Package
      <4>1. ToSet(missing) \subseteq Package
        BY ElementsOf DEF IInv, TypeOK
      <4> QED
        BY <4>1 DEF IInv, TypeOK
    <3>3. Agent \notin UNION {Provides[p] : p \in gained \cup lost}
      BY <3>2 DEF AgentFromNpm
    <3>4. Agent \in Executable
      BY ProvisioningAssumption
    <3> QED
      BY <3>1, <3>3, <3>4, ChangesShape DEF IInv
  <2>2. CASE Enter("requery") /\ UNCHANGED <<job, environment>>
    BY <1>5, <2>1, <2>2 DEF Install, Enter, AgentAbsent, AgentPhase
  <2> QED
    BY <1>2, <1>5, <2>2 DEF Install, Result, Fail
<1>6. CASE ToolInstall
  BY <1>2, <1>6 DEF ToolInstall, AgentAbsent, AgentPhase
<1>7. CASE PrepareGit \/ Setup \/ Reach
  <2>1. CASE phase' \in {"setup", "reach", "agent"}
    BY <2>1 DEF AgentAbsent, AgentPhase
  <2> QED
    BY <1>2, <1>7, <2>1 DEF PrepareGit, Setup, Reach, Result, Enter, Fail
<1>8. CASE RemoveLegacy
  <2>1. CASE phase' = "npmInstall" /\ want' = want
    BY <1>8, <2>1 DEF RemoveLegacy, AgentAbsent
  <2> QED
    BY <1>2, <1>8, <2>1 DEF RemoveLegacy, Result, Enter, Fail
<1>9. CASE NpmInstall
  <2>1. CASE phase' = "agentCheck"
    BY <2>1 DEF AgentAbsent, AgentPhase
  <2> QED
    BY <1>2, <1>9, <2>1 DEF NpmInstall, Result, Enter, Fail
<1>10. CASE Disconnect \/ Reconnect
  <2>1. lapsed \subseteq lapsed'
    BY <1>10 DEF Disconnect, Reconnect
  <2> QED
    BY <1>10, <2>1 DEF Disconnect, Reconnect, guestVars, AgentAbsent, AgentPhase
<1>11. CASE UNCHANGED vars
  BY <1>11 DEF vars, AgentAbsent, AgentPhase
<1> QED
  BY <1>1, <1>3, <1>4, <1>5, <1>6, <1>7, <1>8, <1>9, <1>10, <1>11 DEF Next

(* No package, tool, agent or runtime that is there is installed over: not *)
(* after a lost connection, and not because it fails when asked for its    *)
(* version.                                                                *)
THEOREM PresentIsKept ==
  ASSUME AgentFromNpm
  PROVE  Spec => []NothingPresentReplaced
<1>1. Init => AgentAbsent
  BY DEF Init, AgentAbsent, AgentPhase, FirstPhase, AfterTools, PackagePhase
<1>2. IInv /\ AgentAbsent /\ [Next]_vars => AgentAbsent'
  BY AgentNextKeeps
<1>3. IInv /\ AgentAbsent => NothingPresentReplaced
  <2> SUFFICES ASSUME IInv, AgentAbsent PROVE NothingPresentReplaced
    OBVIOUS
  <2>1. phase = "install" => ToSet(missing) \cap installed \subseteq lapsed
    BY DEF IInv, PackagesBacked
  <2>2. phase = "toolInstall" => exe[Head(todo)] = "absent" \/ Head(todo) \in lapsed
    BY DEF IInv, VerifyBacked
  <2>3. phase = "npmInstall" /\ want.update = "no" => exe[Agent] = "absent" \/ Agent \in lapsed
    BY DEF AgentAbsent, AgentPhase
  <2>4. job = "node" /\ phase \in {"release", "backend", "query", "install"} =>
          \A x \in ToSet(Runtime) : exe[x] # "broken" \/ x \in lapsed
    BY DEF IInv, RuntimeBacked, NotBroken
  <2> QED
    BY <2>1, <2>2, <2>3, <2>4 DEF NothingPresentReplaced
<1> QED
  BY <1>1, <1>2, <1>3, InvHolds, PTL DEF Spec
=============================================================================
