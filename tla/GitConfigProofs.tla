-------------------------- MODULE GitConfigProofs --------------------------
(***************************************************************************)
(* For any files, references, links, edits and depth, and any number of    *)
(* preparations: the walk copies what the host's configuration reaches or  *)
(* refuses for a cause, a success means that the guest has the copies, and *)
(* the root in the guest never refers to a copied file that did not        *)
(* arrive.                                                                 *)
(***************************************************************************)
EXTENDS GitConfigCopy, TLAPS, WellFoundedInduction, FiniteSetTheorems, SequenceTheorems

---------------------------------------------------------------------------
(* The levels of includes                                                  *)

(* The least-number principle.                                             *)
LEMMA LeastElement ==
  ASSUME NEW S \in SUBSET Nat, S # {}
  PROVE  \E k \in S : \A l \in S : k <= l
<1> DEFINE R == {ss \in Nat \X Nat : ss[1] < ss[2]}
<1>1. IsWellFoundedOn(R, Nat)
  BY NatLessThanWellFounded, Zenon DEF OpToRel
<1> HIDE DEF R
<1>2. PICK k \in S : \A l \in S : ~ (<<l, k>> \in R)
  BY <1>1, WFMin
<1>3. ASSUME NEW l \in S PROVE k <= l
  <2>1. k \in Nat /\ l \in Nat
    OBVIOUS
  <2>2. l < k => <<l, k>> \in R
    BY <2>1 DEF R
  <2>3. QED
    BY <1>2, <2>1, <2>2
<1>4. QED
  BY <1>3

Includes(fs) == {r.to : r \in Targets(fs, "include")} \cap File
Longest == Cardinality(File)

LEMMA LongestNat == Longest \in Nat
BY GitConfigAssumption, FS_CardinalityType DEF Longest

LEMMA LevelDef ==
  /\ Level[0] = {Root}
  /\ \A n \in 0..Longest : n # 0 => Level[n] = Includes(Level[n - 1])
<1> DEFINE F(n, g) == \A k \in 0..n : g[k] = IF k = 0 THEN {Root} ELSE Includes(g[k - 1])
           Bad == {n \in Nat : ~\E g : F(n, g)}
<1>1. Bad = {}
  <2>1. SUFFICES ASSUME Bad # {} PROVE FALSE
    OBVIOUS
  <2>2. PICK n \in Bad : \A l \in Bad : n <= l
    BY <2>1, LeastElement
  <2>3. n \in Nat /\ ~\E g : F(n, g)
    OBVIOUS
  <2>4. CASE n = 0
    <3>1. F(n, [k \in {0} |-> {Root}])
      BY <2>4
    <3> QED
      BY <3>1, <2>3
  <2>5. CASE n # 0
    <3>1. n - 1 \in Nat /\ n - 1 \notin Bad
      <4> HIDE DEF Bad
      <4> QED
        BY <2>2, <2>3, <2>5
    <3>2. PICK g : F(n - 1, g)
      BY <3>1
    <3> DEFINE e == [k \in 0..n |-> IF k = n THEN Includes(g[n - 1]) ELSE g[k]]
    <3>3. F(n, e)
      <4>1. ASSUME NEW k \in 0..n
            PROVE  e[k] = IF k = 0 THEN {Root} ELSE Includes(e[k - 1])
        <5>1. CASE k = n
          <6>1. e[k] = Includes(g[n - 1]) /\ k # 0 /\ e[k - 1] = g[n - 1]
            BY <2>3, <2>5, <5>1
          <6> QED
            BY <6>1, <5>1
        <5>2. CASE k # n /\ k = 0
          BY <2>3, <3>1, <3>2, <5>2
        <5>3. CASE k # n /\ k # 0
          <6>1. k \in 0..(n - 1) /\ k - 1 \in 0..n /\ k - 1 # n
            BY <2>3, <5>3
          <6>2. e[k] = g[k] /\ e[k - 1] = g[k - 1]
            BY <6>1, <5>3
          <6>3. g[k] = Includes(g[k - 1])
            BY <6>1, <3>2, <5>3
          <6> QED
            BY <6>2, <6>3, <5>3
        <5> QED
          BY <5>1, <5>2, <5>3
      <4> QED
        BY <4>1
    <3> QED
      BY <3>3, <2>3, Zenon
  <2> QED
    BY <2>4, <2>5
<1>2. PICK g : F(Longest, g)
  BY <1>1, LongestNat
<1> DEFINE h == [n \in 0..Longest |-> g[n]]
<1>3. h = [n \in 0..Longest |-> IF n = 0 THEN {Root} ELSE Includes(h[n - 1])]
  <2>1. ASSUME NEW n \in 0..Longest
        PROVE  h[n] = IF n = 0 THEN {Root} ELSE Includes(h[n - 1])
    <3>1. n # 0 => h[n - 1] = g[n - 1]
      BY LongestNat
    <3>2. h[n] = IF n = 0 THEN {Root} ELSE Includes(g[n - 1])
      BY <1>2
    <3> QED
      BY <3>1, <3>2
  <2> QED
    BY <2>1
<1>4. Level = [n \in 0..Longest |-> IF n = 0 THEN {Root} ELSE Includes(Level[n - 1])]
  <2> HIDE DEF h
  <2> DEFINE P(f) == f = [n \in 0..Longest |-> IF n = 0 THEN {Root} ELSE Includes(f[n - 1])]
  <2>1. P(h)
    BY <1>3
  <2>2. Level = CHOOSE f : P(f)
    BY DEF Level, Includes, Longest
  <2>3. P(CHOOSE f : P(f))
    BY <2>1
  <2> QED
    BY <2>2, <2>3
<1>5. ASSUME NEW n \in 0..Longest
      PROVE  Level[n] = IF n = 0 THEN {Root} ELSE Includes(Level[n - 1])
  BY <1>4
<1>6. 0 \in 0..Longest
  BY LongestNat
<1> QED
  BY <1>5, <1>6

---------------------------------------------------------------------------
(* The variables keep their types                                          *)

Call == [file: File, text: Text, rest: Seq(Reference)]

CallsOpen == \A k \in DOMAIN stack : stack[k].file \in destinations
TypeInv == TypeOK /\ CallsOpen

LEMMA HostTypes ==
  ASSUME host \in Host, NEW f \in File
  PROVE  KindOf(f) \in Kind /\ Refs(f) \in Seq(Reference) /\ Raw(f) \in Text
BY GitConfigAssumption DEF Host, KindOf, Refs, Raw, Text

LEMMA ProcessedType ==
  ASSUME NEW text \in Text
  PROVE  /\ Processed(text) \in Text
         /\ Processed(text).kind = text.kind /\ Processed(text).refs = text.refs
BY DEF Processed, Text

LEMMA CallsShape ==
  ASSUME stack \in Seq(Call), stack # <<>>, Top.rest # <<>>
  PROVE  /\ Calls \in Seq(Call) /\ Calls # <<>>
         /\ Len(Calls) = Len(stack) /\ DOMAIN Calls = DOMAIN stack
         /\ DOMAIN stack = 1..Len(stack) /\ Len(stack) \in Nat \ {0}
         /\ \A k \in DOMAIN stack : k # Len(stack) => Calls[k] = stack[k]
         /\ Top = stack[Len(stack)] /\ Top \in Call
         /\ Calls[Len(stack)] = [Top EXCEPT !.rest = Rest]
         /\ Rest \in Seq(Reference) /\ Head(Top.rest) \in Reference
         /\ ToSet(Top.rest) = {Head(Top.rest)} \cup ToSet(Rest)
<1>1. Len(stack) \in Nat \ {0} /\ DOMAIN stack = 1..Len(stack)
  BY EmptySeq, LenProperties
<1>2. Top = stack[Len(stack)] /\ Top \in Call
  BY <1>1, ElementOfSeq DEF Top, Last
<1>3. Front(stack) \in Seq(Call) /\ Len(Front(stack)) = Len(stack) - 1
      /\ \A k \in 1..(Len(stack) - 1) : Front(stack)[k] = stack[k]
  BY <1>1, SubSeqProperties DEF Front
<1>4. Rest \in Seq(Reference) /\ Head(Top.rest) \in Reference
  BY <1>2, HeadTailProperties DEF Rest, Call
<1>5. [Top EXCEPT !.rest = Rest] \in Call
  BY <1>2, <1>4 DEF Call
<1>6. /\ Calls \in Seq(Call) /\ Len(Calls) = Len(stack)
      /\ \A k \in 1..(Len(stack) - 1) : Calls[k] = Front(stack)[k]
      /\ Calls[Len(stack)] = [Top EXCEPT !.rest = Rest]
  <2> DEFINE s == Front(stack)
             c == [Top EXCEPT !.rest = Rest]
  <2>1. s \in Seq(Call) /\ Len(s) = Len(stack) - 1 /\ c \in Call /\ Calls = Append(s, c)
    BY <1>3, <1>5 DEF Calls
  <2> HIDE DEF s, c
  <2>2. /\ Append(s, c) \in Seq(Call) /\ Len(Append(s, c)) = Len(s) + 1
        /\ \A k \in 1..Len(s) : Append(s, c)[k] = s[k]
        /\ Append(s, c)[Len(s) + 1] = c
    BY <2>1, AppendProperties
  <2>3. Len(s) + 1 = Len(stack)
    BY <1>1, <2>1
  <2> QED
    BY <2>1, <2>2, <2>3 DEF s, c
<1>7. DOMAIN Calls = DOMAIN stack /\ Calls # <<>>
  BY <1>1, <1>6, LenProperties, EmptySeq
<1>8. ToSet(Top.rest) = {Head(Top.rest)} \cup ToSet(Rest)
  <2>1. Top.rest \in Seq(Reference) /\ Top.rest # <<>>
    BY <1>2 DEF Call
  <2> DEFINE s == Top.rest
  <2>2. /\ Len(s) \in Nat \ {0} /\ DOMAIN s = 1..Len(s) /\ Head(s) = s[1]
        /\ DOMAIN Tail(s) = 1..(Len(s) - 1)
        /\ \A i \in 1..(Len(s) - 1) : Tail(s)[i] = s[i + 1]
    <3> HIDE DEF s
    <3>1. Len(s) \in Nat \ {0} /\ DOMAIN s = 1..Len(s)
      BY <2>1, EmptySeq, LenProperties DEF s
    <3>2. /\ Tail(s) \in Seq(Reference) /\ Len(Tail(s)) = Len(s) - 1
          /\ \A i \in 1..Len(Tail(s)) : Tail(s)[i] = s[i + 1]
      BY <2>1, HeadTailProperties DEF s
    <3> QED
      BY <3>1, <3>2, LenProperties
  <2> HIDE DEF s
  <2>3. ASSUME NEW x \in ToSet(s) PROVE x = Head(s) \/ x \in ToSet(Tail(s))
    <3>1. PICK i \in DOMAIN s : x = s[i]
      BY DEF ToSet
    <3>2. i # 1 => i - 1 \in 1..(Len(s) - 1) /\ (i - 1) + 1 = i
      BY <2>2
    <3>3. i # 1 => x = Tail(s)[i - 1] /\ i - 1 \in DOMAIN Tail(s)
      BY <2>2, <3>1, <3>2
    <3> QED
      BY <2>2, <3>1, <3>3 DEF ToSet
  <2>4. ASSUME NEW x \in ToSet(Tail(s)) PROVE x \in ToSet(s)
    <3>1. PICK i \in DOMAIN Tail(s) : x = Tail(s)[i]
      BY DEF ToSet
    <3>2. x = s[i + 1] /\ i + 1 \in DOMAIN s
      BY <2>2, <3>1
    <3> QED
      BY <3>2 DEF ToSet
  <2>5. Head(s) \in ToSet(s)
    BY <2>2 DEF ToSet
  <2> QED
    BY <2>3, <2>4, <2>5 DEF Rest, s
<1>9. ASSUME NEW k \in DOMAIN stack, k # Len(stack) PROVE Calls[k] = stack[k]
  <2>1. k \in 1..(Len(stack) - 1)
    BY <1>1, <1>9
  <2> QED
    BY <1>3, <1>6, <2>1
<1> QED
  BY <1>1, <1>2, <1>4, <1>6, <1>7, <1>8, <1>9

LEMMA PushShape ==
  ASSUME NEW calls \in Seq(Call), NEW c \in Call
  PROVE  /\ Append(calls, c) \in Seq(Call) /\ Append(calls, c) # <<>>
         /\ Len(Append(calls, c)) = Len(calls) + 1
         /\ DOMAIN Append(calls, c) = DOMAIN calls \cup {Len(calls) + 1}
         /\ \A k \in DOMAIN calls : Append(calls, c)[k] = calls[k]
         /\ Append(calls, c)[Len(calls) + 1] = c
BY AppendProperties, EmptySeq, LenProperties

LEMMA PopShape ==
  ASSUME stack \in Seq(Call), stack # <<>>
  PROVE  /\ Front(stack) \in Seq(Call) /\ Len(Front(stack)) = Len(stack) - 1
         /\ DOMAIN Front(stack) = 1..(Len(stack) - 1) /\ DOMAIN stack = 1..Len(stack)
         /\ Len(stack) \in Nat \ {0} /\ Len(stack) \in DOMAIN stack
         /\ \A k \in 1..(Len(stack) - 1) : Front(stack)[k] = stack[k]
         /\ Top = stack[Len(stack)] /\ Top \in Call
<1>1. Len(stack) \in Nat \ {0} /\ DOMAIN stack = 1..Len(stack)
  BY EmptySeq, LenProperties
<1>2. Top = stack[Len(stack)] /\ Top \in Call
  BY <1>1, ElementOfSeq DEF Top, Last
<1>3. Front(stack) \in Seq(Call) /\ Len(Front(stack)) = Len(stack) - 1
      /\ \A k \in 1..(Len(stack) - 1) : Front(stack)[k] = stack[k]
  BY <1>1, SubSeqProperties DEF Front
<1> QED
  BY <1>1, <1>2, <1>3, LenProperties

LEMMA PutShape ==
  ASSUME DOMAIN copies \subseteq GuestPath, \A d \in DOMAIN copies : copies[d] \in Text,
         NEW d \in GuestPath, NEW t \in Text
  PROVE  /\ DOMAIN Put(copies, d, t) = DOMAIN copies \cup {d}
         /\ Put(copies, d, t)[d] = t
         /\ \A e \in DOMAIN copies : e # d => Put(copies, d, t)[e] = copies[e]
         /\ \A e \in DOMAIN Put(copies, d, t) : Put(copies, d, t)[e] \in Text
BY DEF Put

LEMMA InitType == Init => TypeInv
<1> SUFFICES ASSUME Init PROVE TypeInv
  OBVIOUS
<1>1. PICK h \in Histories : host = Head(h) /\ ahead = Tail(h)
  BY DEF Init
<1>2. h \in Seq(Host) /\ h # <<>>
  BY <1>1, GitConfigAssumption
<1>3. host \in Host /\ ahead \in Seq(Host)
  BY <1>1, <1>2, HeadTailProperties
<1>4. guest \in [GuestPath -> [text: Text, attempt: Attempt, whole: BOOLEAN] \cup {Nothing}]
  BY DEF Init
<1>5. sets \in [0..MaxAttempts -> SUBSET GuestPath]
  BY DEF Init
<1>6. attempt \in Attempt /\ MaxDepth \in Nat
  BY GitConfigAssumption DEF Init, Attempt
<1>7. stack = <<>> /\ Len(stack) = 0 /\ DOMAIN stack = {}
  BY EmptySeq DEF Init, Fresh
<1>8. copies = <<>> /\ DOMAIN copies = {}
  BY EmptySeq DEF Init, Fresh
<1>9. /\ stack \in Seq([file: File, text: Text, rest: Seq(Reference)])
      /\ Len(stack) <= MaxDepth
  BY <1>6, <1>7
<1> QED
  BY <1>3, <1>4, <1>5, <1>6, <1>7, <1>8, <1>9 DEF Init, Fresh, TypeInv, TypeOK, CallsOpen

(* What the walk leaves alone. *)
Aside == <<host, ahead, steady, github, unchecked, attempt, unpublished, guest, sets>>

(* The variables that the walk assigns. *)
WalkType ==
  /\ phase \in {"start", "walk", "check", "publish"} \cup Over
  /\ stack \in Seq(Call)
  /\ Len(stack) <= MaxDepth /\ (phase = "walk" => stack # <<>>)
  /\ visited \subseteq destinations /\ destinations \subseteq File
  /\ DOMAIN copies \subseteq GuestPath /\ \A d \in DOMAIN copies : copies[d] \in Text
  /\ CallsOpen

LEMMA WalkTypeStep ==
  ASSUME TypeInv, UNCHANGED Aside, WalkType', DOMAIN copies \subseteq DOMAIN copies'
  PROVE  TypeInv'
BY DEF TypeInv, TypeOK, WalkType, Aside, Call

LEMMA VisitType ==
  ASSUME host \in Host, NEW f \in File, NEW calls \in Seq(Call),
         Len(calls) \in Nat, Len(calls) <= MaxDepth,
         \A k \in DOMAIN calls : calls[k].file \in destinations,
         WalkType, Visit(f, calls)
  PROVE  WalkType' /\ copies' = copies
<1>1. CASE Refuse
  BY <1>1 DEF Refuse, WalkType, walkVars, Over, CallsOpen
<1>2. CASE ~Refuse
  <2>1. /\ Len(calls) < MaxDepth
        /\ destinations' = destinations \cup {f}
        /\ stack' = IF f \in visited \/ KindOf(f) = "missing" THEN calls
                    ELSE Append(calls, [file |-> f, text |-> Raw(f), rest |-> Refs(f)])
        /\ phase' = IF stack' = <<>> THEN "check" ELSE "walk"
        /\ UNCHANGED <<visited, copies>>
    BY <1>2 DEF Visit
  <2>2. [file |-> f, text |-> Raw(f), rest |-> Refs(f)] \in Call
    BY HostTypes DEF Call
  <2>3. stack' \in Seq(Call) /\ Len(stack') <= MaxDepth
    BY <2>1, <2>2, PushShape, GitConfigAssumption
  <2>4. CallsOpen'
    BY <2>1, <2>2, PushShape DEF CallsOpen
  <2> QED
    BY <2>1, <2>3, <2>4 DEF WalkType
<1> QED
  BY <1>1, <1>2

LEMMA WalkSteps ==
  ASSUME TypeInv, VisitRoot \/ Follow \/ Return
  PROVE  TypeInv' /\ DOMAIN copies \subseteq DOMAIN copies'
<1>1. WalkType /\ host \in Host
  BY DEF TypeInv, TypeOK, WalkType, Call
<1>2. CASE VisitRoot
  <2>1. <<>> \in Seq(Call) /\ Len(<<>>) = 0 /\ Root \in File /\ DOMAIN <<>> = {}
    BY EmptySeq, GitConfigAssumption
  <2>2. WalkType' /\ copies' = copies
    <3>1. Visit(Root, <<>>) /\ Len(<<>>) <= MaxDepth /\ Len(<<>>) \in Nat
      BY <1>2, <2>1, GitConfigAssumption DEF VisitRoot
    <3>2. \A k \in DOMAIN <<>> : <<>>[k].file \in destinations
      BY <2>1
    <3> QED
      BY <1>1, <2>1, <3>1, <3>2, VisitType
  <2> QED
    BY <1>2, <2>2, WalkTypeStep DEF VisitRoot, Aside
<1>3. CASE Follow
  <2>1. phase = "walk" /\ Top.rest # <<>> /\ UNCHANGED Aside
    BY <1>3 DEF Follow, Aside
  <2>2. stack \in Seq(Call) /\ stack # <<>> /\ Len(stack) <= MaxDepth
    BY <1>1, <2>1 DEF WalkType
  <2>3. /\ Calls \in Seq(Call) /\ Len(Calls) = Len(stack) /\ Len(stack) \in Nat \ {0}
        /\ Calls # <<>>
        /\ \A k \in DOMAIN Calls : Calls[k].file \in destinations
    BY <1>1, <2>1, <2>2, CallsShape DEF WalkType, CallsOpen, Call
  <2> DEFINE ref == Head(Top.rest)
  <2>4. CASE stack' = Calls /\ UNCHANGED <<phase, visited, destinations, copies>>
    BY <1>1, <2>1, <2>2, <2>3, <2>4, WalkTypeStep DEF WalkType, CallsOpen
  <2>5. CASE Refuse
    BY <1>1, <2>1, <2>5, WalkTypeStep DEF Refuse, WalkType, walkVars, Over, CallsOpen
  <2>6. CASE ref.to \in File /\ Visit(ref.to, Calls)
    <3>1. WalkType' /\ copies' = copies
      BY <1>1, <2>2, <2>3, <2>6, VisitType
    <3> QED
      BY <2>1, <3>1, WalkTypeStep
  <2>7. CASE ref.to \in File /\ CopyExcludesFile(ref.to, Calls) /\ ~Refuse
    <3>1. /\ destinations' = destinations \cup {ref.to}
          /\ copies' = IF KindOf(ref.to) = "missing" THEN copies
                       ELSE Put(copies, Dest[ref.to], Raw(ref.to))
          /\ stack' = Calls
          /\ UNCHANGED <<visited, phase>>
      BY <2>7 DEF CopyExcludesFile
    <3>2. Dest[ref.to] \in GuestPath /\ Raw(ref.to) \in Text
      BY <1>1, <2>7, HostTypes DEF GuestPath
    <3>3. /\ DOMAIN copies' \subseteq GuestPath /\ \A d \in DOMAIN copies' : copies'[d] \in Text
          /\ DOMAIN copies \subseteq DOMAIN copies'
      <4>1. DOMAIN copies \subseteq GuestPath /\ \A d \in DOMAIN copies : copies[d] \in Text
        BY <1>1 DEF WalkType
      <4>2. DOMAIN Put(copies, Dest[ref.to], Raw(ref.to)) = DOMAIN copies \cup {Dest[ref.to]}
        BY <4>1, <3>2, PutShape
      <4>3. \A d \in DOMAIN Put(copies, Dest[ref.to], Raw(ref.to)) :
              Put(copies, Dest[ref.to], Raw(ref.to))[d] \in Text
        BY <4>1, <3>2, PutShape
      <4> QED
        BY <3>1, <3>2, <4>1, <4>2, <4>3
    <3>4. WalkType'
      BY <1>1, <2>1, <2>2, <2>3, <2>7, <3>1, <3>3 DEF WalkType, CallsOpen
    <3> QED
      BY <2>1, <3>3, <3>4, WalkTypeStep
  <2> QED
    BY <1>3, <2>4, <2>5, <2>6, <2>7 DEF Follow
<1>4. CASE Return
  <2>1. /\ phase = "walk" /\ UNCHANGED Aside
        /\ copies' = Put(copies, Dest[Top.file], Processed(Top.text))
        /\ visited' = visited \cup {Top.file}
        /\ stack' = Front(stack)
        /\ phase' = IF stack' = <<>> THEN "check" ELSE "walk"
        /\ UNCHANGED destinations
    BY <1>4 DEF Return, Aside
  <2>2. stack \in Seq(Call) /\ stack # <<>> /\ Len(stack) <= MaxDepth
    BY <1>1, <2>1 DEF WalkType
  <2>3. Top.file \in destinations /\ Top.file \in File /\ Top.text \in Text
    BY <1>1, <2>2, PopShape DEF WalkType, CallsOpen, Call
  <2>4. Dest[Top.file] \in GuestPath /\ Processed(Top.text) \in Text
    BY <2>3, ProcessedType DEF GuestPath
  <2>5. /\ DOMAIN copies' \subseteq GuestPath /\ \A d \in DOMAIN copies' : copies'[d] \in Text
        /\ DOMAIN copies \subseteq DOMAIN copies'
    <3>1. DOMAIN copies \subseteq GuestPath /\ \A d \in DOMAIN copies : copies[d] \in Text
      BY <1>1 DEF WalkType
    <3>2. DOMAIN copies' = DOMAIN copies \cup {Dest[Top.file]}
      BY <3>1, <2>1, <2>4, PutShape
    <3>3. \A d \in DOMAIN copies' : copies'[d] \in Text
      BY <3>1, <2>1, <2>4, PutShape
    <3> QED
      BY <2>4, <3>1, <3>2, <3>3
  <2>6. stack' \in Seq(Call) /\ Len(stack') <= MaxDepth /\ CallsOpen'
    BY <1>1, <2>1, <2>2, PopShape, GitConfigAssumption DEF WalkType, CallsOpen
  <2>7. WalkType'
    BY <1>1, <2>1, <2>3, <2>5, <2>6 DEF WalkType
  <2> QED
    BY <2>1, <2>5, <2>7, WalkTypeStep
<1> QED
  BY <1>2, <1>3, <1>4

LEMMA TypeStep == TypeInv /\ [Next]_vars => TypeInv'
<1> SUFFICES ASSUME TypeInv, [Next]_vars PROVE TypeInv'
  OBVIOUS
<1> USE DEF TypeInv, TypeOK, CallsOpen
<1>1. CASE VisitRoot \/ Follow \/ Return
  BY <1>1, WalkSteps
<1>2. CASE Check
  <2>1. Conflicts \in BOOLEAN
    BY DEF Conflicts
  <2>2. CASE Conflicts /\ phase' = "refused" /\ UNCHANGED <<unchecked, unpublished, sets>>
    BY <1>2, <2>2 DEF Check, walkVars, Over
  <2>3. CASE /\ unchecked' = Conflicts
             /\ phase' = IF copies = <<>> THEN "done" ELSE "publish"
             /\ unpublished' = DOMAIN copies
             /\ sets' = [sets EXCEPT ![attempt] = DOMAIN copies]
    <3>1. unchecked' \in BOOLEAN
      BY <2>1, <2>3
    <3> QED
      BY <1>2, <2>3, <3>1 DEF Check, walkVars, Over
  <2> QED
    BY <1>2, <2>2, <2>3 DEF Check
<1>3. ASSUME NEW d \in GuestPath, Publish(d) PROVE TypeInv'
  <2>1. Copy(d, TRUE) \in [text: Text, attempt: Attempt, whole: BOOLEAN]
        /\ Copy(d, FALSE) \in [text: Text, attempt: Attempt, whole: BOOLEAN]
    BY <1>3 DEF Publish, Copy
  <2>2. \E v \in {guest[d], Copy(d, TRUE), Copy(d, FALSE)} :
          guest' = [guest EXCEPT ![d] = v]
    BY <1>3 DEF Publish, Written, CutOff
  <2>3. guest' \in [GuestPath -> [text: Text, attempt: Attempt, whole: BOOLEAN] \cup {Nothing}]
    BY <2>1, <2>2
  <2> QED
    BY <1>3, <2>3 DEF Publish, Written, CutOff, walkVars, Over
<1>4. CASE Interrupted
  BY <1>4 DEF Interrupted, walkVars, Over
<1>5. CASE PrepareAgain
  <2>1. stack' = <<>> /\ Len(stack') = 0 /\ DOMAIN stack' = {} /\ DOMAIN copies' = {}
    BY <1>5, EmptySeq DEF PrepareAgain
  <2>2. attempt' \in Attempt
    BY <1>5, GitConfigAssumption DEF PrepareAgain, Attempt
  <2>3. /\ stack' \in Seq([file: File, text: Text, rest: Seq(Reference)])
        /\ Len(stack') <= MaxDepth
    BY <2>1, GitConfigAssumption
  <2> QED
    BY <1>5, <2>1, <2>2, <2>3 DEF PrepareAgain
<1>6. CASE Edit
  <2>1. host' \in Host /\ ahead' \in Seq(Host)
    BY <1>6, HeadTailProperties DEF Edit
  <2> QED
    BY <1>6, <2>1 DEF Edit, walkVars
<1>7. CASE UNCHANGED vars
  BY <1>7 DEF vars, walkVars
<1> QED
  BY <1>1, <1>2, <1>3, <1>4, <1>5, <1>6, <1>7 DEF Next

---------------------------------------------------------------------------
(* What the host's files refer to                                          *)

Including(f) == [key |-> "include", to |-> f]
Excluding(f) == [key |-> "excludes", to |-> f]

LEMMA ReferenceShape ==
  ASSUME NEW r \in Reference
  PROVE  r = [key |-> r.key, to |-> r.to] /\ r.key \in {"include", "excludes"}
         /\ r.to \in File \cup {"empty", "unsupported"}
BY DEF Reference

LEMMA TargetsOf ==
  ASSUME NEW fs, NEW key, NEW r
  PROVE  r \in Targets(fs, key) <=>
           r.key = key /\ \E f \in fs : KindOf(f) \in Valid /\ r \in ToSet(Refs(f))
BY DEF Targets

LEMMA RootReached == Root \in Level[0] /\ Root \in Configs
<1>1. 0 \in 0..Cardinality(File)
  BY LongestNat DEF Longest
<1> QED
  BY <1>1, LevelDef DEF Configs

LEMMA NextLevel ==
  ASSUME NEW k \in Nat, k < Longest, NEW f \in Level[k], KindOf(f) \in Valid,
         NEW g \in File, Including(g) \in ToSet(Refs(f))
  PROVE  g \in Level[k + 1]
<1>1. k + 1 \in 0..Longest /\ k + 1 # 0 /\ (k + 1) - 1 = k
  BY LongestNat
<1>2. Level[k + 1] = Includes(Level[k])
  BY <1>1, LevelDef
<1>3. Including(g) \in Targets(Level[k], "include") /\ Including(g).to = g
  BY TargetsOf DEF Including
<1> QED
  BY <1>2, <1>3 DEF Includes

LEMMA LevelReached ==
  ASSUME NEW k \in 0..Longest
  PROVE  Level[k] \subseteq Configs
BY DEF Configs, Longest

LEMMA ExcludesReached ==
  ASSUME NEW f \in Configs, KindOf(f) \in Valid, NEW g \in File,
         Excluding(g) \in ToSet(Refs(f))
  PROVE  g \in Excludes
<1>1. Excluding(g) \in Targets(Configs, "excludes") /\ Excluding(g).to = g
  BY TargetsOf DEF Excluding
<1> QED
  BY <1>1 DEF Excludes

(* What the walk covers, if it covers what its files include, is all.      *)
LEMMA ConfigsCovered ==
  ASSUME NEW S, Root \in S,
         \A f \in S : KindOf(f) \in Valid => Includes({f}) \subseteq S
  PROVE  Configs \subseteq S
<1> DEFINE Bad == {n \in 0..Longest : ~(Level[n] \subseteq S)}
<1>1. Bad = {}
  <2>1. SUFFICES ASSUME Bad # {} PROVE FALSE
    OBVIOUS
  <2>2. PICK n \in Bad : \A l \in Bad : n <= l
    <3>1. Bad \in SUBSET Nat
      BY LongestNat
    <3> HIDE DEF Bad
    <3> QED
      BY <2>1, <3>1, LeastElement
  <2>3. n \in 0..Longest /\ ~(Level[n] \subseteq S)
    BY <2>2
  <2>4. n # 0
    BY <2>3, LevelDef
  <2>5. n - 1 \in 0..Longest /\ n - 1 \notin Bad
    <3> HIDE DEF Bad
    <3> QED
      BY <2>2, <2>3, <2>4, LongestNat
  <2>6. Level[n - 1] \subseteq S
    BY <2>5
  <2>7. Level[n] = Includes(Level[n - 1])
    BY <2>3, <2>4, LevelDef
  <2>8. ASSUME NEW g \in Includes(Level[n - 1]) PROVE g \in S
    <3>1. PICK r \in Targets(Level[n - 1], "include") : g = r.to /\ g \in File
      BY DEF Includes
    <3>2. PICK f \in Level[n - 1] :
            /\ KindOf(f) \in Valid
            /\ r \in ToSet(Refs(f))
            /\ r.key = "include"
      BY <3>1, TargetsOf
    <3>3. r \in Targets({f}, "include")
      BY <3>2, TargetsOf
    <3>4. g \in Includes({f})
      BY <3>1, <3>3 DEF Includes
    <3> QED
      BY <2>6, <3>2, <3>4
  <2> QED
    BY <2>3, <2>7, <2>8
<1>2. \A n \in 0..Longest : Level[n] \subseteq S
  BY <1>1
<1> QED
  BY <1>2 DEF Configs, Longest

LEMMA ConfigsFiles == Configs \subseteq File /\ Excludes \subseteq File
<1>1. Configs \subseteq File
  BY ConfigsCovered, GitConfigAssumption DEF Includes
<1> QED
  BY <1>1 DEF Excludes

(* The files below a file are those that it includes, whichever way it is  *)
(* reached.                                                                *)
LEMMA BelowDef ==
  ASSUME NEW f \in File, NEW x
  PROVE  x \in Below(Ident[f]) <=>
           /\ KindOf(f) \in Valid
           /\ \E r \in ToSet(Refs(f)) : r.key = "include" /\ r.to \in File /\ x = Ident[r.to]
<1>1. Ident[f] \in File /\ Ident[Ident[f]] = Ident[f]
  BY GitConfigAssumption
<1>2. KindOf(Ident[f]) = KindOf(f) /\ Refs(Ident[f]) = Refs(f)
  BY <1>1 DEF KindOf, Refs
<1>3. \A r : r \in Targets({Ident[f]}, "include") <=>
               r.key = "include" /\ KindOf(f) \in Valid /\ r \in ToSet(Refs(f))
  BY <1>2, TargetsOf
<1> QED
  BY <1>3 DEF Below

(* A step that leaves the host's files alone leaves all this alone.        *)
LEMMA SameHost ==
  ASSUME host' = host
  PROVE  /\ \A f \in File : KindOf(f)' = KindOf(f) /\ Refs(f)' = Refs(f) /\ Raw(f)' = Raw(f)
         /\ Level' = Level /\ Configs' = Configs /\ Excludes' = Excludes
         /\ Cyclic' = Cyclic /\ Ambiguous' = Ambiguous /\ Unusable' = Unusable
         /\ TooDeep' = TooDeep /\ TwoTexts' = TwoTexts
<1>1. \A f : KindOf(f)' = KindOf(f) /\ Refs(f)' = Refs(f) /\ Raw(f)' = Raw(f)
  BY DEF KindOf, Refs, Raw
<1>2. \A fs, key : Targets(fs, key)' = Targets(fs, key)
  BY <1>1 DEF Targets
<1>3. Level' = Level
  BY DEF Level, Targets, KindOf, Refs
<1>4. Configs' = Configs
  BY <1>3 DEF Configs
<1>5. Excludes' = Excludes
  BY <1>2, <1>4 DEF Excludes
<1>6. Cyclic' = Cyclic
  BY <1>2, <1>4 DEF Cyclic, Below
<1>7. Ambiguous' = Ambiguous /\ TooDeep' = TooDeep
  BY <1>3, <1>4, <1>5 DEF Ambiguous, TooDeep
<1>8. Unusable' = Unusable
  BY <1>1, <1>2, <1>4, <1>5 DEF Unusable
<1>9. TwoTexts' = TwoTexts
  BY <1>1, <1>4, <1>5 DEF TwoTexts, Present, Processed
<1> QED
  BY <1>1, <1>3, <1>4, <1>5, <1>6, <1>7, <1>8, <1>9

---------------------------------------------------------------------------
(* The invariant of the walk                                               *)

(* What a reference that was followed has led to.                          *)
Handled(r) ==
  \/ r.key = "excludes" /\ r.to = "empty"
  \/ /\ r.key = "include" /\ r.to \in destinations
     /\ r.to \in visited \/ KindOf(r.to) = "missing"
  \/ /\ r.key = "excludes" /\ r.to \in destinations
     /\ KindOf(r.to) # "unreadable"
     /\ KindOf(r.to) # "missing" => Dest[r.to] \in DOMAIN copies

(* An active call of visit has followed its references up to the present   *)
(* one, which is the file of the next call if there is one.                *)
CallFollows(k) ==
  LET call == stack[k] IN
  /\ call.file \in Level[k - 1]
  /\ KindOf(call.file) \in Valid /\ call.text = Raw(call.file)
  /\ ToSet(call.rest) \subseteq ToSet(Refs(call.file))
  /\ \A r \in ToSet(Refs(call.file)) :
       \/ r \in ToSet(call.rest) \/ Handled(r)
       \/ k + 1 \in DOMAIN stack /\ r = Including(stack[k + 1].file)
  /\ k + 1 \in DOMAIN stack => Including(stack[k + 1].file) \in ToSet(Refs(call.file))

(* The active calls are a chain of includes from the root, without a file  *)
(* twice.                                                                  *)
CallsDistinct ==
  \A j, k \in DOMAIN stack : Ident[stack[j].file] = Ident[stack[k].file] => j = k
CallsChained ==
  /\ stack # <<>> => stack[1].file = Root
  /\ \A k \in DOMAIN stack : CallFollows(k)
  /\ CallsDistinct

(* A visited file is copied, and all that it refers to was handled.        *)
VisitedComplete ==
  \A f \in visited :
    /\ f \in Configs /\ KindOf(f) \in Valid
    /\ Dest[f] \in DOMAIN copies /\ copies[Dest[f]] = Processed(Raw(f))
    /\ \A r \in ToSet(Refs(f)) : Handled(r)

VisitedAcyclic ==
  \A fs \in SUBSET {Ident[f] : f \in visited} :
    fs # {} => \E f \in fs : Below(f) \cap fs = {}

(* Nothing is copied but what the host's configuration reaches.            *)
DestinationsReached ==
  /\ destinations \subseteq Configs \cup Excludes
  /\ \A f, g \in destinations : Dest[f] = Dest[g] => f = g
CopiesReached ==
  \A d \in DOMAIN copies : \E f \in destinations :
    /\ d = Dest[f] /\ KindOf(f) # "missing"
    /\ \/ f \in visited /\ copies[d] = Processed(Raw(f))
       \/ f \in Excludes /\ copies[d] = Raw(f)

(* The end of the walk: it went through the root.                          *)
RootWalked ==
  stack = <<>> => Root \in destinations /\ (Root \in visited \/ KindOf(Root) = "missing")

Walking ==
  /\ CallsChained /\ VisitedComplete /\ VisitedAcyclic
  /\ DestinationsReached /\ CopiesReached /\ RootWalked

---------------------------------------------------------------------------
(* The calls do not outnumber the files.                                   *)
LEMMA CallsBounded ==
  ASSUME stack \in Seq(Call), CallsDistinct
  PROVE  Len(stack) \in Nat /\ Len(stack) <= Longest /\ DOMAIN stack = 1..Len(stack)
<1> DEFINE n == Len(stack)
           F == [k \in 1..n |-> stack[k].file]
<1>1. n \in Nat /\ DOMAIN stack = 1..n
  BY LenProperties
<1>2. F \in [1..n -> File]
  <2>1. \A k \in 1..n : stack[k] \in Call
    BY <1>1, ElementOfSeq
  <2> QED
    BY <2>1 DEF Call
<1>3. \A j, k \in 1..n : F[j] = F[k] => j = k
  BY <1>1 DEF CallsDistinct
<1>4. IsFiniteSet(1..n) /\ Cardinality(1..n) = n
  <2>1. IsFiniteSet(1..n) /\ Cardinality(1..n) = IF 1 > n THEN 0 ELSE n - 1 + 1
    <3>1. 1 \in Int /\ n \in Int
      BY <1>1
    <3> QED
      BY <3>1, FS_Interval, Zenon
  <2> QED
    BY <1>1, <2>1
<1>5. IsFiniteSet(File) /\ Cardinality(File) \in Nat
  BY GitConfigAssumption, LongestNat DEF Longest
<1>6. ~(Cardinality(File) < n)
  <2> HIDE DEF F, n
  <2>1. SUFFICES ASSUME Cardinality(File) < n PROVE FALSE
    OBVIOUS
  <2>2. Cardinality(File) < Cardinality(1..n)
    BY <2>1, <1>4
  <2>3. \E j, k \in 1..n : j # k /\ F[j] = F[k]
    BY <1>2, <1>4, <1>5, <2>2, FS_PigeonHole
  <2> QED
    BY <1>3, <2>3
<1> QED
  BY <1>1, <1>5, <1>6 DEF Longest

(* A step of the walk that only adds keeps what was handled.               *)
Grows ==
  /\ host' = host
  /\ visited \subseteq visited' /\ destinations \subseteq destinations'
  /\ destinations' \subseteq File
  /\ DOMAIN copies \subseteq DOMAIN copies'

LEMMA HandledStays ==
  ASSUME Grows, NEW r, Handled(r)
  PROVE  Handled(r)'
<1>1. r.to \in destinations => KindOf(r.to)' = KindOf(r.to)
  BY SameHost DEF Grows
<1> QED
  BY <1>1 DEF Handled, Grows

LEMMA VisitedStays ==
  ASSUME TypeInv, Grows, VisitedComplete, visited' = visited,
         \A f \in visited : copies'[Dest[f]] = copies[Dest[f]]
  PROVE  VisitedComplete'
<1>1. \A f \in visited : f \in File
  BY DEF TypeInv, TypeOK
<1>2. ASSUME NEW f \in visited
      PROVE  /\ f \in Configs' /\ KindOf(f)' \in Valid
             /\ Dest[f] \in DOMAIN copies' /\ copies'[Dest[f]] = Processed(Raw(f)')
             /\ \A r \in ToSet(Refs(f)') : Handled(r)'
  <2>1. /\ Configs' = Configs
        /\ KindOf(f)' = KindOf(f)
        /\ Refs(f)' = Refs(f)
        /\ Raw(f)' = Raw(f)
    BY <1>1, SameHost DEF Grows
  <2> QED
    BY <2>1, HandledStays DEF VisitedComplete, Grows
<1> QED
  BY <1>2 DEF VisitedComplete, Processed

LEMMA AcyclicStays ==
  ASSUME host' = host, visited' = visited, VisitedAcyclic
  PROVE  VisitedAcyclic'
<1>1. \A f : Below(f)' = Below(f)
  BY DEF Below, Targets, KindOf, Refs
<1> QED
  BY <1>1 DEF VisitedAcyclic

(* The top call has done with its next reference.                          *)
LEMMA Advances ==
  ASSUME TypeInv, Grows, stack # <<>>, Top.rest # <<>>, CallsChained,
         NEW ref, ref = Head(Top.rest),
         stack' = Calls, Handled(ref)'
  PROVE  CallsChained'
<1>1. stack \in Seq(Call)
  BY DEF TypeInv, TypeOK, Call
<1>2. /\ Calls # <<>> /\ DOMAIN Calls = DOMAIN stack
      /\ DOMAIN stack = 1..Len(stack) /\ Len(stack) \in Nat \ {0}
      /\ \A k \in DOMAIN stack : k # Len(stack) => Calls[k] = stack[k]
      /\ Top = stack[Len(stack)]
      /\ Calls[Len(stack)] = [Top EXCEPT !.rest = Rest] /\ Top \in Call
      /\ ToSet(Top.rest) = {Head(Top.rest)} \cup ToSet(Rest)
  BY <1>1, CallsShape
<1>3. \A k \in DOMAIN stack : Calls[k].file = stack[k].file /\ Calls[k].text = stack[k].text
  BY <1>2 DEF Call
<1>4. ASSUME NEW k \in DOMAIN stack
      PROVE  stack[k].file \in File
  <2>1. stack[k] \in Call
    BY <1>1, <1>2, ElementOfSeq
  <2> QED
    BY <2>1 DEF Call
<1>5. ASSUME NEW k \in DOMAIN stack
      PROVE  CallFollows(k)'
  <2>1. CallFollows(k)
    BY DEF CallsChained
  <2>2. k + 1 \in DOMAIN stack => Calls[k + 1].file = stack[k + 1].file
    BY <1>3
  <2>3. ToSet(Calls[k].rest) \subseteq ToSet(Refs(stack[k].file))
    BY <1>2, <2>1 DEF CallFollows, Call
  <2>4. ASSUME NEW r \in ToSet(Refs(stack[k].file))
        PROVE  \/ r \in ToSet(Calls[k].rest)
               \/ Handled(r)'
               \/ k + 1 \in DOMAIN stack /\ r = Including(Calls[k + 1].file)
    <3>1. \/ r \in ToSet(stack[k].rest) \/ Handled(r)
          \/ k + 1 \in DOMAIN stack /\ r = Including(stack[k + 1].file)
      BY <2>1 DEF CallFollows
    <3>2. CASE k = Len(stack) /\ r \in ToSet(stack[k].rest)
      <4>1. Calls[k].rest = Rest /\ stack[k].rest = Top.rest
        BY <1>2, <3>2 DEF Call
      <4>2. r = Head(Top.rest) \/ r \in ToSet(Rest)
        BY <1>2, <3>2, <4>1
      <4> QED
        BY <4>1, <4>2, <1>2, <3>2
    <3>3. CASE k # Len(stack) /\ r \in ToSet(stack[k].rest)
      BY <1>2, <3>3
    <3> QED
      BY <2>2, <3>1, <3>2, <3>3, HandledStays
  <2>5. /\ Level' = Level
        /\ \A f \in File : KindOf(f)' = KindOf(f) /\ Refs(f)' = Refs(f) /\ Raw(f)' = Raw(f)
    BY SameHost DEF Grows
  <2>6. /\ Calls[k].file = stack[k].file
        /\ Calls[k].text = stack[k].text
        /\ stack[k].file \in File
    BY <1>3, <1>4
  <2> QED
    BY <1>2, <2>1, <2>2, <2>3, <2>4, <2>5, <2>6 DEF CallFollows
<1>6. stack'[1].file = Root /\ CallsDistinct'
  BY <1>2, <1>3 DEF CallsChained, CallsDistinct
<1> QED
  BY <1>2, <1>5, <1>6 DEF CallsChained

---------------------------------------------------------------------------
(* A reference that is followed                                            *)

(* The reference that is followed next, and the file it stands in.         *)
LEMMA TopFollows ==
  ASSUME TypeInv, CallsChained, stack # <<>>, Top.rest # <<>>,
         NEW ref, ref = Head(Top.rest)
  PROVE  /\ Len(stack) \in 1..Longest
         /\ Top.file \in File /\ Top.file \in Configs /\ KindOf(Top.file) \in Valid
         /\ ref \in Reference /\ ref \in ToSet(Refs(Top.file))
         /\ (ref.key = "include" /\ ref.to \in File) =>
              ref = Including(ref.to) /\ ref.to \in Level[Len(stack)] /\ ref.to \in Configs
         /\ (ref.key = "excludes" /\ ref.to \in File) => ref.to \in Excludes
<1>1. stack \in Seq(Call)
  BY DEF TypeInv, TypeOK, Call
<1>2. /\ Len(stack) \in Nat \ {0} /\ DOMAIN stack = 1..Len(stack)
      /\ Top = stack[Len(stack)] /\ Top \in Call
      /\ ref \in Reference /\ ref \in ToSet(Top.rest)
  BY <1>1, CallsShape
<1>3. Len(stack) \in 1..Longest
  BY <1>1, <1>2, CallsBounded, LongestNat DEF CallsChained
<1>4. /\ CallFollows(Len(stack)) /\ Top.file \in File
  BY <1>2 DEF CallsChained, Call
<1>5. /\ Top.file \in Level[Len(stack) - 1] /\ KindOf(Top.file) \in Valid
      /\ ref \in ToSet(Refs(Top.file))
  BY <1>2, <1>4 DEF CallFollows
<1>6. /\ Len(stack) - 1 \in 0..Longest
      /\ Len(stack) - 1 < Longest
      /\ (Len(stack) - 1) + 1 = Len(stack)
  BY <1>3, LongestNat
<1>7. Top.file \in Configs
  BY <1>5, <1>6, LevelReached
<1>8. ASSUME ref.key = "include", ref.to \in File
      PROVE  ref = Including(ref.to) /\ ref.to \in Level[Len(stack)] /\ ref.to \in Configs
  <2>1. ref = Including(ref.to)
    BY <1>2, <1>8, ReferenceShape DEF Including
  <2>2. ref.to \in Level[(Len(stack) - 1) + 1]
    BY <1>5, <1>6, <1>8, <2>1, NextLevel
  <2>3. Len(stack) \in 0..Longest
    BY <1>3
  <2> QED
    BY <1>6, <2>1, <2>2, <2>3, LevelReached
<1>9. ASSUME ref.key = "excludes", ref.to \in File
      PROVE  ref.to \in Excludes
  <2>1. ref = Excluding(ref.to)
    BY <1>2, <1>9, ReferenceShape DEF Excluding
  <2> QED
    BY <1>5, <1>7, <1>9, <2>1, ExcludesReached
<1> QED
  BY <1>2, <1>3, <1>4, <1>5, <1>7, <1>8, <1>9

Cause == Cyclic \/ Ambiguous \/ Unusable \/ TooDeep \/ TwoTexts \/ NotForGitHub

(* Two files with one destination.                                         *)
LEMMA CollisionAmbiguous ==
  ASSUME DestinationsReached, NEW f \in Configs \cup Excludes, Collides(f)
  PROVE  Ambiguous
BY DEF Collides, DestinationsReached, Ambiguous

(* A file that is included below itself.                                   *)
LEMMA ProgressCyclic ==
  ASSUME TypeInv, CallsChained, stack # <<>>, Top.rest # <<>>,
         NEW f \in File, Head(Top.rest) = Including(f), InProgress(f, Calls)
  PROVE  Cyclic
<1>1. stack \in Seq(Call)
  BY DEF TypeInv, TypeOK, Call
<1>2. /\ DOMAIN Calls = DOMAIN stack
      /\ Len(stack) \in Nat \ {0} /\ DOMAIN stack = 1..Len(stack)
      /\ \A k \in DOMAIN stack : k # Len(stack) => Calls[k] = stack[k]
      /\ Top = stack[Len(stack)] /\ Top \in Call
      /\ Calls[Len(stack)] = [Top EXCEPT !.rest = Rest]
  BY <1>1, CallsShape
<1>3. PICK m \in DOMAIN stack : Ident[stack[m].file] = Ident[f]
  BY <1>2 DEF InProgress, Call
<1> DEFINE loop == {k \in DOMAIN stack : m <= k}
           fs == {Ident[stack[k].file] : k \in loop}
<1>4. /\ \A k \in DOMAIN stack : stack[k].file \in File /\ stack[k].file \in Configs
      /\ Len(stack) <= Longest
  <2>1. ASSUME NEW k \in DOMAIN stack
        PROVE  stack[k].file \in File /\ stack[k].file \in Configs
    <3>1. stack[k] \in Call /\ CallFollows(k)
      BY <1>1, <1>2, ElementOfSeq DEF CallsChained
    <3>2. k - 1 \in 0..Longest /\ stack[k].file \in Level[k - 1]
      BY <1>1, <1>2, <3>1, CallsBounded, LongestNat DEF CallFollows, CallsChained
    <3> QED
      BY <3>1, <3>2, LevelReached DEF Call
  <2> QED
    BY <1>1, <2>1, CallsBounded DEF CallsChained
<1>5. fs \in SUBSET {Ident[g] : g \in Configs} /\ fs # {}
  BY <1>3, <1>4, <1>2
<1>6. ASSUME NEW x \in fs PROVE Below(x) \cap fs # {}
  <2>1. PICK k \in loop : x = Ident[stack[k].file]
    OBVIOUS
  <2>2. k \in DOMAIN stack /\ m <= k
    OBVIOUS
  <2>3. CallFollows(k) /\ stack[k].file \in File
    BY <1>4, <2>2 DEF CallsChained
  <2>4. CASE k # Len(stack)
    <3>1. k + 1 \in DOMAIN stack /\ k + 1 \in loop
      BY <1>2, <2>2, <2>4
    <3>2. stack[k + 1].file \in File /\ KindOf(stack[k].file) \in Valid
          /\ Including(stack[k + 1].file) \in ToSet(Refs(stack[k].file))
      BY <1>4, <2>3, <3>1 DEF CallFollows
    <3>3. Ident[stack[k + 1].file] \in Below(Ident[stack[k].file])
      BY <2>3, <3>2, BelowDef DEF Including
    <3>4. Ident[stack[k + 1].file] \in fs
      BY <3>1
    <3> QED
      BY <2>1, <3>3, <3>4
  <2>5. CASE k = Len(stack)
    <3>1. /\ Including(f) \in ToSet(Refs(Top.file))
          /\ KindOf(Top.file) \in Valid
          /\ Top.file \in File
      BY TopFollows
    <3>2. Ident[f] \in Below(Ident[Top.file])
      BY <3>1, BelowDef DEF Including
    <3>3. Ident[f] \in fs
      BY <1>2, <1>3
    <3> QED
      BY <1>2, <2>1, <2>5, <3>2, <3>3
  <2> QED
    BY <2>4, <2>5
<1> QED
  BY <1>5, <1>6 DEF Cyclic

(* What the next include is refused for.                                   *)
LEMMA VisitRefused ==
  ASSUME TypeInv, Walking, stack # <<>>, Top.rest # <<>>,
         NEW f \in File, Head(Top.rest) = Including(f),
         \/ Collides(f)
         \/ Len(Calls) >= MaxDepth
         \/ InProgress(f, Calls)
         \/ f \notin visited /\ KindOf(f) \in {"unreadable", "malformed"}
  PROVE  Cyclic \/ Ambiguous \/ Unusable \/ TooDeep
<1> DEFINE ref == Head(Top.rest)
<1>1. /\ Len(stack) \in 1..Longest
      /\ f \in Level[Len(stack)] /\ f \in Configs
  BY TopFollows DEF Walking, Including
<1>2. CASE Collides(f)
  BY <1>1, <1>2, CollisionAmbiguous DEF Walking
<1>3. CASE Len(Calls) >= MaxDepth
  <2>1. stack \in Seq(Call) /\ Len(stack) <= MaxDepth
    BY DEF TypeInv, TypeOK, Call
  <2>2. Len(Calls) = Len(stack) /\ MaxDepth \in Nat
    BY <2>1, CallsShape, GitConfigAssumption
  <2>3. MaxDepth = Len(stack)
    BY <1>1, <1>3, <2>1, <2>2
  <2> QED
    BY <1>1, <2>3 DEF TooDeep, Longest
<1>4. CASE InProgress(f, Calls)
  BY <1>4, ProgressCyclic DEF Walking
<1>5. CASE KindOf(f) \in {"unreadable", "malformed"}
  BY <1>1, <1>5 DEF Unusable
<1> QED
  BY <1>2, <1>3, <1>4, <1>5

(* An excludes file is refused when it is unusable, or its text is already *)
(* that of a config whose references were rewritten.                       *)
LEMMA ExcludesRefused ==
  ASSUME TypeInv, Walking, NEW f \in Excludes, f \in File,
         \/ Collides(f)
         \/ KindOf(f) = "unreadable"
         \/ KindOf(f) # "missing" /\ Differs(f)
  PROVE  Ambiguous \/ Unusable \/ TwoTexts
<1>1. CASE Collides(f)
  BY <1>1, CollisionAmbiguous DEF Walking
<1>2. CASE KindOf(f) = "unreadable"
  BY <1>2 DEF Unusable
<1>3. CASE ~Collides(f) /\ KindOf(f) # "missing" /\ Differs(f)
  <2>1. Dest[f] \in DOMAIN copies /\ copies[Dest[f]] # Raw(f)
    BY <1>3 DEF Differs
  <2>2. PICK g \in destinations :
          /\ Dest[f] = Dest[g]
          /\ \/ g \in visited /\ copies[Dest[f]] = Processed(Raw(g))
             \/ g \in Excludes /\ copies[Dest[f]] = Raw(g)
    BY <2>1 DEF Walking, CopiesReached
  <2>3. g = f
    BY <1>3, <2>2 DEF Collides
  <2>4. f \in Configs /\ Processed(Raw(f)) # Raw(f)
    BY <2>1, <2>2, <2>3 DEF Walking, VisitedComplete
  <2> QED
    BY <1>3, <2>4 DEF TwoTexts, Present
<1> QED
  BY <1>1, <1>2, <1>3

LEMMA DestinationAdds ==
  ASSUME TypeInv, DestinationsReached, host' = host,
         NEW f \in Configs \cup Excludes, ~Collides(f), destinations' = destinations \cup {f}
  PROVE  DestinationsReached'
<1>1. Configs' = Configs /\ Excludes' = Excludes
  BY SameHost
<1>2. \A g \in destinations : Dest[g] = Dest[f] => g = f
  BY DEF Collides
<1> QED
  BY <1>1, <1>2 DEF DestinationsReached

LEMMA CopiesStay ==
  ASSUME TypeInv, CopiesReached, Grows, UNCHANGED <<copies, visited>>
  PROVE  CopiesReached'
<1>1. ASSUME NEW d \in DOMAIN copies
      PROVE  \E f \in destinations' :
               /\ d = Dest[f] /\ KindOf(f)' # "missing"
               /\ \/ f \in visited' /\ copies'[d] = Processed(Raw(f)')
                  \/ f \in Excludes' /\ copies'[d] = Raw(f)'
  <2>1. PICK f \in destinations :
          /\ d = Dest[f] /\ KindOf(f) # "missing"
          /\ \/ f \in visited /\ copies[d] = Processed(Raw(f))
             \/ f \in Excludes /\ copies[d] = Raw(f)
    BY DEF CopiesReached
  <2>2. f \in File /\ f \in destinations'
    BY DEF TypeInv, TypeOK, Grows
  <2>3. KindOf(f)' = KindOf(f) /\ Raw(f)' = Raw(f) /\ Excludes' = Excludes
    BY <2>2, SameHost DEF Grows
  <2> QED
    BY <2>1, <2>2, <2>3
<1> QED
  BY <1>1 DEF CopiesReached, Processed

(* A reference that leads to no new call.                                  *)
LEMMA FollowOn ==
  ASSUME TypeInv, Walking, Grows, stack # <<>>, Top.rest # <<>>,
         NEW ref, ref = Head(Top.rest), Handled(ref)',
         stack' = Calls, UNCHANGED <<copies, visited>>, DestinationsReached'
  PROVE  Walking'
<1>1. CallsChained' /\ stack' # <<>>
  BY Advances, CallsShape DEF Walking, TypeInv, TypeOK, Call
<1>2. VisitedComplete' /\ VisitedAcyclic' /\ CopiesReached'
  BY VisitedStays, AcyclicStays, CopiesStay DEF Walking, Grows
<1> QED
  BY <1>1, <1>2 DEF Walking, RootWalked

(* An include of a file that was visited or is missing.                    *)
LEMMA FollowKnown ==
  ASSUME TypeInv, Walking, host' = host, stack # <<>>, Top.rest # <<>>,
         NEW f \in File, Head(Top.rest) = Including(f),
         ~Collides(f), f \in visited \/ KindOf(f) = "missing",
         destinations' = destinations \cup {f},
         stack' = Calls, UNCHANGED <<copies, visited>>
  PROVE  Walking'
<1>1. Grows
  BY DEF Grows, TypeInv, TypeOK
<1>2. f \in Configs
  BY TopFollows DEF Walking, Including
<1>3. DestinationsReached'
  BY <1>2, DestinationAdds DEF Walking
<1>4. KindOf(f)' = KindOf(f)
  BY SameHost
<1>5. Handled(Including(f))'
  BY <1>4 DEF Handled, Including
<1> QED
  BY <1>1, <1>3, <1>5, FollowOn

(* A new call: the reference under way is that to the file of this call.   *)
NewCall(f) == [file |-> f, text |-> Raw(f), rest |-> Refs(f)]

LEMMA PushedShape ==
  ASSUME TypeInv, stack # <<>>, Top.rest # <<>>, NEW f \in File
  PROVE  /\ DOMAIN Append(Calls, NewCall(f)) = 1..(Len(stack) + 1)
         /\ Append(Calls, NewCall(f))[Len(stack) + 1] = NewCall(f)
         /\ \A k \in 1..(Len(stack) - 1) : Append(Calls, NewCall(f))[k] = stack[k]
         /\ Append(Calls, NewCall(f))[Len(stack)] = [Top EXCEPT !.rest = Rest]
         /\ Append(Calls, NewCall(f)) # <<>>
         /\ \A k \in DOMAIN stack : Append(Calls, NewCall(f))[k].file = stack[k].file
         /\ \A k \in DOMAIN stack : Append(Calls, NewCall(f))[k].text = stack[k].text
<1>1. stack \in Seq(Call) /\ host \in Host
  BY DEF TypeInv, TypeOK, Call
<1>2. NewCall(f) \in Call
  BY <1>1, HostTypes DEF NewCall, Call
<1>3. /\ Calls \in Seq(Call) /\ DOMAIN Calls = DOMAIN stack /\ Len(Calls) = Len(stack)
      /\ DOMAIN stack = 1..Len(stack) /\ Len(stack) \in Nat \ {0}
      /\ \A k \in DOMAIN stack : k # Len(stack) => Calls[k] = stack[k]
      /\ Calls[Len(stack)] = [Top EXCEPT !.rest = Rest] /\ Top \in Call
      /\ Top = stack[Len(stack)]
  BY <1>1, CallsShape
<1> DEFINE new == Append(Calls, NewCall(f))
<1>4. /\ DOMAIN new = DOMAIN Calls \cup {Len(stack) + 1}
      /\ \A k \in DOMAIN stack : new[k] = Calls[k]
      /\ new[Len(stack) + 1] = NewCall(f) /\ new # <<>>
  BY <1>2, <1>3, PushShape
<1>5. DOMAIN new = 1..(Len(stack) + 1)
  BY <1>3, <1>4
<1>6. \A k \in DOMAIN stack : Calls[k].file = stack[k].file /\ Calls[k].text = stack[k].text
  BY <1>3 DEF Call
<1>7. \A k \in 1..(Len(stack) - 1) : k \in DOMAIN stack /\ k # Len(stack)
  BY <1>3
<1>8. Len(stack) \in DOMAIN stack
  BY <1>3
<1>9. \A k \in 1..(Len(stack) - 1) : new[k] = stack[k]
  BY <1>3, <1>4, <1>7
<1>10. new[Len(stack)] = [Top EXCEPT !.rest = Rest]
  BY <1>3, <1>4, <1>8
<1>11. \A k \in DOMAIN stack : new[k].file = stack[k].file /\ new[k].text = stack[k].text
  BY <1>4, <1>6
<1> QED
  BY <1>4, <1>5, <1>9, <1>10, <1>11

LEMMA FollowNew ==
  ASSUME TypeInv, Walking, host' = host, stack # <<>>, Top.rest # <<>>,
         NEW f \in File, Head(Top.rest) = Including(f),
         ~Collides(f), ~InProgress(f, Calls), KindOf(f) \in Valid,
         destinations' = destinations \cup {f},
         stack' = Append(Calls, NewCall(f)), UNCHANGED <<copies, visited>>
  PROVE  Walking'
<1>1. Grows
  BY DEF Grows, TypeInv, TypeOK
<1>2. /\ f \in Configs /\ f \in Level[Len(stack)] /\ Len(stack) \in 1..Longest
  BY TopFollows DEF Walking, Including
<1>3. DestinationsReached'
  BY <1>2, DestinationAdds DEF Walking
<1>4. VisitedComplete' /\ VisitedAcyclic' /\ CopiesReached'
  BY <1>1, VisitedStays, AcyclicStays, CopiesStay DEF Walking, Grows
<1>5. stack \in Seq(Call)
  BY DEF TypeInv, TypeOK, Call
<1>6. /\ DOMAIN Calls = DOMAIN stack
      /\ DOMAIN stack = 1..Len(stack) /\ Len(stack) \in Nat \ {0}
      /\ \A k \in DOMAIN stack : k # Len(stack) => Calls[k] = stack[k]
      /\ Top = stack[Len(stack)] /\ Top \in Call
      /\ Calls[Len(stack)] = [Top EXCEPT !.rest = Rest]
      /\ ToSet(Top.rest) = {Including(f)} \cup ToSet(Rest)
  BY <1>5, CallsShape
<1>7. /\ DOMAIN stack' = 1..(Len(stack) + 1) /\ stack' # <<>>
      /\ stack'[Len(stack) + 1] = NewCall(f)
      /\ \A k \in 1..(Len(stack) - 1) : stack'[k] = stack[k]
      /\ stack'[Len(stack)] = [Top EXCEPT !.rest = Rest]
      /\ \A k \in DOMAIN stack :
           stack'[k].file = stack[k].file /\ stack'[k].text = stack[k].text
  BY PushedShape
<1>8. /\ Level' = Level
      /\ \A g \in File : KindOf(g)' = KindOf(g) /\ Refs(g)' = Refs(g) /\ Raw(g)' = Raw(g)
  BY SameHost
<1>9. PICK n \in Nat \ {0} :
        /\ n = Len(stack) /\ DOMAIN stack = 1..n /\ DOMAIN stack' = 1..(n + 1)
        /\ stack'[n + 1] = NewCall(f) /\ stack'[n] = [Top EXCEPT !.rest = Rest]
        /\ Top = stack[n] /\ \A k \in 1..(n - 1) : stack'[k] = stack[k]
        /\ \A k \in 1..n : stack'[k].file = stack[k].file
  BY <1>6, <1>7
<1>10. /\ 1 \in 1..n
       /\ n \in 1..n
       /\ n + 1 \in 1..(n + 1)
       /\ n \in 1..(n + 1)
       /\ n + 1 \notin 1..n
  OBVIOUS
<1>11. \A k \in 1..(n + 1) : k \in 1..n \/ k = n + 1
  OBVIOUS
<1>12. CallFollows(n + 1)'
  <2>1. /\ stack'[n + 1].file = f
        /\ stack'[n + 1].text = Raw(f)
        /\ stack'[n + 1].rest = Refs(f)
    BY <1>7, <1>9 DEF NewCall
  <2>2. (n + 1) + 1 \notin DOMAIN stack' /\ (n + 1) - 1 = n
    BY <1>7, <1>9
  <2> QED
    BY <1>2, <1>8, <1>9, <2>1, <2>2 DEF CallFollows
<1>13. CallFollows(n)'
  <2>1. /\ CallFollows(n)
        /\ Top.file \in File
        /\ n \in DOMAIN stack
        /\ n + 1 \notin DOMAIN stack
    BY <1>6, <1>9, <1>10 DEF Walking, CallsChained, Call
  <2>2. /\ stack'[n].file = Top.file /\ stack'[n].text = Top.text /\ stack'[n].rest = Rest
        /\ n + 1 \in DOMAIN stack' /\ stack'[n + 1].file = f
    <3>1. /\ [Top EXCEPT !.rest = Rest].file = Top.file
          /\ [Top EXCEPT !.rest = Rest].text = Top.text
          /\ [Top EXCEPT !.rest = Rest].rest = Rest
      BY <1>6 DEF Call
    <3>2. NewCall(f).file = f
      BY DEF NewCall
    <3> QED
      BY <1>9, <1>10, <3>1, <3>2
  <2>3. /\ Top.file \in Level[n - 1]
        /\ KindOf(Top.file) \in Valid
        /\ Top.text = Raw(Top.file)
        /\ ToSet(Top.rest) \subseteq ToSet(Refs(Top.file))
        /\ \A r \in ToSet(Refs(Top.file)) : r \in ToSet(Top.rest) \/ Handled(r)
    BY <1>6, <1>9, <2>1 DEF CallFollows
  <2>4. \A r \in ToSet(Refs(Top.file)) : r \in ToSet(Rest) \/ Handled(r)' \/ r = Including(f)
    BY <1>1, <1>6, <2>3, HandledStays
  <2>5. /\ ToSet(Rest) \subseteq ToSet(Refs(Top.file))
        /\ Including(f) \in ToSet(Refs(Top.file))
    BY <1>6, <2>3
  <2>6. PICK g \in File : g = Top.file
    BY <2>1
  <2>7. PICK rest : rest = Rest
    OBVIOUS
  <2>8. PICK t : t = Top.text
    OBVIOUS
  <2>9. \A r \in ToSet(Refs(g)) : r \in ToSet(rest) \/ Handled(r)' \/ r = Including(f)
    BY <2>4, <2>6, <2>7
  <2>10. /\ stack'[n].file = g /\ stack'[n].text = t /\ stack'[n].rest = rest
         /\ g \in Level[n - 1] /\ KindOf(g) \in Valid /\ t = Raw(g)
         /\ ToSet(rest) \subseteq ToSet(Refs(g)) /\ Including(f) \in ToSet(Refs(g))
    BY <2>2, <2>3, <2>5, <2>6, <2>7, <2>8
  <2> QED
    BY <1>8, <2>2, <2>9, <2>10 DEF CallFollows
<1>14. ASSUME NEW k \in 1..(n - 1) PROVE CallFollows(k)'
  <2>1. /\ k \in DOMAIN stack /\ k + 1 \in DOMAIN stack
        /\ k \in DOMAIN stack' /\ k + 1 \in DOMAIN stack'
        /\ stack'[k] = stack[k] /\ stack'[k + 1].file = stack[k + 1].file
    <3>1. k \in 1..n /\ k + 1 \in 1..n /\ k \in 1..(n + 1) /\ k + 1 \in 1..(n + 1)
      OBVIOUS
    <3> QED
      BY <1>9, <3>1
  <2>2. CallFollows(k) /\ stack[k].file \in File
    <3>1. stack[k] \in Call
      BY <1>5, <1>6, <2>1, ElementOfSeq
    <3> QED
      BY <2>1, <3>1 DEF Walking, CallsChained, Call
  <2>3. PICK call : call = stack[k]
    OBVIOUS
  <2>4. PICK g : g = stack[k + 1].file
    OBVIOUS
  <2>5. /\ call.file \in Level[k - 1]
        /\ KindOf(call.file) \in Valid /\ call.text = Raw(call.file)
        /\ ToSet(call.rest) \subseteq ToSet(Refs(call.file))
        /\ \A r \in ToSet(Refs(call.file)) :
             r \in ToSet(call.rest) \/ Handled(r)' \/ r = Including(g)
        /\ Including(g) \in ToSet(Refs(call.file)) /\ call.file \in File
    BY <1>1, <2>1, <2>2, <2>3, <2>4, HandledStays DEF CallFollows
  <2>6. stack'[k] = call /\ stack'[k + 1].file = g
    BY <2>1, <2>3, <2>4
  <2> QED
    BY <1>8, <2>1, <2>5, <2>6 DEF CallFollows
<1>15. \A k \in DOMAIN stack' : CallFollows(k)'
  <2>1. \A k \in DOMAIN stack' : k \in 1..(n - 1) \/ k = n \/ k = n + 1
    BY <1>7, <1>9
  <2> QED
    BY <1>12, <1>13, <1>14, <2>1
<1>16. CallsDistinct'
  <2>1. \A k \in DOMAIN stack : Ident[stack[k].file] # Ident[f]
    <3>1. \A k \in DOMAIN stack : Calls[k].file = stack[k].file
      BY <1>6 DEF Call
    <3> QED
      BY <1>6, <3>1 DEF InProgress
  <2>2. \A k \in DOMAIN stack' : k \in DOMAIN stack \/ (k = n + 1 /\ stack'[k].file = f)
    BY <1>9, <1>11 DEF NewCall
  <2> QED
    BY <1>7, <2>1, <2>2 DEF CallsDistinct, Walking, CallsChained
<1>17. stack'[1].file = Root
  BY <1>9, <1>10 DEF Walking, CallsChained
<1> QED
  BY <1>3, <1>4, <1>7, <1>15, <1>16, <1>17 DEF Walking, CallsChained, RootWalked

LEMMA CopiesType ==
  ASSUME TypeInv
  PROVE  /\ DOMAIN copies \subseteq GuestPath /\ \A d \in DOMAIN copies : copies[d] \in Text
         /\ visited \subseteq destinations /\ destinations \subseteq File /\ host \in Host
         /\ stack \in Seq(Call)
BY DEF TypeInv, TypeOK, Call

(* An excludes file is copied as it is, unless it is missing.              *)
LEMMA FollowExcludes ==
  ASSUME TypeInv, Walking, host' = host, stack # <<>>, Top.rest # <<>>,
         NEW f \in File, Head(Top.rest) = Excluding(f),
         ~Collides(f), KindOf(f) # "unreadable", KindOf(f) # "missing" => ~Differs(f),
         destinations' = destinations \cup {f},
         copies' = IF KindOf(f) = "missing" THEN copies ELSE Put(copies, Dest[f], Raw(f)),
         stack' = Calls, visited' = visited
  PROVE  Walking'
<1>1. f \in Excludes
  BY TopFollows DEF Walking, Excluding
<1>2. /\ Dest[f] \in GuestPath /\ Raw(f) \in Text
      /\ DOMAIN copies \subseteq GuestPath /\ \A d \in DOMAIN copies : copies[d] \in Text
      /\ visited \subseteq destinations /\ destinations \subseteq File
  BY CopiesType, HostTypes DEF GuestPath
<1>3. KindOf(f) # "missing" =>
        /\ DOMAIN copies' = DOMAIN copies \cup {Dest[f]} /\ copies'[Dest[f]] = Raw(f)
        /\ \A e \in DOMAIN copies : e # Dest[f] => copies'[e] = copies[e]
  BY <1>2, PutShape
<1>4. Grows
  BY <1>2, <1>3 DEF Grows
<1>5. \A e \in DOMAIN copies : copies'[e] = copies[e]
  BY <1>3 DEF Differs
<1>6. DestinationsReached'
  BY <1>1, DestinationAdds DEF Walking
<1>7. KindOf(f)' = KindOf(f) /\ Raw(f)' = Raw(f) /\ Excludes' = Excludes
      /\ \A g \in File : KindOf(g)' = KindOf(g) /\ Raw(g)' = Raw(g)
  BY SameHost
<1>8. Handled(Excluding(f))'
  BY <1>3, <1>7 DEF Handled, Excluding
<1>9. CallsChained' /\ stack' # <<>>
  BY <1>4, <1>8, Advances, CallsShape DEF Walking, TypeInv, TypeOK, Call
<1>10. VisitedComplete' /\ VisitedAcyclic'
  BY <1>4, <1>5, VisitedStays, AcyclicStays DEF Walking, VisitedComplete
<1>11. ASSUME NEW d \in DOMAIN copies'
       PROVE  \E g \in destinations' :
                /\ d = Dest[g] /\ KindOf(g)' # "missing"
                /\ \/ g \in visited' /\ copies'[d] = Processed(Raw(g)')
                   \/ g \in Excludes' /\ copies'[d] = Raw(g)'
  <2>1. CASE d \in DOMAIN copies
    <3>1. PICK g \in destinations :
            /\ d = Dest[g] /\ KindOf(g) # "missing"
            /\ \/ g \in visited /\ copies[d] = Processed(Raw(g))
               \/ g \in Excludes /\ copies[d] = Raw(g)
      BY <2>1 DEF Walking, CopiesReached
    <3> QED
      BY <1>2, <1>5, <1>7, <2>1, <3>1
  <2>2. CASE d \notin DOMAIN copies
    <3>1. d = Dest[f] /\ copies'[d] = Raw(f) /\ KindOf(f) # "missing" /\ f \in destinations'
      BY <1>3, <2>2
    <3> QED
      BY <1>1, <1>7, <3>1
  <2> QED
    BY <2>1, <2>2
<1>12. CopiesReached'
  BY <1>11 DEF CopiesReached, Processed
<1> QED
  BY <1>6, <1>9, <1>10, <1>12 DEF Walking, RootWalked

(* A visit that ends: the file is copied, and its caller goes on.          *)
LEMMA ReturnWalks ==
  ASSUME TypeInv, Walking, stack # <<>>, Return
  PROVE  Walking'
<1>1. /\ Top.rest = <<>> /\ host' = host /\ destinations' = destinations
      /\ copies' = Put(copies, Dest[Top.file], Processed(Top.text))
      /\ visited' = visited \cup {Top.file} /\ stack' = Front(stack)
  BY DEF Return
<1>2. PICK n \in Nat \ {0} :
        /\ n = Len(stack) /\ DOMAIN stack = 1..n /\ DOMAIN stack' = 1..(n - 1)
        /\ \A k \in 1..(n - 1) : stack'[k] = stack[k]
        /\ Top = stack[n] /\ Top \in Call /\ n \in DOMAIN stack
  BY <1>1, CopiesType, PopShape
<1>3. /\ DOMAIN copies \subseteq GuestPath /\ \A d \in DOMAIN copies : copies[d] \in Text
      /\ visited \subseteq destinations /\ destinations \subseteq File
  BY CopiesType
<1>4. PICK t \in File : t = Top.file /\ t \in destinations
  BY <1>2 DEF Call, TypeInv, CallsOpen
<1>5. Top.text = Raw(t) /\ KindOf(t) \in Valid /\ t \in Level[n - 1] /\ t \in Configs
  <2>1. CallFollows(n)
    BY <1>2 DEF Walking, CallsChained
  <2>2. Top.text = Raw(t) /\ KindOf(t) \in Valid /\ t \in Level[n - 1]
    BY <1>2, <1>4, <2>1 DEF CallFollows
  <2>3. n - 1 \in 0..Longest
    BY <1>2, CopiesType, CallsBounded, LongestNat DEF Walking, CallsChained
  <2> QED
    BY <2>2, <2>3, LevelReached
<1>6. ASSUME NEW r \in ToSet(Refs(t)) PROVE Handled(r)
  <2>1. CallFollows(n) /\ n + 1 \notin DOMAIN stack
    BY <1>2 DEF Walking, CallsChained
  <2>2. ToSet(Top.rest) = {}
    BY <1>1, EmptySeq DEF ToSet
  <2> QED
    BY <1>2, <1>4, <2>1, <2>2 DEF CallFollows
<1>7. /\ DOMAIN copies' = DOMAIN copies \cup {Dest[t]}
      /\ copies'[Dest[t]] = Processed(Raw(t))
      /\ \A e \in DOMAIN copies : e # Dest[t] => copies'[e] = copies[e]
  <2>1. Dest[t] \in GuestPath /\ Processed(Raw(t)) \in Text
    BY <1>4, CopiesType, HostTypes, ProcessedType DEF GuestPath
  <2>2. copies' = Put(copies, Dest[t], Processed(Raw(t)))
    BY <1>1, <1>4, <1>5
  <2>3. /\ DOMAIN Put(copies, Dest[t], Processed(Raw(t))) = DOMAIN copies \cup {Dest[t]}
        /\ Put(copies, Dest[t], Processed(Raw(t)))[Dest[t]] = Processed(Raw(t))
        /\ \A e \in DOMAIN copies :
             e # Dest[t] => Put(copies, Dest[t], Processed(Raw(t)))[e] = copies[e]
    BY <1>3, <2>1, PutShape
  <2> QED
    BY <2>2, <2>3
<1>8. Grows /\ visited' = visited \cup {t}
  BY <1>1, <1>3, <1>4, <1>7 DEF Grows
<1>9. /\ Level' = Level /\ Configs' = Configs /\ Excludes' = Excludes
      /\ \A g \in File : KindOf(g)' = KindOf(g) /\ Refs(g)' = Refs(g) /\ Raw(g)' = Raw(g)
  BY <1>1, SameHost
<1>10. \A g \in destinations : Dest[g] = Dest[t] => g = t
  BY <1>4 DEF Walking, DestinationsReached
<1>11. VisitedComplete'
  <2>1. ASSUME NEW f \in visited'
        PROVE  /\ f \in Configs' /\ KindOf(f)' \in Valid
               /\ Dest[f] \in DOMAIN copies' /\ copies'[Dest[f]] = Processed(Raw(f)')
               /\ \A r \in ToSet(Refs(f)') : Handled(r)'
    <3>1. f \in File
      BY <1>3, <1>4, <1>8
    <3>2. CASE f = t
      BY <1>5, <1>6, <1>7, <1>8, <1>9, <3>1, <3>2, HandledStays
    <3>3. CASE f # t
      <4>1. f \in visited /\ Dest[f] # Dest[t]
        BY <1>3, <1>8, <1>10, <3>3
      <4>2. /\ f \in Configs /\ KindOf(f) \in Valid
            /\ Dest[f] \in DOMAIN copies /\ copies[Dest[f]] = Processed(Raw(f))
            /\ \A r \in ToSet(Refs(f)) : Handled(r)
        BY <4>1 DEF Walking, VisitedComplete
      <4> QED
        BY <1>7, <1>8, <1>9, <3>1, <4>1, <4>2, HandledStays
    <3> QED
      BY <3>2, <3>3
  <2> QED
    BY <2>1 DEF VisitedComplete, Processed
<1>12. VisitedAcyclic'
  <2>1. SUFFICES ASSUME NEW fs \in SUBSET {Ident[f] : f \in visited'}, fs # {}
                 PROVE  \E x \in fs : Below(x) \cap fs = {}
    <3>1. \A x : Below(x)' = Below(x)
      BY <1>1 DEF Below, Targets, KindOf, Refs
    <3> QED
      BY <2>1, <3>1 DEF VisitedAcyclic
  <2>2. CASE fs \in SUBSET {Ident[f] : f \in visited}
    BY <2>1, <2>2 DEF Walking, VisitedAcyclic
  <2>3. CASE ~(fs \in SUBSET {Ident[f] : f \in visited})
    <3>1. Ident[t] \in fs /\ Ident[t] \notin {Ident[f] : f \in visited}
      BY <1>8, <2>1, <2>3
    <3>2. fs \ {Ident[t]} \in SUBSET {Ident[f] : f \in visited}
      BY <1>8, <2>1
    <3>3. \A x \in fs : \E f \in visited \cup {t} : x = Ident[f]
      BY <1>8
    <3>4. \A f \in visited \cup {t} : f \in File /\ KindOf(f) \in Valid
      BY <1>3, <1>5 DEF Walking, VisitedComplete
    <3>5. ASSUME NEW f \in visited \cup {t}, NEW x \in Below(Ident[f]) \cap fs
          PROVE  x \in {Ident[g] : g \in visited}
      <4>1. f \in File /\ \A r \in ToSet(Refs(f)) : Handled(r)
        BY <1>6, <3>4, <3>5 DEF Walking, VisitedComplete
      <4>2. PICK r \in ToSet(Refs(f)) :
              /\ r.key = "include"
              /\ r.to \in File
              /\ x = Ident[r.to]
        BY <4>1, BelowDef
      <4>3. PICK g \in visited \cup {t} : x = Ident[g]
        BY <3>3
      <4>4. KindOf(r.to) = KindOf(g) /\ KindOf(g) # "missing"
        BY <3>4, <4>2, <4>3 DEF KindOf, Valid
      <4>5. r.to \in visited
        BY <4>1, <4>2, <4>4 DEF Handled
      <4> QED
        BY <4>2, <4>5
    <3>6. CASE Below(Ident[t]) \cap fs = {}
      BY <3>1, <3>6
    <3>7. CASE Below(Ident[t]) \cap fs # {}
      <4>1. fs \ {Ident[t]} # {}
        BY <3>1, <3>5, <3>7
      <4>2. PICK x \in fs \ {Ident[t]} : Below(x) \cap (fs \ {Ident[t]}) = {}
        BY <3>2, <4>1 DEF Walking, VisitedAcyclic
      <4>3. PICK f \in visited : x = Ident[f]
        BY <3>2, <4>2
      <4>4. Ident[t] \notin Below(x) \cap fs
        BY <3>1, <3>5, <4>3
      <4> QED
        BY <4>2, <4>4
    <3> QED
      BY <3>6, <3>7
  <2> QED
    BY <2>2, <2>3
<1>13. CopiesReached'
  <2>1. ASSUME NEW d \in DOMAIN copies'
        PROVE  \E g \in destinations' :
                 /\ d = Dest[g] /\ KindOf(g)' # "missing"
                 /\ \/ g \in visited' /\ copies'[d] = Processed(Raw(g)')
                    \/ g \in Excludes' /\ copies'[d] = Raw(g)'
    <3>1. CASE d = Dest[t]
      BY <1>1, <1>4, <1>5, <1>7, <1>8, <1>9, <3>1 DEF Valid
    <3>2. CASE d # Dest[t]
      <4>1. d \in DOMAIN copies /\ copies'[d] = copies[d]
        BY <1>7, <3>2
      <4>2. PICK g \in destinations :
              /\ d = Dest[g] /\ KindOf(g) # "missing"
              /\ \/ g \in visited /\ copies[d] = Processed(Raw(g))
                 \/ g \in Excludes /\ copies[d] = Raw(g)
        BY <4>1 DEF Walking, CopiesReached
      <4> QED
        BY <1>1, <1>3, <1>8, <1>9, <4>1, <4>2
    <3> QED
      BY <3>1, <3>2
  <2> QED
    BY <2>1 DEF CopiesReached, Processed
<1>14. DestinationsReached'
  BY <1>1, <1>9 DEF Walking, DestinationsReached
<1>15. ASSUME NEW k \in DOMAIN stack' PROVE CallFollows(k)'
  <2>1. k \in 1..(n - 1) /\ k \in DOMAIN stack /\ k + 1 \in DOMAIN stack
        /\ stack'[k] = stack[k] /\ k # n
    BY <1>2
  <2>2. CallFollows(k) /\ stack[k] \in Call
    BY <2>1, CopiesType, ElementOfSeq, <1>2 DEF Walking, CallsChained
  <2>3. PICK call \in Call : call = stack[k]
    BY <2>2
  <2>4. /\ call.file \in Level[k - 1]
        /\ KindOf(call.file) \in Valid /\ call.text = Raw(call.file)
        /\ ToSet(call.rest) \subseteq ToSet(Refs(call.file)) /\ call.file \in File
    BY <2>2, <2>3 DEF CallFollows, Call
  <2>5. k + 1 \in DOMAIN stack' => stack'[k + 1] = stack[k + 1]
    BY <1>2
  <2>6. k + 1 \in DOMAIN stack' => Including(stack'[k + 1].file) \in ToSet(Refs(call.file))
    BY <2>1, <2>2, <2>3, <2>5 DEF CallFollows
  <2>7. ASSUME NEW r \in ToSet(Refs(call.file))
        PROVE  \/ r \in ToSet(call.rest)
               \/ Handled(r)'
               \/ k + 1 \in DOMAIN stack' /\ r = Including(stack'[k + 1].file)
    <3>1. \/ r \in ToSet(call.rest) \/ Handled(r)
          \/ r = Including(stack[k + 1].file)
      BY <2>2, <2>3 DEF CallFollows
    <3>2. CASE k + 1 \in DOMAIN stack'
      BY <1>8, <2>5, <3>1, <3>2, HandledStays
    <3>3. CASE k + 1 \notin DOMAIN stack' /\ r = Including(stack[k + 1].file)
      <4>1. k + 1 = n
        BY <1>2, <2>1, <3>3
      <4>2. r = Including(t)
        BY <1>2, <1>4, <3>3, <4>1
      <4>3. Handled(r)'
        BY <1>1, <1>4, <1>8, <4>2 DEF Handled, Including
      <4> QED
        BY <4>3
    <3> QED
      BY <1>8, <3>1, <3>2, <3>3, HandledStays
  <2> QED
    BY <1>9, <2>1, <2>3, <2>4, <2>6, <2>7 DEF CallFollows
<1>16. CallsChained'
  <2>1. \A k \in DOMAIN stack' : k \in DOMAIN stack /\ stack'[k] = stack[k]
    BY <1>2
  <2>2. CallsDistinct'
    BY <2>1 DEF Walking, CallsChained, CallsDistinct
  <2>3. stack' # <<>> => stack'[1].file = Root
    <3>1. stack' # <<>> => 1 \in DOMAIN stack'
      BY <1>1, <1>2, CopiesType, PopShape, EmptySeq
    <3> QED
      BY <2>1, <3>1 DEF Walking, CallsChained
  <2> QED
    BY <1>15, <2>2, <2>3 DEF CallsChained
<1>17. RootWalked'
  <2>1. stack' = <<>> => n = 1
    <3>1. n # 1 => 1 \in 1..(n - 1)
      BY <1>2
    <3>2. stack' = <<>> => DOMAIN stack' = {}
      OBVIOUS
    <3> QED
      BY <1>2, <3>1, <3>2
  <2>2. n = 1 => t = Root
    BY <1>2, <1>4 DEF Walking, CallsChained
  <2> QED
    BY <1>1, <1>4, <1>8, <2>1, <2>2 DEF RootWalked
<1> QED
  BY <1>11, <1>12, <1>13, <1>14, <1>16, <1>17 DEF Walking

---------------------------------------------------------------------------
(* The begin and the end of the walk                                       *)

(* The first call of visit.                                                *)
LEMMA RootStart ==
  ASSUME TypeInv, stack = <<>>, visited = {}, destinations = {}, copies = <<>>,
         VisitRoot, ~Refuse
  PROVE  Walking'
<1>1. /\ host' = host /\ destinations' = {Root} /\ visited' = {} /\ copies' = <<>>
      /\ stack' = IF KindOf(Root) = "missing" THEN <<>> ELSE Append(<<>>, NewCall(Root))
      /\ KindOf(Root) \in Valid \cup {"missing"}
  BY DEF VisitRoot, Visit, NewCall
<1>2. /\ Level' = Level /\ Configs' = Configs /\ Excludes' = Excludes /\ Root \in File
      /\ \A g \in File : KindOf(g)' = KindOf(g) /\ Refs(g)' = Refs(g) /\ Raw(g)' = Raw(g)
  BY <1>1, SameHost, GitConfigAssumption
<1>3. DestinationsReached'
  BY <1>1, <1>2, RootReached DEF DestinationsReached
<1>4. VisitedComplete' /\ VisitedAcyclic'
  BY <1>1 DEF VisitedComplete, VisitedAcyclic
<1>5. CopiesReached'
  BY <1>1, EmptySeq DEF CopiesReached
<1>6. CASE KindOf(Root) = "missing"
  <2>1. stack' = <<>> /\ DOMAIN stack' = {}
    BY <1>1, <1>6, EmptySeq
  <2>2. CallsChained'
    BY <2>1 DEF CallsChained, CallsDistinct
  <2>3. RootWalked'
    BY <1>1, <1>2, <1>6 DEF RootWalked
  <2> QED
    BY <1>3, <1>4, <1>5, <2>2, <2>3 DEF Walking
<1>7. CASE KindOf(Root) \in Valid
  <2>1. NewCall(Root) \in Call
    BY <1>2, CopiesType, HostTypes DEF NewCall, Call
  <2>2. /\ stack' # <<>> /\ DOMAIN stack' = {1} /\ stack'[1] = NewCall(Root)
    <3>1. <<>> \in Seq(Call) /\ Len(<<>>) = 0 /\ DOMAIN <<>> = {}
      BY EmptySeq
    <3>2. stack' = Append(<<>>, NewCall(Root))
      BY <1>1, <1>7 DEF Valid
    <3>3. /\ DOMAIN Append(<<>>, NewCall(Root)) = DOMAIN <<>> \cup {Len(<<>>) + 1}
          /\ Append(<<>>, NewCall(Root))[Len(<<>>) + 1] = NewCall(Root)
          /\ Append(<<>>, NewCall(Root)) # <<>>
      BY <2>1, <3>1, PushShape
    <3> QED
      BY <3>1, <3>2, <3>3
  <2>3. stack'[1].file = Root /\ stack'[1].text = Raw(Root) /\ stack'[1].rest = Refs(Root)
    BY <2>2 DEF NewCall
  <2>4. 1 + 1 \notin DOMAIN stack' /\ 1 - 1 = 0
    BY <2>2
  <2>5. CallFollows(1)'
    BY <1>2, <1>7, <2>3, <2>4, RootReached DEF CallFollows
  <2>6. CallsChained'
    BY <2>2, <2>3, <2>5 DEF CallsChained, CallsDistinct
  <2> QED
    BY <1>3, <1>4, <1>5, <2>2, <2>6 DEF Walking, RootWalked
<1> QED
  BY <1>1, <1>6, <1>7

(* A root that cannot be used is the only cause to refuse at the start.    *)
LEMMA RootRefused ==
  ASSUME TypeInv, stack = <<>>, visited = {}, destinations = {},
         VisitRoot, phase' = "refused"
  PROVE  Unusable
<1>1. DOMAIN <<>> = {} /\ Len(<<>>) = 0 /\ MaxDepth \in Nat \ {0}
  BY EmptySeq, GitConfigAssumption
<1>2. ~Collides(Root) /\ ~(Len(<<>>) >= MaxDepth) /\ ~InProgress(Root, <<>>)
  BY <1>1 DEF Collides, InProgress
<1>3. KindOf(Root) \in {"unreadable", "malformed"}
  BY <1>2 DEF VisitRoot, Visit
<1> QED
  BY <1>3, RootReached DEF Unusable

(* What the walk of files that nobody edited has copied when it ends.      *)
AllCopied ==
  /\ ~Cyclic /\ ~Ambiguous /\ ~Unusable
  /\ DOMAIN copies = {Dest[f] : f \in Present(Configs \cup Excludes)}
  /\ \A f \in Present(Configs) : copies[Dest[f]] = Processed(Raw(f))
  /\ \A f \in Present(Excludes \ Configs) : copies[Dest[f]] = Raw(f)

LEMMA WalkEnds ==
  ASSUME TypeInv, Walking, stack = <<>>
  PROVE  AllCopied
<1> USE DEF Walking
<1>1. /\ visited \subseteq destinations /\ destinations \subseteq File
  BY CopiesType
<1>2. \A f \in visited : KindOf(f) \in Valid /\ f \in Configs
  BY DEF VisitedComplete
<1> DEFINE Covered == visited \cup {f \in destinations : KindOf(f) = "missing"}
<1>3. Configs \subseteq Covered
  <2>1. Root \in Covered
    BY DEF RootWalked
  <2>2. ASSUME NEW f \in Covered, KindOf(f) \in Valid PROVE Includes({f}) \subseteq Covered
    <3>1. f \in visited
      BY <2>2 DEF Valid
    <3>2. ASSUME NEW g \in Includes({f}) PROVE g \in Covered
      <4>1. PICK r \in Targets({f}, "include") : g = r.to /\ g \in File
        BY DEF Includes
      <4>2. r.key = "include" /\ r \in ToSet(Refs(f))
        BY <4>1, TargetsOf
      <4>3. Handled(r)
        BY <3>1, <4>2 DEF VisitedComplete
      <4> QED
        BY <1>1, <4>1, <4>2, <4>3 DEF Handled
    <3> QED
      BY <3>2
  <2> HIDE DEF Covered
  <2> QED
    BY <2>1, <2>2, ConfigsCovered
<1>4. \A f \in Configs : f \in destinations /\ (f \in visited \/ KindOf(f) = "missing")
  BY <1>1, <1>3
<1>5. ASSUME NEW key, NEW r \in Targets(Configs, key)
      PROVE  r.key = key /\ Handled(r)
  <2>1. PICK f \in Configs : r.key = key /\ KindOf(f) \in Valid /\ r \in ToSet(Refs(f))
    BY TargetsOf
  <2>2. f \in visited
    BY <1>4, <2>1 DEF Valid
  <2> QED
    BY <2>1, <2>2 DEF VisitedComplete
<1>6. ASSUME NEW f \in Excludes
      PROVE  /\ f \in destinations /\ KindOf(f) # "unreadable" /\ f \in File
             /\ KindOf(f) # "missing" => Dest[f] \in DOMAIN copies
  <2>1. PICK r \in Targets(Configs, "excludes") : f = r.to /\ f \in File
    BY DEF Excludes
  <2>2. r.key = "excludes" /\ Handled(r)
    BY <1>5
  <2>3. "empty" \notin File
    BY GitConfigAssumption
  <2> QED
    BY <2>1, <2>2, <2>3 DEF Handled
<1>7. ~Ambiguous
  BY <1>4, <1>6 DEF Ambiguous, DestinationsReached
<1>8. ~Unusable
  <2>1. ~\E f \in Configs : KindOf(f) \in {"unreadable", "malformed"}
    BY <1>2, <1>4 DEF Valid
  <2>2. ~\E f \in Excludes : KindOf(f) = "unreadable"
    BY <1>6
  <2>3. ~\E r \in Targets(Configs, "include") : r.to \notin File
    BY <1>1, <1>5 DEF Handled
  <2>4. ~\E r \in Targets(Configs, "excludes") : r.to = "unsupported"
    <3>1. "unsupported" \notin destinations
      BY <1>1, GitConfigAssumption
    <3> QED
      BY <1>5, <3>1 DEF Handled
  <2> QED
    BY <2>1, <2>2, <2>3, <2>4 DEF Unusable
<1>9. ~Cyclic
  <2>1. SUFFICES ASSUME NEW fs \in SUBSET {Ident[f] : f \in Configs}, fs # {},
                        \A x \in fs : Below(x) \cap fs # {}
                 PROVE  FALSE
    BY DEF Cyclic
  <2>2. ASSUME NEW x \in fs PROVE x \in {Ident[f] : f \in visited}
    <3>1. PICK f \in Configs : x = Ident[f]
      OBVIOUS
    <3>2. f \in File /\ Below(Ident[f]) # {}
      BY <1>1, <1>4, <2>1, <3>1
    <3>3. KindOf(f) \in Valid
      BY <3>2, BelowDef
    <3> QED
      BY <1>4, <3>1, <3>3 DEF Valid
  <2> QED
    BY <2>1, <2>2 DEF VisitedAcyclic
<1>10. \A f \in Present(Configs) :
         copies[Dest[f]] = Processed(Raw(f)) /\ Dest[f] \in DOMAIN copies
  BY <1>4 DEF Present, VisitedComplete
<1>11. ASSUME NEW f \in Present(Excludes \ Configs) PROVE copies[Dest[f]] = Raw(f)
  <2>1. f \in Excludes /\ f \notin Configs /\ KindOf(f) # "missing" /\ f \in destinations
        /\ Dest[f] \in DOMAIN copies
    BY <1>6 DEF Present
  <2>2. PICK g \in destinations :
          /\ Dest[f] = Dest[g]
          /\ \/ g \in visited /\ copies[Dest[f]] = Processed(Raw(g))
             \/ g \in Excludes /\ copies[Dest[f]] = Raw(g)
    BY <2>1 DEF CopiesReached
  <2>3. g = f
    BY <2>1, <2>2 DEF DestinationsReached
  <2> QED
    BY <1>2, <2>1, <2>2, <2>3
<1>12. DOMAIN copies = {Dest[f] : f \in Present(Configs \cup Excludes)}
  <2>1. ASSUME NEW d \in DOMAIN copies
        PROVE  \E f \in Present(Configs \cup Excludes) : d = Dest[f]
    <3>1. PICK f \in destinations : d = Dest[f] /\ KindOf(f) # "missing"
      BY DEF CopiesReached
    <3> QED
      BY <3>1 DEF Present, DestinationsReached
  <2>2. ASSUME NEW f \in Present(Configs \cup Excludes) PROVE Dest[f] \in DOMAIN copies
    BY <1>6, <1>10 DEF Present
  <2> QED
    BY <2>1, <2>2
<1> QED
  BY <1>7, <1>8, <1>9, <1>10, <1>11, <1>12 DEF AllCopied

---------------------------------------------------------------------------
(* The walk is right while nobody edits, a refusal has a cause, and what   *)
(* is no longer unpublished is in the guest.                               *)
Walked == {"check", "publish", "done"}

WalkInv ==
  /\ phase = "start" => stack = <<>> /\ visited = {} /\ destinations = {} /\ copies = <<>>
  /\ steady =>
       /\ phase \in {"walk"} \cup Walked => Walking
       /\ phase \in Walked => stack = <<>>
       /\ phase = "refused" => Cause
  /\ phase \in {"publish", "done"} => unchecked \/ ~Conflicts

Arrived ==
  /\ phase \in {"publish", "done"} =>
       \A d \in DOMAIN copies : d \in unpublished \/ guest[d] = Copy(d, TRUE)
  /\ phase = "done" => unpublished = {}

CopyInv == TypeInv /\ WalkInv /\ Arrived

LEMMA SameCause ==
  ASSUME host' = host, github' = github, Cause
  PROVE  Cause'
<1>1. /\ Configs' = Configs
      /\ Excludes' = Excludes
      /\ Configs \subseteq File
      /\ Excludes \subseteq File
      /\ \A f \in File : KindOf(f)' = KindOf(f)
  BY SameHost, ConfigsFiles
<1>2. NotForGitHub' = NotForGitHub
  BY <1>1 DEF NotForGitHub
<1> QED
  BY <1>2, SameHost DEF Cause

LEMMA VisitRootKeeps ==
  ASSUME CopyInv, VisitRoot
  PROVE  WalkInv' /\ Arrived'
<1>1. /\ phase = "start" /\ UNCHANGED <<host, steady, github>>
      /\ stack = <<>> /\ visited = {} /\ destinations = {} /\ copies = <<>> /\ TypeInv
  BY DEF VisitRoot, CopyInv, WalkInv
<1>2. CASE Refuse
  <2>1. phase' = "refused"
    BY <1>2 DEF Refuse
  <2>2. Cause'
    BY <1>1, <2>1, RootRefused, SameCause DEF Cause
  <2> QED
    BY <2>1, <2>2 DEF WalkInv, Arrived, Walked
<1>3. CASE ~Refuse
  <2>1. Walking' /\ phase' = IF stack' = <<>> THEN "check" ELSE "walk"
    BY <1>1, <1>3, RootStart DEF VisitRoot, Visit
  <2> QED
    BY <2>1 DEF WalkInv, Arrived, Walked
<1> QED
  BY <1>2, <1>3

LEMMA FollowWalks ==
  ASSUME TypeInv, Walking, stack # <<>>, Follow
  PROVE  \/ Refuse /\ Cause
         \/ Walking' /\ phase' = "walk"
<1> DEFINE ref == Head(Top.rest)
<1>1. phase = "walk" /\ Top.rest # <<>> /\ host' = host
  BY DEF Follow
<1>2. /\ ref \in Reference /\ ref \in ToSet(Refs(Top.file))
      /\ Top.file \in Configs /\ KindOf(Top.file) \in Valid
      /\ (ref.key = "include" /\ ref.to \in File) => ref = Including(ref.to)
      /\ (ref.key = "excludes" /\ ref.to \in File) =>
           ref = Excluding(ref.to) /\ ref.to \in Excludes
  BY <1>1, TopFollows, ReferenceShape DEF Walking, Excluding
<1>3. Calls # <<>>
  BY <1>1, CopiesType, CallsShape
<1>4. CASE ref.to = "empty" /\ ref.key = "excludes"
           /\ stack' = Calls /\ UNCHANGED <<phase, visited, destinations, copies>>
  <2>1. Grows
    BY <1>1, <1>4, CopiesType DEF Grows
  <2>2. DestinationsReached'
    BY <1>1, <1>4, SameHost DEF Walking, DestinationsReached
  <2>3. PICK r : r = ref /\ r.to = "empty" /\ r.key = "excludes"
    BY <1>4
  <2>4. Handled(r)'
    BY <2>3 DEF Handled
  <2> QED
    BY <1>1, <1>4, <2>1, <2>2, <2>3, <2>4, FollowOn
<1>5. CASE Refuse /\ ref.to \notin File /\ (ref.key = "excludes" => ref.to = "unsupported")
  <2>1. ref \in Targets(Configs, ref.key) /\ ref.key \in {"include", "excludes"}
    BY <1>2, TargetsOf, ReferenceShape
  <2> QED
    BY <1>5, <2>1 DEF Unusable, Cause
<1>6. CASE ref.to \in File /\ ref.key = "include" /\ Visit(ref.to, Calls)
  <2>1. PICK f \in File : f = ref.to /\ ref = Including(f)
    BY <1>2, <1>6
  <2>2. CASE Refuse
    <3>1. CASE \/ Collides(f)
               \/ Len(Calls) >= MaxDepth
               \/ InProgress(f, Calls)
               \/ f \notin visited /\ KindOf(f) \in {"unreadable", "malformed"}
      BY <1>1, <2>1, <2>2, <3>1, VisitRefused DEF Cause
    <3> QED
      BY <1>6, <2>1, <2>2, <3>1, <1>1 DEF Visit, Refuse
  <2>3. CASE ~Refuse
    <3>1. /\ ~Collides(f) /\ ~InProgress(f, Calls)
          /\ f \in visited \/ KindOf(f) \in Valid \cup {"missing"}
          /\ destinations' = destinations \cup {f}
          /\ stack' = IF f \in visited \/ KindOf(f) = "missing" THEN Calls
                      ELSE Append(Calls, NewCall(f))
          /\ phase' = IF stack' = <<>> THEN "check" ELSE "walk"
          /\ UNCHANGED <<visited, copies>>
      BY <1>6, <2>1, <2>3 DEF Visit, NewCall
    <3>2. CASE f \in visited \/ KindOf(f) = "missing"
      BY <1>1, <1>3, <2>1, <3>1, <3>2, FollowKnown
    <3>3. CASE ~(f \in visited \/ KindOf(f) = "missing")
      BY <1>1, <2>1, <3>1, <3>3, FollowNew, PushedShape
    <3> QED
      BY <3>2, <3>3
  <2> QED
    BY <2>2, <2>3
<1>7. CASE ref.to \in File /\ ref.key = "excludes" /\ CopyExcludesFile(ref.to, Calls)
  <2>1. PICK f \in File : f = ref.to /\ ref = Excluding(f) /\ f \in Excludes
    BY <1>2, <1>7
  <2>2. CASE \/ Collides(f)
             \/ KindOf(f) = "unreadable"
             \/ KindOf(f) # "missing" /\ Differs(f)
    <3>1. Refuse
      BY <1>7, <2>1, <2>2 DEF CopyExcludesFile
    <3> QED
      BY <2>1, <2>2, <3>1, ExcludesRefused DEF Cause
  <2>3. CASE ~(\/ Collides(f)
               \/ KindOf(f) = "unreadable"
               \/ KindOf(f) # "missing" /\ Differs(f))
    <3>1. /\ destinations' = destinations \cup {f}
          /\ copies' = IF KindOf(f) = "missing" THEN copies ELSE Put(copies, Dest[f], Raw(f))
          /\ stack' = Calls /\ visited' = visited /\ phase' = phase
      BY <1>7, <2>1, <2>3 DEF CopyExcludesFile
    <3> QED
      BY <1>1, <2>1, <2>3, <3>1, FollowExcludes
  <2> QED
    BY <2>2, <2>3
<1>8. \/ ref.to = "empty" /\ ref.key = "excludes"
           /\ stack' = Calls /\ UNCHANGED <<phase, visited, destinations, copies>>
      \/ ref.to = "empty" /\ ref.key = "include" /\ Refuse
      \/ ref.to = "unsupported" /\ Refuse
      \/ ref.to \in File /\ ref.key = "include" /\ Visit(ref.to, Calls)
      \/ ref.to \in File /\ ref.key = "excludes" /\ CopyExcludesFile(ref.to, Calls)
  BY DEF Follow
<1> QED
  BY <1>4, <1>5, <1>6, <1>7, <1>8, GitConfigAssumption

LEMMA FollowKeeps ==
  ASSUME CopyInv, Follow
  PROVE  WalkInv' /\ Arrived'
<1>1. phase = "walk" /\ UNCHANGED <<host, steady, github>> /\ TypeInv
  BY DEF Follow, CopyInv
<1>2. stack # <<>> /\ (steady => Walking)
  BY <1>1 DEF CopyInv, WalkInv, TypeInv, TypeOK
<1>3. phase' \in {"walk", "check", "refused"}
  BY <1>1 DEF Follow, Visit, CopyExcludesFile, Refuse
<1>4. CASE ~steady
  BY <1>1, <1>3, <1>4 DEF WalkInv, Arrived
<1>5. CASE steady /\ Refuse /\ Cause
  BY <1>1, <1>5, SameCause DEF WalkInv, Arrived, Refuse, Walked
<1>6. CASE steady /\ Walking' /\ phase' = "walk"
  BY <1>6 DEF WalkInv, Arrived, Walked
<1> QED
  BY <1>1, <1>2, <1>4, <1>5, <1>6, FollowWalks

LEMMA ReturnKeeps ==
  ASSUME CopyInv, Return
  PROVE  WalkInv' /\ Arrived'
<1>1. /\ phase = "walk"
      /\ steady' = steady
      /\ phase' = IF stack' = <<>> THEN "check" ELSE "walk"
  BY DEF Return
<1>2. steady => Walking'
  BY <1>1, ReturnWalks DEF CopyInv, WalkInv, TypeInv, TypeOK
<1> QED
  BY <1>1, <1>2 DEF WalkInv, Arrived, Walked

(* A step that changes neither the host nor the walk.                      *)
LEMMA WalkingStays ==
  ASSUME UNCHANGED <<host, walkVars>>, Walking
  PROVE  Walking'
<1>1. \A f : KindOf(f)' = KindOf(f) /\ Refs(f)' = Refs(f) /\ Raw(f)' = Raw(f)
  BY DEF KindOf, Refs, Raw
<1>2. Level' = Level /\ Configs' = Configs /\ Excludes' = Excludes
  BY SameHost
<1>3. UNCHANGED <<stack, visited, destinations, copies>>
  BY DEF walkVars
<1>4. \A r : Handled(r) => Handled(r)'
  BY <1>1, <1>3 DEF Handled
<1>5. \A k : CallFollows(k) => CallFollows(k)'
  BY <1>1, <1>2, <1>3, <1>4 DEF CallFollows
<1>6. CallsChained'
  BY <1>3, <1>5 DEF Walking, CallsChained, CallsDistinct
<1>7. VisitedComplete'
  BY <1>1, <1>2, <1>3, <1>4 DEF Walking, VisitedComplete, Processed
<1>8. VisitedAcyclic'
  BY <1>3, AcyclicStays DEF Walking
<1>9. DestinationsReached' /\ RootWalked'
  BY <1>1, <1>2, <1>3 DEF Walking, DestinationsReached, RootWalked
<1>10. CopiesReached'
  BY <1>1, <1>2, <1>3 DEF Walking, CopiesReached, Processed
<1> QED
  BY <1>6, <1>7, <1>8, <1>9, <1>10 DEF Walking

LEMMA CheckedKeeps ==
  ASSUME CopyInv, Check
  PROVE  WalkInv' /\ Arrived'
<1>1. /\ phase = "check" /\ UNCHANGED <<host, steady, github>> /\ UNCHANGED walkVars
      /\ \/ Conflicts /\ phase' = "refused"
         \/ /\ unchecked' = Conflicts
            /\ phase' = IF copies = <<>> THEN "done" ELSE "publish"
            /\ unpublished' = DOMAIN copies
  BY DEF Check
<1>2. UNCHANGED <<stack, copies>> /\ Conflicts' = Conflicts
  BY <1>1 DEF walkVars, Conflicts
<1>3. steady => Walking /\ Walking' /\ stack = <<>>
  BY <1>1, WalkingStays DEF CopyInv, WalkInv, Walked
<1>4. steady /\ Conflicts => Cause
  <2>1. SUFFICES ASSUME steady, Conflicts PROVE NotForGitHub
    BY DEF Cause
  <2>2. PICK d \in DOMAIN copies : github /\ copies[d].kind \in RefusedForGitHub
    BY <2>1 DEF Conflicts
  <2>3. PICK f \in destinations : copies[d] \in {Raw(f), Processed(Raw(f))}
    BY <1>3, <2>1 DEF Walking, CopiesReached
  <2>4. f \in File /\ Raw(f) \in Text /\ f \in Configs \cup Excludes
    BY <1>3, <2>1, CopiesType, HostTypes DEF CopyInv, Walking, DestinationsReached
  <2>5. copies[d].kind = KindOf(f)
    BY <2>3, <2>4, ProcessedType DEF Raw
  <2> QED
    BY <2>2, <2>4, <2>5 DEF NotForGitHub
<1>5. Conflicts /\ steady => Cause'
  BY <1>1, <1>4, SameCause
<1>6. copies = <<>> => DOMAIN copies = {}
  BY EmptySeq
<1>7. CASE Conflicts /\ phase' = "refused"
  BY <1>1, <1>2, <1>3, <1>5, <1>7 DEF WalkInv, Arrived, Walked
<1>8. CASE /\ unchecked' = Conflicts
           /\ phase' = IF copies = <<>> THEN "done" ELSE "publish"
           /\ unpublished' = DOMAIN copies
  <2>1. unchecked' \/ ~Conflicts'
    BY <1>2, <1>8
  <2>2. phase' \in {"publish", "done"} /\ DOMAIN copies' = unpublished'
    BY <1>2, <1>8
  <2>3. WalkInv'
    BY <1>2, <1>3, <2>1, <2>2, <1>1 DEF WalkInv, Walked
  <2>4. Arrived'
    BY <1>6, <1>8, <2>2 DEF Arrived
  <2> QED
    BY <2>3, <2>4
<1> QED
  BY <1>1, <1>7, <1>8

LEMMA PublishArrives ==
  ASSUME CopyInv, NEW d \in GuestPath, Publish(d)
  PROVE  WalkInv' /\ Arrived'
<1>1. /\ phase = "publish"
      /\ UNCHANGED <<host, steady, github, unchecked, attempt>>
      /\ UNCHANGED walkVars
      /\ phase' \in {"publish", "done", "failed"}
  BY DEF Publish, Written, CutOff
<1>2. UNCHANGED <<stack, copies>> /\ Conflicts' = Conflicts
  BY <1>1 DEF walkVars, Conflicts
<1>3. WalkInv'
  BY <1>1, <1>2, WalkingStays DEF CopyInv, WalkInv, Walked
<1>4. CASE Written(d, Copy(d, TRUE))
  <2>1. /\ guest' = [guest EXCEPT ![d] = Copy(d, TRUE)] /\ unpublished' = unpublished \ {d}
        /\ phase' = IF unpublished' = {} THEN "done" ELSE "publish"
    BY <1>4 DEF Written
  <2>2. DOMAIN guest = GuestPath
    BY DEF CopyInv, TypeInv, TypeOK
  <2>3. \A e : Copy(e, TRUE)' = Copy(e, TRUE)
    BY <1>1, <1>2 DEF Copy
  <2>4. guest'[d] = Copy(d, TRUE) /\ \A e \in DOMAIN copies : e # d => guest'[e] = guest[e]
    BY <2>1, <2>2 DEF CopyInv, TypeInv, TypeOK
  <2> QED
    BY <1>1, <1>2, <1>3, <2>1, <2>3, <2>4 DEF CopyInv, Arrived
<1>5. CASE CutOff(d)
  BY <1>3, <1>5 DEF CutOff, Arrived
<1> QED
  BY <1>4, <1>5 DEF Publish

LEMMA CopyStep == CopyInv /\ [Next]_vars => CopyInv'
<1> SUFFICES ASSUME CopyInv, [Next]_vars PROVE WalkInv' /\ Arrived'
  BY TypeStep DEF CopyInv
<1>1. CASE VisitRoot
  BY <1>1, VisitRootKeeps
<1>2. CASE Follow
  BY <1>2, FollowKeeps
<1>3. CASE Return
  BY <1>3, ReturnKeeps
<1>4. CASE Check
  BY <1>4, CheckedKeeps
<1>5. CASE \E d \in GuestPath : Publish(d)
  BY <1>5, PublishArrives
<1>6. CASE Interrupted
  BY <1>6 DEF Interrupted, WalkInv, Arrived, Walked
<1>7. CASE PrepareAgain
  BY <1>7 DEF PrepareAgain, WalkInv, Arrived, Walked
<1>8. CASE Edit
  <2>1. /\ UNCHANGED <<phase, github, unchecked, attempt, unpublished, guest>> /\ UNCHANGED walkVars
        /\ steady' = (phase = "start")
    BY <1>8 DEF Edit
  <2>2. UNCHANGED <<stack, visited, destinations, copies>> /\ Conflicts' = Conflicts
        /\ \A e : Copy(e, TRUE)' = Copy(e, TRUE)
    BY <2>1 DEF walkVars, Conflicts, Copy
  <2> QED
    BY <2>1, <2>2 DEF CopyInv, WalkInv, Arrived, Walked
<1>9. CASE UNCHANGED vars
  <2>1. /\ UNCHANGED <<host, phase, steady, github, unchecked, attempt, unpublished, guest>>
        /\ UNCHANGED walkVars
    BY <1>9 DEF vars
  <2>2. UNCHANGED <<stack, visited, destinations, copies>> /\ Conflicts' = Conflicts
        /\ \A e : Copy(e, TRUE)' = Copy(e, TRUE)
    BY <2>1 DEF walkVars, Conflicts, Copy
  <2>3. (Walking => Walking') /\ (Cause => Cause')
    BY <2>1, WalkingStays, SameCause
  <2> QED
    BY <2>1, <2>2, <2>3 DEF CopyInv, WalkInv, Arrived
<1> QED
  BY <1>1, <1>2, <1>3, <1>4, <1>5, <1>6, <1>7, <1>8, <1>9 DEF Next

LEMMA InitCopy == Init => CopyInv
BY InitType DEF Init, Fresh, CopyInv, WalkInv, Arrived, Walked

(* The variables keep their types.                                         *)
THEOREM TypeCorrect == Spec => []TypeOK
<1>1. CopyInv => TypeOK
  BY DEF CopyInv, TypeInv
<1> QED
  BY InitCopy, CopyStep, <1>1, PTL DEF Spec

(* The walk of visit and copyExcludesFile copies what the host's files     *)
(* reach, or refuses for a cause.                                          *)
THEOREM WalkIsComplete == Spec => []CopiedOrRefused
<1>1. CopyInv => CopiedOrRefused
  BY WalkEnds DEF CopyInv, WalkInv, CopiedOrRefused, AllCopied, Cause, Walked
<1> QED
  BY InitCopy, CopyStep, <1>1, PTL DEF Spec

(* A preparation that succeeds leaves the guest with the host's files.     *)
THEOREM SuccessMeansCopied == Spec => []DoneMeansCopied
<1>1. ASSUME CopyInv PROVE DoneMeansCopied
  <2>1. SUFFICES ASSUME phase = "done" PROVE DoneMeansCopied
    BY DEF DoneMeansCopied
  <2>2. \A d \in DOMAIN copies :
          /\ guest[d] # Nothing /\ guest[d].whole /\ guest[d].text = copies[d]
    <3>1. \A d \in DOMAIN copies : guest[d] = Copy(d, TRUE)
      BY <1>1, <2>1 DEF CopyInv, Arrived
    <3>2. \A d : Copy(d, TRUE).attempt = attempt /\ attempt # 0
      BY <1>1, GitConfigAssumption DEF Copy, CopyInv, TypeInv, TypeOK, Attempt
    <3>3. \A d : Copy(d, TRUE).whole /\ Copy(d, TRUE).text = copies[d]
      BY DEF Copy
    <3>4. Nothing.attempt = 0
      BY DEF Nothing
    <3>5. ASSUME NEW d \in DOMAIN copies PROVE guest[d] # Nothing
      <4>1. guest[d].attempt # 0
        BY <3>1, <3>2
      <4> QED
        BY <3>4, <4>1
    <3> QED
      BY <3>1, <3>3, <3>5
  <2>3. ASSUME steady, NEW f \in Present(Configs \cup Excludes)
        PROVE  LET copy == guest[Dest[f]] IN
               /\ copy # Nothing /\ copy.text.refs = Refs(f)
               /\ unchecked \/ ~(github /\ copy.text.kind \in RefusedForGitHub)
    <3>1. AllCopied
      BY <1>1, <2>1, <2>3, WalkEnds DEF CopyInv, WalkInv, Walked
    <3>2. Dest[f] \in DOMAIN copies /\ copies[Dest[f]] \in {Raw(f), Processed(Raw(f))}
      BY <3>1, <2>3 DEF AllCopied, Present
    <3>3. f \in File /\ Raw(f) \in Text
      BY <1>1, <2>3, ConfigsFiles, CopiesType, HostTypes DEF CopyInv, Present
    <3>4. copies[Dest[f]].refs = Refs(f)
      BY <3>2, <3>3, ProcessedType DEF Raw
    <3>5. unchecked \/ ~Conflicts
      BY <1>1, <2>1 DEF CopyInv, WalkInv
    <3> QED
      BY <2>2, <3>2, <3>4, <3>5 DEF Conflicts
  <2> QED
    BY <2>2, <2>3 DEF DoneMeansCopied
<1> QED
  BY InitCopy, CopyStep, <1>1, PTL DEF Spec

---------------------------------------------------------------------------
(* The root in the guest                                                   *)

(* What the invariant needs of the types: how far preparations are, and    *)
(* that a guest path holds what some preparation up to now has written.    *)
Progress ==
  /\ attempt \in Attempt
  /\ DOMAIN guest = GuestPath
  /\ \A d \in GuestPath : guest[d].attempt \in 0..attempt
  /\ DOMAIN sets = 0..MaxAttempts

(* Every file of the root's preparation was written, then or later.        *)
RootBacked ==
  \A d \in sets[guest[RootPath].attempt] :
    d \in GuestPath /\ guest[d].attempt >= guest[RootPath].attempt

(* Until its turn comes, the root is older than the current preparation.   *)
RootOlder == guest[RootPath].attempt < attempt

(* While files are published, the others of this preparation are written.  *)
OthersWritten ==
  \A d \in sets[attempt] :
    d \in unpublished \/ (d \in GuestPath /\ guest[d].attempt = attempt)

RootInv ==
  /\ Progress
  /\ RootBacked
  /\ phase \in {"start", "walk", "check"} => RootOlder
  /\ phase = "publish" => RootOlder /\ OthersWritten

LEMMA RootIsGuestPath == RootPath \in GuestPath
  BY GitConfigAssumption DEF RootPath, GuestPath

LEMMA RootInit == ASSUME Init PROVE RootInv
<1>1. Progress
  BY GitConfigAssumption DEF Init, Progress, Attempt, Nothing
<1>2. guest[RootPath].attempt = 0
  BY RootIsGuestPath DEF Init, Nothing
<1>3. RootBacked
  BY <1>2, GitConfigAssumption DEF Init, RootBacked
<1>4. RootOlder /\ phase = "start"
  BY <1>2 DEF Init, Fresh, RootOlder
<1> QED
  BY <1>1, <1>3, <1>4 DEF RootInv

(* The walk touches neither the guest nor what was copied before, and it   *)
(* ends before anything is published.                                      *)
LEMMA WalkPhases ==
  ASSUME VisitRoot \/ Follow \/ Return
  PROVE  /\ phase \in {"start", "walk"}
         /\ phase' \in {"walk", "check", "refused"}
         /\ UNCHANGED <<attempt, guest, sets>>
<1>1. CASE VisitRoot
  BY <1>1 DEF VisitRoot, Visit, Refuse
<1>2. CASE Follow
  BY <1>2 DEF Follow, Visit, CopyExcludesFile, Refuse
<1>3. CASE Return
  BY <1>3 DEF Return
<1> QED
  BY <1>1, <1>2, <1>3

(* A step that leaves the guest and the sets alone keeps what is said of   *)
(* them, if it does not begin to publish.                                  *)
LEMMA GuestUntouched ==
  ASSUME RootInv, UNCHANGED <<attempt, guest, sets>>,
         phase' \in {"start", "walk", "check"} => phase \in {"start", "walk", "check"},
         phase' = "publish" => phase = "publish" /\ UNCHANGED unpublished
  PROVE  RootInv'
  BY DEF RootInv, Progress, RootBacked, RootOlder, OthersWritten

(* The check of the copies fixes the set of this preparation.              *)
LEMMA CheckKeeps == ASSUME RootInv, Check PROVE RootInv'
<1>1. phase = "check" /\ UNCHANGED <<attempt, guest>>
  BY DEF Check
<1>2. RootOlder /\ Progress /\ RootBacked
  BY <1>1 DEF RootInv
<1>3. guest[RootPath].attempt # attempt /\ attempt \in 0..MaxAttempts
  BY <1>2, RootIsGuestPath, GitConfigAssumption DEF RootOlder, Progress, Attempt
<1>4. DOMAIN sets' = 0..MaxAttempts
  BY <1>2 DEF Check, Progress
<1>5. sets'[guest[RootPath].attempt] = sets[guest[RootPath].attempt]
  <2>1. guest[RootPath].attempt \in DOMAIN sets
    BY <1>2, RootIsGuestPath, GitConfigAssumption DEF Progress, Attempt
  <2> QED
    BY <1>3, <2>1 DEF Check
<1>6. Progress' /\ RootBacked' /\ RootOlder'
  BY <1>1, <1>2, <1>4, <1>5 DEF Progress, RootBacked, RootOlder
<1>7. phase' = "publish" => OthersWritten'
  <2>1. SUFFICES ASSUME phase' = "publish" PROVE OthersWritten'
    OBVIOUS
  <2>2. unpublished' = DOMAIN copies /\ sets'[attempt] = DOMAIN copies
    BY <2>1, <1>2, <1>3 DEF Check, Progress
  <2> QED
    BY <1>1, <2>2 DEF OthersWritten
<1> QED
  BY <1>6, <1>7 DEF RootInv

(* One file is published, wholly, partly, or not at all.                   *)
LEMMA PublishKeeps == ASSUME RootInv, NEW d \in GuestPath, Publish(d) PROVE RootInv'
<1>1. /\ phase = "publish" /\ d \in unpublished
      /\ d = RootPath => unpublished = {d}
      /\ UNCHANGED <<attempt, sets>>
  BY DEF Publish
<1>2. Progress /\ RootBacked /\ RootOlder /\ OthersWritten
  BY <1>1 DEF RootInv
<1>3. /\ DOMAIN guest' = GuestPath
      /\ \A e \in GuestPath \ {d} : guest'[e] = guest[e]
      /\ guest'[d] = guest[d] \/ guest'[d].attempt = attempt
  <2>1. CASE Written(d, Copy(d, TRUE))
    BY <2>1, <1>2 DEF Written, Copy, Progress
  <2>2. CASE CutOff(d)
    <3>1. PICK v \in {guest[d], Copy(d, TRUE), Copy(d, FALSE)} :
            guest' = [guest EXCEPT ![d] = v]
      BY <2>2 DEF CutOff
    <3>2. v = guest[d] \/ v.attempt = attempt
      BY DEF Copy
    <3> QED
      BY <3>1, <3>2, <1>2 DEF Progress
  <2> QED
    BY <2>1, <2>2 DEF Publish
<1>4. Progress'
  BY <1>1, <1>2, <1>3 DEF Progress, Attempt
<1>5. \A e \in GuestPath :
        guest'[e].attempt = guest[e].attempt \/ guest'[e].attempt = attempt
  BY <1>3
<1>6. \A e \in GuestPath : guest[e].attempt \in Nat /\ guest[e].attempt <= attempt
  BY <1>2 DEF Progress, Attempt
<1>7. attempt \in Nat
  BY <1>2 DEF Progress, Attempt
<1>8. RootBacked'
  <2>1. CASE guest'[RootPath].attempt = guest[RootPath].attempt
    <3>1. guest[RootPath].attempt <= attempt /\ guest[RootPath].attempt \in Nat
      BY <1>6, RootIsGuestPath
    <3>2. ASSUME NEW e \in sets[guest[RootPath].attempt]
          PROVE  e \in GuestPath /\ guest'[e].attempt >= guest[RootPath].attempt
      <4>1. e \in GuestPath /\ guest[e].attempt >= guest[RootPath].attempt
        BY <1>2 DEF RootBacked
      <4> QED
        BY <4>1, <3>1, <1>5, <1>6, <1>7
    <3> QED
      BY <2>1, <3>2, <1>1 DEF RootBacked
  <2>2. CASE guest'[RootPath].attempt # guest[RootPath].attempt
    <3>1. d = RootPath /\ guest'[RootPath].attempt = attempt
      BY <2>2, <1>3, RootIsGuestPath
    <3>2. \A e \in sets[attempt] : e = d \/ (e \in GuestPath /\ guest[e].attempt = attempt)
      BY <3>1, <1>1, <1>2 DEF OthersWritten
    <3>3. \A e \in sets[attempt] : e \in GuestPath /\ guest'[e].attempt = attempt
      BY <3>1, <3>2, <1>3
    <3> QED
      BY <3>1, <3>3, <1>1, <1>7 DEF RootBacked
  <2> QED
    BY <2>1, <2>2
<1>9. phase' \in {"publish", "done", "failed"}
  BY DEF Publish, Written, CutOff
<1>10. phase' = "publish" => RootOlder' /\ OthersWritten'
  <2>1. SUFFICES ASSUME phase' = "publish" PROVE RootOlder' /\ OthersWritten'
    OBVIOUS
  <2>2. Written(d, Copy(d, TRUE))
    BY <2>1 DEF Publish, CutOff
  <2>3. unpublished' = unpublished \ {d} /\ unpublished' # {}
    BY <2>1, <2>2 DEF Written
  <2>4. guest'[d].attempt = attempt
    BY <2>2, <1>2 DEF Written, Copy, Progress
  <2>5. d # RootPath
    BY <2>3, <1>1
  <2>6. RootOlder'
    BY <2>5, <1>1, <1>2, <1>3, RootIsGuestPath DEF RootOlder
  <2>7. OthersWritten'
    BY <2>3, <2>4, <1>1, <1>2, <1>3 DEF OthersWritten
  <2> QED
    BY <2>6, <2>7
<1> QED
  BY <1>4, <1>8, <1>9, <1>10 DEF RootInv

(* The next preparation is newer than all there is.                        *)
LEMMA PrepareAgainKeeps == ASSUME RootInv, PrepareAgain PROVE RootInv'
<1>1. /\ attempt < MaxAttempts /\ attempt' = attempt + 1
      /\ phase' = "start" /\ UNCHANGED <<guest, sets>>
  BY DEF PrepareAgain
<1>2. Progress /\ RootBacked
  BY DEF RootInv
<1>3. attempt \in Nat /\ attempt' \in Attempt
  BY <1>1, <1>2, GitConfigAssumption DEF Progress, Attempt
<1>4. Progress' /\ RootBacked'
  BY <1>1, <1>2, <1>3 DEF Progress, RootBacked
<1>5. RootOlder'
  BY <1>1, <1>2, <1>3, RootIsGuestPath DEF Progress, RootOlder
<1> QED
  BY <1>1, <1>4, <1>5 DEF RootInv

LEMMA RootStep == ASSUME RootInv, [Next]_vars PROVE RootInv'
<1>1. CASE VisitRoot \/ Follow \/ Return
  BY <1>1, WalkPhases, GuestUntouched
<1>2. CASE Check
  BY <1>2, CheckKeeps
<1>3. CASE \E d \in GuestPath : Publish(d)
  BY <1>3, PublishKeeps
<1>4. CASE Interrupted
  BY <1>4, GuestUntouched DEF Interrupted
<1>5. CASE PrepareAgain
  BY <1>5, PrepareAgainKeeps
<1>6. CASE Edit
  BY <1>6, GuestUntouched DEF Edit
<1>7. CASE UNCHANGED vars
  BY <1>7, GuestUntouched DEF vars
<1> QED
  BY <1>1, <1>2, <1>3, <1>4, <1>5, <1>6, <1>7 DEF Next

(* Through any interrupted transfer, repeated preparation and edit, what   *)
(* was copied together with the root in the guest is in the guest.         *)
THEOREM RootAlwaysComplete == Spec => []RootComplete
<1>1. Init => RootInv
  BY RootInit
<1>2. RootInv /\ [Next]_vars => RootInv'
  BY RootStep
<1>3. RootInv => RootComplete
  BY DEF RootInv, RootBacked, RootComplete
<1> QED
  BY <1>1, <1>2, <1>3, PTL DEF Spec
=============================================================================
