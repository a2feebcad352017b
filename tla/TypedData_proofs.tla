--------------------------- MODULE TypedData_proofs ---------------------------
(***************************************************************************)
(* Proofs about TypedData: the walk over the structs that a struct refers  *)
(* to finds all of them and nothing else, for any number of structs and    *)
(* members and however the structs refer to each other.  The inductive     *)
(* invariant, GatherInv, is that of a depth-first search: what is found is *)
(* reachable, and what a found struct refers to is found or still ahead of *)
(* an activation on the stack.                                             *)
(***************************************************************************)
EXTENDS TypedData, TLAPS

\* The class table that is walked has members only.
LEMMA ClassesTyped ==
    ASSUME GatherInv, stage \in Walks
    PROVE  Classes \in Tables
BY DEF GatherInv, RebuiltInv, TypedDataTypeOK, Classes, Walks

LEMMA ClassTyped ==
    ASSUME GatherInv, stage \in Walks, NEW s \in Structs
    PROVE  /\ Classes[s] \in Seq(Members)
           /\ Len(Classes[s]) \in Nat
           /\ DOMAIN Classes[s] = 1..Len(Classes[s])
BY ClassesTyped DEF Tables

\* The activation on top of a stack that is not empty.
LEMMA TopTyped ==
    ASSUME TypedDataTypeOK, stack # << >>
    PROVE  /\ Len(stack) \in Nat /\ Len(stack) > 0
           /\ DOMAIN stack = 1..Len(stack)
           /\ \A k \in 1..Len(stack) :
                 stack[k] \in Frames /\ stack[k].struct \in Structs /\ stack[k].next \in Nat \ {0}
           /\ Top = stack[Len(stack)]
<1>1. stack \in Seq(Frames)
  BY DEF TypedDataTypeOK
<1>2. Len(stack) \in Nat /\ Len(stack) > 0
  BY <1>1
<1>3. ASSUME NEW k \in 1..Len(stack)
      PROVE  stack[k] \in Frames /\ stack[k].struct \in Structs /\ stack[k].next \in Nat \ {0}
  <2>1. stack[k] \in Frames
    BY <1>1
  <2>. QED
    BY <2>1 DEF Frames
<1>. QED
  BY <1>1, <1>2, <1>3 DEF Top

\* The stack when the activation on top has moved on.
LEMMA AdvancedTyped ==
    ASSUME TypedDataTypeOK, stack # << >>
    PROVE  /\ Advanced \in Seq(Frames)
           /\ Len(Advanced) = Len(stack)
           /\ \A k \in 1..Len(stack) :
                 Advanced[k] = IF k = Len(stack) THEN [Top EXCEPT !.next = Top.next + 1]
                               ELSE stack[k]
           /\ \A k \in 1..Len(stack) : Advanced[k].struct = stack[k].struct
           /\ Advanced[Len(stack)].next = Top.next + 1
<1>. DEFINE n == Len(stack)
            f == [Top EXCEPT !.next = Top.next + 1]
<1>1. stack \in Seq(Frames) /\ n \in Nat /\ n > 0 /\ n \in 1..n
  BY TopTyped DEF TypedDataTypeOK
<1>2. Top \in Frames /\ Top.next \in Nat /\ Top = stack[n]
  BY <1>1, TopTyped
<1>3. f \in Frames /\ f.struct = Top.struct /\ f.next = Top.next + 1
  BY <1>2 DEF Frames
<1>4. Advanced = [stack EXCEPT ![n] = f]
  BY <1>2 DEF Advanced
<1>. HIDE DEF f
<1>5. Advanced \in Seq(Frames) /\ Len(Advanced) = n
  BY <1>1, <1>3, <1>4
<1>6. \A k \in 1..n : Advanced[k] = IF k = n THEN f ELSE stack[k]
  BY <1>1, <1>4
<1>. QED
  BY <1>1, <1>2, <1>3, <1>5, <1>6 DEF f

\* An activation that is before member x of struct c after a step.
LEMMA FoundAfter ==
    ASSUME NEW c, NEW x, NEW k,
           stack'[k].struct = c, stack'[k].next = x,
           Classes'[c] = Classes[c],
           \A i \in DOMAIN Classes[c] :
              i < x /\ IsStruct(Classes[c][i]) => Classes[c][i].base \in struct_set'
    PROVE  FoundBefore(stack[k].struct, stack[k].next)'
BY DEF FoundBefore

\* An activation that moves on past a member that is no new struct.
LEMMA SkipStep ==
    ASSUME GatherInv, Visit, stack' = Advanced, UNCHANGED struct_set,
           ~(/\ IsStruct(Classes[Top.struct][Top.next])
             /\ Classes[Top.struct][Top.next].base \notin struct_set)
    PROVE  GatherInv'
<1>0. /\ stage \in Walks /\ stack # << >> /\ TypedDataTypeOK
      /\ Top.next <= Len(Classes[Top.struct])
      /\ UNCHANGED <<schema, likeBasic, stage, signature, types, parsed, rebuilt, resolved>>
  BY DEF Visit, GatherInv
<1>1. TypedDataTypeOK'
  BY <1>0, AdvancedTyped DEF TypedDataTypeOK
<1>2. /\ \A s : Classes'[s] = Classes[s]
      /\ \A C : IsClosed(C)' <=> IsClosed(C)
  BY <1>0 DEF Classes, IsClosed, Refs
<1>3. ASSUME NEW k \in 1..Len(stack)
      PROVE  /\ stack'[k].struct \in struct_set \cup {Root}
             /\ FoundBefore(stack[k].struct, stack[k].next)'
  <2>1. /\ stack[k].struct \in struct_set \cup {Root}
        /\ FoundBefore(stack[k].struct, stack[k].next)
        /\ stack[k].struct \in Structs /\ stack[k].next \in Nat
    BY <1>0, TopTyped DEF GatherInv
  <2>2. CASE k # Len(stack)
    BY SMTT(30), <1>0, <1>2, <2>1, <2>2, AdvancedTyped DEF FoundBefore
  <2>3. CASE k = Len(stack)
    <3>1. Top = stack[k]
      BY <2>3, <1>0, TopTyped
    <3>2. stack'[k].struct = Top.struct /\ stack'[k].next = Top.next + 1
      BY <2>3, <3>1, <1>0, TopTyped, AdvancedTyped
    <3>3. DOMAIN Classes[Top.struct] = 1..Len(Classes[Top.struct])
      BY <1>0, <2>1, <3>1, ClassTyped
    <3>4. \A i \in DOMAIN Classes[Top.struct] :
             i < Top.next + 1 /\ IsStruct(Classes[Top.struct][i])
             => Classes[Top.struct][i].base \in struct_set
      BY <2>1, <3>1, <3>3 DEF FoundBefore
    <3>. QED
      BY <1>0, <1>2, <2>1, <3>1, <3>2, <3>4, FoundAfter
  <2>. QED
    BY <2>2, <2>3
<1>4. ASSUME NEW s \in struct_set \cup {Root} PROVE WalkedOrFound(s)'
  <2>1. DOMAIN stack = 1..Len(stack) /\ DOMAIN stack' = 1..Len(stack)
    BY <1>0, <1>1, TopTyped, AdvancedTyped DEF TypedDataTypeOK
  <2>2. WalkedOrFound(s)
    BY <1>0 DEF GatherInv
  <2>. QED
    BY <1>0, <1>2, <2>1, <2>2, AdvancedTyped DEF WalkedOrFound, FoundBefore
<1>5. DOMAIN stack' = 1..Len(stack)
  BY <1>0, <1>1, TopTyped, AdvancedTyped DEF TypedDataTypeOK
<1>9. RebuiltInv'
  BY <1>0 DEF GatherInv, RebuiltInv, FromSolidityType, Tables
<1>. QED
  BY <1>0, <1>9, <1>1, <1>2, <1>3, <1>4, <1>5 DEF GatherInv, Walks

\* A new struct is added and entered.
LEMMA EnterStep ==
    ASSUME GatherInv, Visit, NEW b, b = Classes[Top.struct][Top.next].base,
           IsStruct(Classes[Top.struct][Top.next]),
           struct_set' = struct_set \cup {b},
           stack' = Append(Advanced, Frame(b))
    PROVE  GatherInv'
<1>0. /\ stage \in Walks /\ stack # << >> /\ TypedDataTypeOK
      /\ Top.next <= Len(Classes[Top.struct])
      /\ UNCHANGED <<schema, likeBasic, stage, signature, types, parsed, rebuilt, resolved>>
      /\ b \in Structs
  BY DEF Visit, GatherInv, IsStruct
<1>. DEFINE n == Len(stack)
<1>1. n \in Nat /\ n > 0 /\ Advanced \in Seq(Frames) /\ Len(Advanced) = n
      /\ Frame(b) \in Frames /\ Frame(b).struct = b /\ Frame(b).next = 1
  BY <1>0, TopTyped, AdvancedTyped DEF Frame, Frames
<1>2. /\ stack' \in Seq(Frames) /\ Len(stack') = n + 1 /\ DOMAIN stack' = 1..(n + 1)
      /\ \A k \in 1..n : stack'[k] = Advanced[k]
      /\ stack'[n + 1] = Frame(b)
  BY SMTT(30), <1>1
<1>3. TypedDataTypeOK'
  BY <1>0, <1>2 DEF TypedDataTypeOK
<1>4. /\ \A s : Classes'[s] = Classes[s]
      /\ \A C : IsClosed(C)' <=> IsClosed(C)
  BY <1>0 DEF Classes, IsClosed, Refs
<1>5. /\ Top.struct \in struct_set \cup {Root} /\ Top.struct \in Structs /\ Top.next \in Nat
      /\ FoundBefore(Top.struct, Top.next)
  <2>1. n \in DOMAIN stack /\ Top = stack[n]
    BY <1>0, <1>1, TopTyped
  <2>. QED
    BY <1>0, <2>1, TopTyped DEF GatherInv
<1>6. ASSUME NEW k \in 1..(n + 1)
      PROVE  /\ stack'[k].struct \in struct_set' \cup {Root}
             /\ FoundBefore(stack[k].struct, stack[k].next)'
  <2>1. CASE k = n + 1
    <3>1. stack'[k].struct = b /\ stack'[k].next = 1
      BY <2>1, <1>1, <1>2
    <3>2. DOMAIN Classes[b] = 1..Len(Classes[b]) /\ Len(Classes[b]) \in Nat
      BY <1>0, ClassTyped
    <3>3. \A i \in DOMAIN Classes[b] : ~(i < 1)
      BY <3>2
    <3>4. FoundBefore(stack[k].struct, stack[k].next)'
      BY <1>4, <3>1, <3>3, FoundAfter
    <3>. QED
      BY <3>1, <3>4
  <2>2. CASE k = n
    <3>1. stack'[k].struct = Top.struct /\ stack'[k].next = Top.next + 1
      <4>1. Top = stack[n] /\ stack'[k] = Advanced[n] /\ n \in 1..n
        BY <2>2, <1>0, <1>1, <1>2, TopTyped
      <4>2. Advanced[n].struct = stack[n].struct /\ Advanced[n].next = Top.next + 1
        BY <4>1, <1>0, AdvancedTyped
      <4>. QED
        BY <4>1, <4>2
    <3>2. DOMAIN Classes[Top.struct] = 1..Len(Classes[Top.struct])
      BY <1>0, <1>5, ClassTyped
    <3>3. \A i \in DOMAIN Classes[Top.struct] :
             i < Top.next + 1 /\ IsStruct(Classes[Top.struct][i])
             => Classes[Top.struct][i].base \in struct_set'
      BY SMTT(30), <1>5, <3>2 DEF FoundBefore
    <3>4. FoundBefore(stack[k].struct, stack[k].next)'
      BY <1>4, <3>1, <3>3, FoundAfter
    <3>. QED
      BY <1>5, <3>1, <3>4
  <2>3. CASE k \in 1..n /\ k # n
    <3>1. stack'[k] = stack[k]
      BY <2>3, <1>0, <1>2, AdvancedTyped
    <3>2. /\ stack[k].struct \in struct_set \cup {Root}
          /\ FoundBefore(stack[k].struct, stack[k].next)
      BY <2>3, <1>0, TopTyped DEF GatherInv
    <3>3. \A i \in DOMAIN Classes[stack[k].struct] :
             i < stack[k].next /\ IsStruct(Classes[stack[k].struct][i])
             => Classes[stack[k].struct][i].base \in struct_set'
      BY <3>2 DEF FoundBefore
    <3>4. FoundBefore(stack[k].struct, stack[k].next)'
      BY <1>4, <3>1, <3>3, FoundAfter
    <3>. QED
      BY <3>1, <3>2, <3>4
  <2>4. k = n + 1 \/ k = n \/ (k \in 1..n /\ k # n)
    <3>1. n \in Nat /\ k \in 1..(n + 1)
      BY <1>1
    <3>. HIDE DEF n
    <3>. QED
      BY <3>1
  <2>. QED
    BY <2>1, <2>2, <2>3, <2>4
<1>7. ASSUME NEW s \in struct_set' \cup {Root} PROVE WalkedOrFound(s)'
  <2>1. CASE s = b
    <3>1. n + 1 \in DOMAIN stack' /\ stack'[n + 1].struct = b
      BY SMTT(30), <1>1, <1>2
    <3>. HIDE DEF n
    <3>. QED
      BY <2>1, <3>1 DEF WalkedOrFound
  <2>2. CASE s \in struct_set \cup {Root}
    <3>1. WalkedOrFound(s)
      BY <2>2, <1>0 DEF GatherInv
    <3>2. CASE FoundBefore(s, Len(Classes[s]) + 1)
      BY <1>4, <3>2 DEF WalkedOrFound, FoundBefore
    <3>3. CASE \E k \in DOMAIN stack : stack[k].struct = s
      <4>1. PICK k \in 1..n : stack[k].struct = s
        BY <3>3, <1>0, TopTyped
      <4>2. stack'[k].struct = s /\ k \in DOMAIN stack'
        <5>1. Advanced[k].struct = stack[k].struct
          BY <4>1, <1>0, AdvancedTyped
        <5>2. k \in 1..(n + 1)
          BY <1>1
        <5>. QED
          BY <4>1, <5>1, <5>2, <1>2
      <4>. QED
        BY <4>2 DEF WalkedOrFound
    <3>. QED
      BY <3>1, <3>2, <3>3 DEF WalkedOrFound
  <2>. QED
    BY <2>1, <2>2
<1>8. ASSUME NEW C \in SUBSET Structs, IsClosed(C) PROVE struct_set' \subseteq C
  <2>1. struct_set \subseteq C
    BY <1>0, <1>8 DEF GatherInv
  <2>2. Top.next \in DOMAIN Classes[Top.struct]
    <3>1. Top.next \in Nat \ {0}
      BY <1>0, <1>1, TopTyped
    <3>. QED
      BY <1>0, <1>5, <3>1, ClassTyped
  <2>3. b \in Refs(Top.struct)
    BY <2>2 DEF Refs
  <2>. QED
    BY <1>5, <1>8, <2>1, <2>3 DEF IsClosed
<1>9. RebuiltInv'
  BY <1>0 DEF GatherInv, RebuiltInv, FromSolidityType, Tables
<1>. QED
  BY <1>0, <1>9, <1>2, <1>3, <1>4, <1>6, <1>7, <1>8 DEF GatherInv, Walks

LEMMA VisitStep ==
    ASSUME GatherInv, Visit
    PROVE  GatherInv'
<1>. DEFINE m == Classes[Top.struct][Top.next]
<1>1. CASE IsStruct(m) /\ m.base \notin struct_set
  BY <1>1, EnterStep DEF Visit, Entered
<1>2. CASE ~(IsStruct(m) /\ m.base \notin struct_set)
  BY <1>2, SkipStep DEF Visit, Skipped
<1>. QED
  BY <1>1, <1>2

LEMMA LeaveStep ==
    ASSUME GatherInv, Leave
    PROVE  GatherInv'
<1>0. /\ stage \in Walks /\ stack # << >> /\ TypedDataTypeOK
      /\ Top.next > Len(Classes[Top.struct])
      /\ stack' = SubSeq(stack, 1, Len(stack) - 1)
      /\ UNCHANGED <<schema, likeBasic, stage, struct_set, signature, types, parsed, rebuilt,
                     resolved>>
  BY DEF Leave, GatherInv
<1>. DEFINE n == Len(stack)
<1>1. /\ n \in Nat /\ n > 0 /\ stack \in Seq(Frames) /\ Top = stack[n]
      /\ DOMAIN stack = 1..n /\ Top.struct \in Structs /\ Top.next \in Nat
  BY <1>0, TopTyped DEF TypedDataTypeOK
<1>2. /\ stack' \in Seq(Frames) /\ Len(stack') = n - 1
      /\ DOMAIN stack' = 1..(n - 1)
      /\ \A k \in 1..(n - 1) : stack'[k] = stack[k]
  BY <1>0, <1>1
<1>3. TypedDataTypeOK'
  BY <1>0, <1>2 DEF TypedDataTypeOK
<1>4. /\ \A s : Classes'[s] = Classes[s]
      /\ \A C : IsClosed(C)' <=> IsClosed(C)
  BY <1>0 DEF Classes, IsClosed, Refs
<1>5. \A k \in DOMAIN stack' :
         /\ stack'[k].struct \in struct_set' \cup {Root}
         /\ FoundBefore(stack[k].struct, stack[k].next)'
  BY <1>0, <1>1, <1>2, <1>4 DEF GatherInv, FoundBefore
<1>6. ASSUME NEW s \in struct_set \cup {Root} PROVE WalkedOrFound(s)'
  <2>0. s \in Structs
    BY <1>0, TypedDataAssumption DEF TypedDataTypeOK
  <2>1. WalkedOrFound(s)
    BY <1>0 DEF GatherInv
  <2>2. CASE FoundBefore(s, Len(Classes[s]) + 1)
    BY <1>0, <1>4, <2>2 DEF WalkedOrFound, FoundBefore
  <2>3. CASE s = Top.struct
    <3>1. FoundBefore(s, Top.next)
      BY <1>0, <1>1, <2>3 DEF GatherInv
    <3>2. DOMAIN Classes[s] = 1..Len(Classes[s]) /\ Len(Classes[s]) \in Nat
      BY <1>0, <2>0, ClassTyped
    <3>3. FoundBefore(s, Len(Classes[s]) + 1)
      BY <1>0, <1>1, <2>3, <3>1, <3>2 DEF FoundBefore
    <3>. QED
      BY <1>0, <1>4, <3>3 DEF WalkedOrFound, FoundBefore
  <2>4. CASE \E k \in 1..n : k # n /\ stack[k].struct = s
    <3>1. PICK k \in 1..n : k # n /\ stack[k].struct = s
      BY <2>4
    <3>2. k \in 1..(n - 1)
      <4>1. n \in Nat
        BY <1>1
      <4>. HIDE DEF n
      <4>. QED
        BY <3>1, <4>1
    <3>3. k \in DOMAIN stack' /\ stack'[k].struct = s
      BY <3>1, <3>2, <1>2
    <3>. QED
      BY <3>3 DEF WalkedOrFound
  <2>. QED
    BY <1>1, <2>1, <2>2, <2>3, <2>4 DEF WalkedOrFound
<1>9. RebuiltInv'
  BY <1>0 DEF GatherInv, RebuiltInv, FromSolidityType, Tables
<1>. QED
  BY <1>0, <1>9, <1>3, <1>4, <1>5, <1>6 DEF GatherInv, Walks

\* A walk that begins.
LEMMA WalkAgainStep ==
    ASSUME TypedDataTypeOK', RebuiltInv', NEW next \in Walks, WalkAgain(next)
    PROVE  GatherInv'
<1>1. stage' = next /\ stack' = << Frame(Root) >> /\ struct_set' = {}
  BY DEF WalkAgain
<1>2. Frame(Root).struct = Root /\ Frame(Root).next = 1
  BY DEF Frame
<1>3. DOMAIN stack' = {1} /\ stack'[1] = Frame(Root)
  BY <1>1
<1>4. Classes'[Root] \in Seq(Members)
  BY <1>1, TypedDataAssumption DEF Classes, TypedDataTypeOK, RebuiltInv, Tables, Walks
<1>5. FoundBefore(Root, 1)'
  BY <1>4 DEF FoundBefore
<1>. QED
  BY <1>1, <1>2, <1>3, <1>5 DEF GatherInv, WalkedOrFound, Walks

LEMMA FrameTyped == << Frame(Root) >> \in Seq(Frames)
BY TypedDataAssumption DEF Frame, Frames

\* A class whose references are set has members only.
LEMMA ReferenceTyped ==
    ASSUME NEW m \in Members
    PROVE  Reference(m) \in Members
BY DEF Members, Reference, OneDimension

LEMMA FromSolidityTyped ==
    ASSUME NEW m \in Members
    PROVE  FromSolidityType(m) \in Members \cup {Placeholder}
BY DEF Members, FromSolidityType, OneDimension

\* What the first pass makes of a class.
LEMMA FirstPassTyped ==
    ASSUME NEW ms \in Seq(Members)
    PROVE  [i \in DOMAIN ms |-> FromSolidityType(ms[i])] \in Seq(Members \cup {Placeholder})
<1>1. Len(ms) \in Nat /\ DOMAIN ms = 1..Len(ms) /\ \A i \in 1..Len(ms) : ms[i] \in Members
  OBVIOUS
<1>2. \A i \in 1..Len(ms) : FromSolidityType(ms[i]) \in Members \cup {Placeholder}
  BY <1>1, FromSolidityTyped
<1>. QED
  BY <1>1, <1>2

\* What the second pass makes of it.
LEMMA SecondPassTyped ==
    ASSUME NEW ms \in Seq(Members), NEW c,
           c = [i \in DOMAIN ms |-> FromSolidityType(ms[i])]
    PROVE  Fulfilled(c, ms) \in Seq(Members)
<1>1. Len(ms) \in Nat /\ DOMAIN ms = 1..Len(ms) /\ \A i \in 1..Len(ms) : ms[i] \in Members
  OBVIOUS
<1>. DEFINE F(i) == IF c[i] = Placeholder THEN Reference(ms[i]) ELSE c[i]
<1>2. ASSUME NEW i \in 1..Len(ms) PROVE F(i) \in Members
  <2>1. c[i] = FromSolidityType(ms[i])
    BY <1>1
  <2>2. c[i] \in Members \cup {Placeholder}
    BY <1>1, <2>1, FromSolidityTyped
  <2>3. Reference(ms[i]) \in Members
    BY <1>1, ReferenceTyped
  <2>. QED
    BY <2>2, <2>3
<1>3. Fulfilled(c, ms) = [i \in 1..Len(ms) |-> F(i)]
  BY <1>1 DEF Fulfilled
<1>. HIDE DEF F
<1>. QED
  BY <1>1, <1>2, <1>3

\* The steps between two walks.
LEMMA ParseStep ==
    ASSUME GatherInv, NEW s \in Structs, Parse(s)
    PROVE  GatherInv'
<1>0. TypedDataTypeOK /\ RebuiltInv /\ s \in types \ parsed /\ stage = "parse"
      /\ UNCHANGED <<schema, likeBasic, struct_set, stack, signature, types, resolved>>
  BY DEF GatherInv, Parse
<1>. DEFINE c == [i \in DOMAIN schema[s] |-> FromSolidityType(schema[s][i])]
<1>1. schema[s] \in Seq(Members)
  BY <1>0 DEF TypedDataTypeOK, Tables
<1>2. c \in Seq(Members \cup {Placeholder})
  BY <1>1, FirstPassTyped
<1>3. rebuilt' = [rebuilt EXCEPT ![s] = c] /\ parsed' = parsed \cup {s}
  BY DEF Parse
<1>4. parsed' \in SUBSET types' /\ stage' = (IF parsed' = types THEN "resolve" ELSE "parse")
  BY <1>0 DEF Parse, TypedDataTypeOK
<1>5. TypedDataTypeOK'
  <2>. HIDE DEF c
  <2>. QED
    BY <1>0, <1>2, <1>3, <1>4 DEF TypedDataTypeOK, Stages
<1>6. \A x \in Structs : rebuilt'[x] = IF x = s THEN c ELSE rebuilt[x]
  BY <1>0, <1>3 DEF TypedDataTypeOK
<1>7. RebuiltInv'
  <2>1. s \notin resolved
    BY <1>0 DEF RebuiltInv
  <2>2. resolved' \subseteq parsed' /\ parsed' \subseteq Structs
    BY <1>0, <1>3 DEF RebuiltInv, TypedDataTypeOK
  <2>3. \A x \in Structs \ parsed' : rebuilt'[x] = << >>
    BY <1>0, <1>3, <1>6 DEF RebuiltInv
  <2>4. \A x \in parsed' \ resolved' :
           rebuilt'[x] = [i \in DOMAIN schema[x] |-> FromSolidityType(schema[x][i])]
    BY <1>0, <1>3, <1>6, <2>2 DEF RebuiltInv
  <2>5. \A x \in resolved' : rebuilt'[x] \in Seq(Members)
    BY <1>0, <1>6, <2>1, <2>2 DEF RebuiltInv
  <2>6. stage' \notin {"sign", "describe", "verify", "verified"}
        /\ (stage' = "resolve" => parsed' = types')
    BY <1>0, <1>4
  <2>. HIDE DEF c
  <2>7. \A x \in parsed' \ resolved' :
           rebuilt'[x] = [i \in DOMAIN schema'[x] |-> FromSolidityType(schema[x][i])']
    BY <1>0, <2>4 DEF FromSolidityType
  <2>. QED
    BY <2>2, <2>3, <2>5, <2>6, <2>7 DEF RebuiltInv
<1>. QED
  BY <1>4, <1>5, <1>7 DEF GatherInv, Walks

LEMMA ResolveStep ==
    ASSUME GatherInv, NEW s \in Structs, Resolve(s)
    PROVE  GatherInv'
<1>0. TypedDataTypeOK /\ RebuiltInv /\ s \in types \ resolved /\ stage = "resolve"
      /\ parsed = types /\ s \in parsed
      /\ UNCHANGED <<schema, likeBasic, signature, types, parsed>>
  BY DEF GatherInv, RebuiltInv, Resolve
<1>1. CASE stage' = "keyError" /\ UNCHANGED <<rebuilt, resolved, stack, struct_set>>
  <2>1. TypedDataTypeOK'
    BY <1>0, <1>1 DEF TypedDataTypeOK, Stages
  <2>2. RebuiltInv'
    BY <1>0, <1>1 DEF RebuiltInv, FromSolidityType
  <2>. QED
    BY <1>1, <2>1, <2>2 DEF GatherInv, Walks
<1>2. CASE /\ rebuilt' = [rebuilt EXCEPT ![s] = Fulfilled(rebuilt[s], schema[s])]
           /\ resolved' = resolved \cup {s}
           /\ IF resolved' = types
              THEN WalkAgain("verify")
              ELSE UNCHANGED <<stage, stack, struct_set>>
  <2>. DEFINE c == Fulfilled(rebuilt[s], schema[s])
  <2>1. c \in Seq(Members)
    <3>1. schema[s] \in Seq(Members)
      BY <1>0 DEF TypedDataTypeOK, Tables
    <3>2. rebuilt[s] = [i \in DOMAIN schema[s] |-> FromSolidityType(schema[s][i])]
      BY <1>0 DEF RebuiltInv
    <3>. QED
      BY <3>1, <3>2, SecondPassTyped
  <2>2. rebuilt' = [rebuilt EXCEPT ![s] = c]
    BY <1>2
  <2>. HIDE DEF c
  <2>3. \A x \in Structs : rebuilt'[x] = IF x = s THEN c ELSE rebuilt[x]
    BY <1>0, <2>2 DEF TypedDataTypeOK
  <2>4. c \in Seq(Members \cup {Placeholder})
    BY <2>1
  <2>5. rebuilt' \in [Structs -> Seq(Members \cup {Placeholder})]
    BY <1>0, <2>2, <2>4 DEF TypedDataTypeOK
  <2>6. TypedDataTypeOK'
    BY <1>0, <1>2, <2>5, FrameTyped DEF TypedDataTypeOK, WalkAgain, Stages, Walks
  <2>7. parsed \subseteq Structs /\ resolved' \subseteq parsed'
    BY <1>0, <1>2 DEF TypedDataTypeOK, RebuiltInv
  <2>8. \A x \in resolved' : rebuilt'[x] \in Seq(Members)
    BY <1>0, <1>2, <2>1, <2>3, <2>7 DEF RebuiltInv
  <2>9. \A x \in Structs \ parsed' : rebuilt'[x] = << >>
    BY <1>0, <2>3 DEF RebuiltInv
  <2>10. \A x \in parsed' \ resolved' :
            rebuilt'[x] = [i \in DOMAIN schema'[x] |-> FromSolidityType(schema[x][i])']
    BY <1>0, <1>2, <2>3, <2>7 DEF RebuiltInv, FromSolidityType
  <2>11. resolved' = types => rebuilt' \in Tables
    <3>1. << >> \in Seq(Members)
      OBVIOUS
    <3>2. ASSUME resolved' = types, NEW x \in Structs PROVE rebuilt'[x] \in Seq(Members)
      BY <1>0, <2>8, <2>9, <3>1, <3>2
    <3>. QED
      BY <2>5, <3>2 DEF Tables
  <2>12. RebuiltInv'
    <3>1. stage' = IF resolved' = types THEN "verify" ELSE "resolve"
      BY <1>0, <1>2 DEF WalkAgain
    <3>. QED
      BY <1>0, <2>7, <2>8, <2>9, <2>10, <2>11, <3>1 DEF RebuiltInv
  <2>13. CASE resolved' = types
    BY <1>2, <2>6, <2>12, <2>13, WalkAgainStep DEF Walks
  <2>14. CASE resolved' # types
    BY <1>0, <1>2, <2>6, <2>12, <2>14 DEF GatherInv, Walks
  <2>. QED
    BY <2>13, <2>14
<1>. QED
  BY <1>1, <1>2 DEF Resolve

LEMMA SignStep ==
    ASSUME GatherInv, Sign
    PROVE  GatherInv'
<1>1. TypedDataTypeOK' /\ RebuiltInv'
  BY FrameTyped
     DEF Sign, WalkAgain, GatherInv, TypedDataTypeOK, RebuiltInv, Stages, Walks, FromSolidityType
<1>. QED
  BY <1>1, WalkAgainStep DEF Sign, Walks

LEMMA ToMessageStep ==
    ASSUME GatherInv, ToMessage
    PROVE  GatherInv'
<1>1. types = {} /\ types' = struct_set \cup {Root} /\ stage' = "parse"
      /\ TypedDataTypeOK /\ RebuiltInv
      /\ UNCHANGED <<schema, likeBasic, struct_set, stack, signature, parsed, rebuilt, resolved>>
  BY DEF ToMessage, GatherInv, RebuiltInv
<1>2. TypedDataTypeOK'
  BY <1>1, TypedDataAssumption DEF TypedDataTypeOK, Stages
<1>3. RebuiltInv'
  BY <1>1 DEF RebuiltInv, FromSolidityType
<1>. QED
  BY <1>1, <1>2, <1>3 DEF GatherInv, Walks

LEMMA RejectListsStep ==
    ASSUME GatherInv, RejectLists
    PROVE  GatherInv'
<1>1. stage' = "typeError" /\ stage = "describe" /\ TypedDataTypeOK /\ RebuiltInv
      /\ UNCHANGED <<schema, likeBasic, struct_set, stack, signature, types, parsed, rebuilt,
                     resolved>>
  BY DEF RejectLists, GatherInv
<1>2. TypedDataTypeOK'
  BY <1>1 DEF TypedDataTypeOK, Stages
<1>3. RebuiltInv'
  BY <1>1 DEF RebuiltInv, FromSolidityType
<1>. QED
  BY <1>1, <1>2, <1>3 DEF GatherInv, Walks

LEMMA VerifyStep ==
    ASSUME GatherInv, Verify
    PROVE  GatherInv'
<1>1. stage' = "verified" /\ stage = "verify" /\ TypedDataTypeOK /\ RebuiltInv
      /\ UNCHANGED <<schema, likeBasic, struct_set, stack, signature, types, parsed, rebuilt,
                     resolved>>
  BY DEF Verify, GatherInv
<1>2. TypedDataTypeOK'
  BY <1>1 DEF TypedDataTypeOK, Stages
<1>3. RebuiltInv'
  BY <1>1 DEF RebuiltInv, FromSolidityType, Tables
<1>. QED
  BY <1>1, <1>2, <1>3 DEF GatherInv, Walks

-----------------------------------------------------------------------------

LEMMA GatherInvInit == TypedDataInit => GatherInv
<1>. SUFFICES ASSUME TypedDataInit PROVE GatherInv
  OBVIOUS
<1>0. schema \in Tables /\ likeBasic \in SUBSET Structs
  BY TypedDataAssumption DEF TypedDataInit, Tables
<1>1. stack = << Frame(Root) >> /\ struct_set = {} /\ stage = "sign"
      /\ types = {} /\ parsed = {} /\ resolved = {}
      /\ rebuilt = [s \in Structs |-> << >>]
  BY DEF TypedDataInit, TypedDataStart
<1>2. TypedDataTypeOK
  BY <1>0, <1>1, FrameTyped DEF TypedDataTypeOK, Stages, Walks
<1>3. RebuiltInv
  BY <1>1 DEF RebuiltInv
<1>4. Frame(Root).struct = Root /\ Frame(Root).next = 1
  BY DEF Frame
<1>5. DOMAIN stack = {1} /\ stack[1] = Frame(Root)
  BY <1>1
<1>6. Classes[Root] \in Seq(Members)
  BY <1>0, <1>1, TypedDataAssumption DEF Classes, Tables
<1>7. FoundBefore(Root, 1)
  BY <1>6 DEF FoundBefore
<1>. QED
  BY <1>1, <1>2, <1>3, <1>4, <1>5, <1>7 DEF GatherInv, WalkedOrFound

LEMMA GatherInvNext == GatherInv /\ [TypedDataNext]_tdvars => GatherInv'
<1>. SUFFICES ASSUME GatherInv, [TypedDataNext]_tdvars PROVE GatherInv'
  OBVIOUS
<1>1. CASE UNCHANGED tdvars
  <2>. USE <1>1 DEF tdvars
  <2>1. TypedDataTypeOK' /\ RebuiltInv'
    BY DEF GatherInv, TypedDataTypeOK, RebuiltInv, FromSolidityType, Tables
  <2>2. /\ \A s, n : FoundBefore(s, n)' <=> FoundBefore(s, n)
        /\ \A s : WalkedOrFound(s)' <=> WalkedOrFound(s)
        /\ \A C : IsClosed(C)' <=> IsClosed(C)
    BY DEF FoundBefore, WalkedOrFound, IsClosed, Refs, Classes
  <2>3. \A k \in DOMAIN stack :
           FoundBefore(stack[k].struct, stack[k].next)
           => FoundBefore(stack[k].struct, stack[k].next)'
    BY DEF FoundBefore, Classes
  <2>. QED
    BY <2>1, <2>2, <2>3 DEF GatherInv
<1>. QED
  BY <1>1, VisitStep, LeaveStep, SignStep, RejectListsStep, ToMessageStep, VerifyStep, ParseStep,
     ResolveStep
     DEF TypedDataNext

\* The invariant of the walk, for any number of structs and members and every way they
\* may refer to each other.
THEOREM GatherInvariant == TypedDataSpec => []GatherInv
  BY GatherInvInit, GatherInvNext, PTL DEF TypedDataSpec

\* What a walk that has ended found has all that its structs refer to.
LEMMA GatheredClosed ==
    ASSUME GatherInv, stage \in Walks, stack = << >>
    PROVE  IsClosed(struct_set)
<1>1. \A s \in struct_set \cup {Root} : Refs(s) \subseteq struct_set
  <2>. SUFFICES ASSUME NEW s \in struct_set \cup {Root},
                       NEW i \in DOMAIN Classes[s], IsStruct(Classes[s][i])
                PROVE  Classes[s][i].base \in struct_set
    BY DEF Refs
  <2>1. s \in Structs
    BY TypedDataAssumption DEF GatherInv, TypedDataTypeOK
  <2>2. DOMAIN Classes[s] = 1..Len(Classes[s]) /\ Len(Classes[s]) \in Nat
    BY <2>1, ClassTyped
  <2>3. FoundBefore(s, Len(Classes[s]) + 1)
    BY DEF GatherInv, WalkedOrFound
  <2>. QED
    BY <2>2, <2>3 DEF FoundBefore
<1>. QED
  BY <1>1 DEF IsClosed

LEMMA GatheredAll ==
    ASSUME GatherInv, stage \in Walks, stack = << >>
    PROVE  struct_set = Reachable
<1>1. struct_set \subseteq Reachable
  BY DEF GatherInv, TypedDataTypeOK, Reachable
<1>2. IsClosed(struct_set) /\ struct_set \in SUBSET Structs
  BY GatheredClosed DEF GatherInv, TypedDataTypeOK
<1>3. Reachable \subseteq struct_set
  BY <1>2 DEF Reachable
<1>. QED
  BY <1>1, <1>3

\* What is signed and what is described are the structs that the root refers to,
\* directly or through others, and no more.
THEOREM GatheredExactly == TypedDataSpec => []GatheredIsReachable
<1>1. GatherInv => GatheredIsReachable
  BY GatheredAll DEF GatheredIsReachable
<1>. QED
  BY <1>1, GatherInvariant, PTL

-----------------------------------------------------------------------------
(***************************************************************************)
(* from_message raises on arrays only.                                     *)
(***************************************************************************)

LEMMA ToMessageCloses ==
    ASSUME KeyErrorInv, ToMessage
    PROVE  TypesClosed'
<1>1. /\ types' = struct_set \cup {Root} /\ UNCHANGED schema
      /\ stage = "describe" /\ stack = << >> /\ GatherInv
  BY DEF ToMessage, KeyErrorInv
<1>2. Classes = schema
  BY <1>1 DEF Classes
<1>3. ASSUME NEW s \in struct_set \cup {Root}, NEW i \in DOMAIN schema[s], IsStruct(schema[s][i])
      PROVE  schema[s][i].base \in struct_set
  <2>1. s \in Structs
    BY <1>1, TypedDataAssumption DEF GatherInv, TypedDataTypeOK
  <2>2. FoundBefore(s, Len(Classes[s]) + 1)
    BY <1>1 DEF GatherInv, WalkedOrFound, Walks
  <2>3. DOMAIN Classes[s] = 1..Len(Classes[s]) /\ Len(Classes[s]) \in Nat
    BY <1>1, <2>1, ClassTyped DEF Walks
  <2>. QED
    BY <1>2, <1>3, <2>2, <2>3 DEF FoundBefore
<1>. QED
  BY <1>1, <1>3 DEF TypesClosed

LEMMA ResolveExplains ==
    ASSUME KeyErrorInv, NEW s \in Structs, Resolve(s), stage' = "keyError"
    PROVE  KeyErrorExplained'
<1>1. /\ GatherInv /\ TypesClosed /\ RebuiltInv /\ TypedDataTypeOK
      /\ stage = "resolve" /\ s \in types \ resolved /\ parsed = types
      /\ UNCHANGED <<schema, likeBasic, types>>
  BY DEF Resolve, KeyErrorInv, GatherInv, RebuiltInv
<1>2. PICK i \in DOMAIN schema[s] : rebuilt[s][i] = Placeholder /\ schema[s][i].base \notin types
  BY DEF Resolve, WalkAgain
<1>3. schema[s][i] \in Members
  <2>1. schema[s] \in Seq(Members)
    BY <1>1 DEF TypedDataTypeOK, Tables
  <2>. QED
    BY <2>1
<1>4. FromSolidityType(schema[s][i]) = Placeholder
  <2>1. rebuilt[s] = [j \in DOMAIN schema[s] |-> FromSolidityType(schema[s][j])]
    BY <1>1 DEF RebuiltInv
  <2>. QED
    BY <1>2, <2>1
<1>5. schema[s][i].base # Basic /\ schema[s][i].base \notin likeBasic
  BY <1>4 DEF FromSolidityType, Placeholder, Basic
<1>6. schema[s][i].base \in Structs /\ schema[s][i].dims \in 0..2
  BY <1>3, <1>5 DEF Members
<1>7. schema[s][i].dims > 0
  BY <1>1, <1>2, <1>6 DEF TypesClosed, IsStruct
<1>. QED
  BY <1>1, <1>2, <1>5, <1>6, <1>7 DEF KeyErrorExplained

LEMMA KeyErrorInvNext == KeyErrorInv /\ [TypedDataNext]_tdvars => KeyErrorInv'
<1>. SUFFICES ASSUME KeyErrorInv, [TypedDataNext]_tdvars PROVE KeyErrorInv'
  OBVIOUS
<1>0. GatherInv'
  BY GatherInvNext DEF KeyErrorInv
<1>1. CASE UNCHANGED <<schema, types, likeBasic>> /\ (stage' = "keyError" => stage = "keyError")
  BY <1>0, <1>1 DEF KeyErrorInv, TypesClosed, KeyErrorExplained
<1>2. CASE ToMessage
  <2>1. stage' = "parse"
    BY <1>2 DEF ToMessage
  <2>. QED
    BY <1>0, <1>2, <2>1, ToMessageCloses DEF KeyErrorInv, KeyErrorExplained
<1>3. ASSUME NEW s \in Structs, Resolve(s) PROVE KeyErrorInv'
  <2>1. UNCHANGED <<schema, types, likeBasic>>
    BY <1>3 DEF Resolve
  <2>2. TypesClosed'
    BY <2>1 DEF KeyErrorInv, TypesClosed
  <2>3. CASE stage' = "keyError"
    BY <1>0, <1>3, <2>2, <2>3, ResolveExplains DEF KeyErrorInv
  <2>. QED
    BY <1>1, <2>1, <2>3
<1>4. CASE Visit \/ Leave \/ Sign \/ RejectLists \/ Verify \/ UNCHANGED tdvars
  BY <1>1, <1>4 DEF Visit, Leave, Sign, RejectLists, Verify, WalkAgain, tdvars
<1>5. ASSUME NEW s \in Structs, Parse(s) PROVE KeyErrorInv'
  <2>1. stage' \in {"parse", "resolve"} /\ UNCHANGED <<schema, types, likeBasic>>
    BY <1>5 DEF Parse
  <2>. QED
    BY <1>1, <2>1
<1>. QED
  BY <1>2, <1>3, <1>4, <1>5 DEF TypedDataNext

\* from_message raises only at an array of structs that no plain member leads to.
THEOREM KeyErrorOnlyAtArrays == TypedDataSpec => []KeyErrorExplained
<1>1. TypedDataInit => KeyErrorInv
  BY GatherInvInit DEF TypedDataInit, TypedDataStart, KeyErrorInv, TypesClosed, KeyErrorExplained
<1>. QED
  BY <1>1, KeyErrorInvNext, PTL DEF TypedDataSpec, KeyErrorInv

-----------------------------------------------------------------------------
(***************************************************************************)
(* A struct comes back from its message with its signature exactly when    *)
(* the message lost nothing.                                               *)
(***************************************************************************)

\* The sets a table is walked for: IsClosed is about the classes that are walked.
LEMMA ClosedWhenWalked ==
    ASSUME Classes = schema, NEW C \in SUBSET Structs
    PROVE  IsClosed(C) <=> ClosedInSchema(C)
BY DEF IsClosed, ClosedInSchema, Refs

\* The steps up to the message keep what is said of the signature.
LEMMA SignRoundTrip ==
    ASSUME SignatureInv, Sign
    PROVE  RoundTripInv'
<1>1. /\ GatherInv /\ stage = "sign" /\ stack = << >> /\ stage' = "describe"
      /\ signature' = EncodeType /\ UNCHANGED <<schema, likeBasic, rebuilt, resolved>>
  BY DEF Sign, WalkAgain, SignatureInv, KeyErrorInv
<1>2. struct_set = Reachable
  BY <1>1, GatheredAll DEF Walks
<1>3. Classes = schema /\ Classes' = schema
  BY <1>1 DEF Classes
<1>4. Reachable' = Reachable
  BY <1>3 DEF Reachable, IsClosed, Refs
<1>5. signature' = EncodedFrom(Reachable', schema')
  <2>1. EncodeType = EncodedFrom(struct_set, Classes)
    BY DEF EncodeType
  <2>. QED
    BY <1>1, <1>2, <1>3, <1>4, <2>1
<1>. QED
  BY <1>1, <1>5 DEF SignatureInv, RoundTripInv, RebuiltMember, Reference, OneDimension

LEMMA ToMessageRoundTrip ==
    ASSUME SignatureInv, ToMessage
    PROVE  RoundTripInv'
<1>1. /\ GatherInv /\ stage = "describe" /\ stack = << >> /\ stage' = "parse"
      /\ types' = struct_set \cup {Root}
      /\ UNCHANGED <<schema, likeBasic, rebuilt, resolved, signature>>
  BY DEF ToMessage, SignatureInv, KeyErrorInv
<1>2. Classes = schema /\ struct_set = Reachable
  BY <1>1, GatheredAll DEF Walks, Classes
<1>3. signature = EncodedFrom(struct_set, schema)
  BY <1>1, <1>2 DEF SignatureInv, RoundTripInv
<1>4. EncodedFrom(struct_set, schema) = EncodedFrom(struct_set \cup {Root}, schema)
  <2>1. (struct_set \cup {Root}) \ {Root} = struct_set \ {Root}
        /\ (struct_set \cup {Root}) \cup {Root} = struct_set \cup {Root}
    OBVIOUS
  <2>. QED
    BY <2>1 DEF EncodedFrom
<1>5. ASSUME NEW C \in SUBSET Structs, ClosedInSchema(C)
      PROVE  struct_set \subseteq C
  BY <1>2, <1>5, ClosedWhenWalked DEF Reachable
<1>6. \A C \in SUBSET Structs : ClosedInSchema(C)' => types' \subseteq C \cup {Root}
  BY <1>1, <1>5 DEF ClosedInSchema
<1>7. signature' = EncodedFrom(types', schema')
  BY <1>1, <1>3, <1>4
<1>. QED
  BY <1>1, <1>6, <1>7
     DEF SignatureInv, RoundTripInv, RebuiltMember, Reference, OneDimension

\* What the two passes make of a class, together.
LEMMA BothPasses ==
    ASSUME NEW ms \in Seq(Members), NEW c,
           c = [i \in DOMAIN ms |-> FromSolidityType(ms[i])]
    PROVE  Fulfilled(c, ms) = [i \in DOMAIN ms |-> RebuiltMember(ms[i])]
<1>1. ASSUME NEW i \in DOMAIN ms
      PROVE  (IF c[i] = Placeholder THEN Reference(ms[i]) ELSE c[i]) = RebuiltMember(ms[i])
  <2>1. c[i] = FromSolidityType(ms[i])
    OBVIOUS
  <2>2. [base |-> Basic, dims |-> OneDimension(ms[i].dims)] # Placeholder
    BY DEF Placeholder, Basic
  <2>. QED
    BY <2>1, <2>2 DEF FromSolidityType, RebuiltMember
<1>. QED
  BY <1>1 DEF Fulfilled

LEMMA ResolveRoundTrip ==
    ASSUME SignatureInv, NEW s \in Structs, Resolve(s)
    PROVE  RoundTripInv'
<1>1. /\ TypedDataTypeOK /\ RebuiltInv /\ RoundTripInv
      /\ stage = "resolve" /\ s \in types \ resolved /\ parsed = types
      /\ stage' \in {"resolve", "keyError", "verify"}
      /\ stage' = "verify" => resolved' = types
      /\ UNCHANGED <<schema, likeBasic, types, signature>>
  BY DEF Resolve, WalkAgain, SignatureInv, KeyErrorInv, GatherInv, RebuiltInv
<1>2. \/ UNCHANGED <<rebuilt, resolved>>
      \/ /\ rebuilt' = [rebuilt EXCEPT ![s] = Fulfilled(rebuilt[s], schema[s])]
         /\ resolved' = resolved \cup {s}
  BY DEF Resolve
<1>3. ASSUME NEW x \in resolved'
      PROVE  rebuilt'[x] = [i \in DOMAIN schema[x] |-> RebuiltMember(schema[x][i])]
  <2>1. CASE x \in resolved
    <3>1. rebuilt'[x] = rebuilt[x] /\ x # s
      BY <1>1, <1>2, <2>1 DEF TypedDataTypeOK
    <3>. QED
      BY <1>1, <2>1, <3>1 DEF RoundTripInv
  <2>2. CASE x \notin resolved
    <3>1. x = s /\ rebuilt'[s] = Fulfilled(rebuilt[s], schema[s])
      BY <1>1, <1>2, <1>3, <2>2 DEF TypedDataTypeOK
    <3>2. rebuilt[s] = [i \in DOMAIN schema[s] |-> FromSolidityType(schema[s][i])]
      BY <1>1 DEF RebuiltInv
    <3>3. schema[s] \in Seq(Members)
      BY <1>1 DEF TypedDataTypeOK, Tables
    <3>. QED
      BY <3>1, <3>2, <3>3, BothPasses
  <2>. QED
    BY <2>1, <2>2
<1>4. \A x \in resolved' :
         rebuilt'[x] = [i \in DOMAIN schema'[x] |-> RebuiltMember(schema[x][i])']
  BY <1>1, <1>3 DEF RebuiltMember, Reference, OneDimension
<1>5. /\ Root \in types' /\ signature' = EncodedFrom(types', schema')
      /\ \A C \in SUBSET Structs : ClosedInSchema(C)' => types' \subseteq C \cup {Root}
  BY <1>1 DEF RoundTripInv, ClosedInSchema
<1>. QED
  BY <1>1, <1>4, <1>5 DEF RoundTripInv

LEMMA VerifyRoundTrip ==
    ASSUME SignatureInv, Verify
    PROVE  RoundTripInv'
<1>1. /\ GatherInv /\ RoundTripInv /\ stage = "verify" /\ stack = << >> /\ stage' = "verified"
      /\ UNCHANGED <<schema, likeBasic, struct_set, types, signature, rebuilt, resolved>>
  BY DEF Verify, SignatureInv, KeyErrorInv
<1>2. Classes' = Classes
  BY <1>1 DEF Classes
<1>3. Reachable' = Reachable
  BY <1>2 DEF Reachable, IsClosed, Refs
<1>4. struct_set' = Reachable'
  BY <1>1, <1>3, GatheredAll DEF Walks
<1>5. /\ Root \in types' /\ signature' = EncodedFrom(types', schema')
      /\ \A C \in SUBSET Structs : ClosedInSchema(C)' => types' \subseteq C \cup {Root}
  BY <1>1 DEF RoundTripInv, ClosedInSchema
<1>6. \A s \in resolved' :
         rebuilt'[s] = [i \in DOMAIN schema'[s] |-> RebuiltMember(schema[s][i])']
  BY <1>1 DEF RoundTripInv, RebuiltMember, Reference, OneDimension
<1>7. stage' = "verified" /\ resolved' = types'
  BY <1>1 DEF RoundTripInv
<1>. QED
  BY <1>4, <1>5, <1>6, <1>7 DEF RoundTripInv

LEMMA SignatureInvNext == SignatureInv /\ [TypedDataNext]_tdvars => SignatureInv'
<1>. SUFFICES ASSUME SignatureInv, [TypedDataNext]_tdvars PROVE SignatureInv'
  OBVIOUS
<1>0. KeyErrorInv'
  BY KeyErrorInvNext DEF SignatureInv
<1>1. ASSUME stage' = stage, stage # "verified" \/ UNCHANGED struct_set,
             UNCHANGED <<schema, likeBasic, types, signature, rebuilt, resolved>>
      PROVE  RoundTripInv'
  <2>1. Reachable' = Reachable
    BY <1>1 DEF Reachable, IsClosed, Refs, Classes
  <2>. QED
    BY <1>1, <2>1
       DEF SignatureInv, RoundTripInv, ClosedInSchema, RebuiltMember, Reference, OneDimension
<1>2. CASE Visit \/ Leave \/ UNCHANGED tdvars
  <2>1. stage' = stage /\ (stage # "verified" \/ UNCHANGED struct_set)
        /\ UNCHANGED <<schema, likeBasic, types, signature, rebuilt, resolved>>
    BY <1>2 DEF Visit, Leave, tdvars, Walks
  <2>. QED
    BY <1>0, <1>1, <2>1 DEF SignatureInv
<1>3. ASSUME NEW s \in Structs, Parse(s) PROVE RoundTripInv'
  <2>1. /\ TypedDataTypeOK /\ RebuiltInv /\ RoundTripInv
        /\ stage = "parse" /\ stage' \in {"parse", "resolve"} /\ s \in types \ parsed
        /\ UNCHANGED <<schema, likeBasic, types, signature, resolved>>
        /\ \A x \in Structs : x # s => rebuilt'[x] = rebuilt[x]
    BY <1>3 DEF Parse, SignatureInv, KeyErrorInv, GatherInv, TypedDataTypeOK
  <2>2. resolved \subseteq Structs /\ s \notin resolved
    BY <2>1 DEF TypedDataTypeOK, RebuiltInv
  <2>3. /\ Root \in types' /\ signature' = EncodedFrom(types', schema')
        /\ \A C \in SUBSET Structs : ClosedInSchema(C)' => types' \subseteq C \cup {Root}
    BY <2>1 DEF RoundTripInv, ClosedInSchema
  <2>4. \A x \in resolved' :
           rebuilt'[x] = [i \in DOMAIN schema'[x] |-> RebuiltMember(schema[x][i])']
    BY <2>1, <2>2 DEF RoundTripInv, RebuiltMember, Reference, OneDimension
  <2>. QED
    BY <2>1, <2>3, <2>4 DEF RoundTripInv
<1>4. ASSUME RejectLists PROVE RoundTripInv'
  <2>1. /\ stage' = "typeError" /\ RoundTripInv
        /\ UNCHANGED <<schema, likeBasic, rebuilt, resolved>>
    BY <1>4 DEF RejectLists, SignatureInv
  <2>. QED
    BY <2>1 DEF RoundTripInv, RebuiltMember, Reference, OneDimension
<1>. QED
  BY <1>0, <1>2, <1>3, <1>4, SignRoundTrip, ToMessageRoundTrip, ResolveRoundTrip, VerifyRoundTrip
     DEF TypedDataNext, SignatureInv

\* A member comes back from the message exactly when the message has all of it.
LEMMA MemberKept ==
    ASSUME NEW m \in Members, likeBasic \in SUBSET Structs
    PROVE  RebuiltMember(m) = m <=> m.dims < 2 /\ m.base \notin likeBasic
<1>1. m.base \in Structs \cup {Basic} /\ m.dims \in 0..2
      /\ m = [base |-> m.base, dims |-> m.dims] /\ Basic \notin likeBasic
  BY DEF Members, Structs, Basic
<1>2. OneDimension(m.dims) = m.dims <=> m.dims < 2
  BY <1>1 DEF OneDimension
<1>3. RebuiltMember(m) = [base |-> IF m.base \in likeBasic THEN Basic ELSE m.base,
                          dims |-> OneDimension(m.dims)]
  BY <1>1 DEF RebuiltMember, Reference
<1>4. RebuiltMember(m) = m
      <=> /\ (IF m.base \in likeBasic THEN Basic ELSE m.base) = m.base
          /\ OneDimension(m.dims) = m.dims
  BY <1>1, <1>3
<1>. QED
  BY <1>1, <1>2, <1>4

\* A class comes back exactly when all its members do.
LEMMA ClassKept ==
    ASSUME TypedDataTypeOK, RoundTripInv, stage = "verified", NEW s \in types
    PROVE  rebuilt[s] = schema[s]
           <=> \A i \in DOMAIN schema[s] :
                  schema[s][i].dims < 2 /\ schema[s][i].base \notin likeBasic
<1>1. schema[s] \in Seq(Members) /\ likeBasic \in SUBSET Structs
  BY DEF TypedDataTypeOK, Tables
<1>2. DOMAIN schema[s] = 1..Len(schema[s]) /\ \A i \in DOMAIN schema[s] : schema[s][i] \in Members
  BY <1>1
<1>3. rebuilt[s] = [i \in DOMAIN schema[s] |-> RebuiltMember(schema[s][i])]
  BY DEF RoundTripInv
<1>4. \A i \in DOMAIN schema[s] :
         RebuiltMember(schema[s][i]) = schema[s][i]
         <=> schema[s][i].dims < 2 /\ schema[s][i].base \notin likeBasic
  BY <1>1, <1>2, MemberKept
<1>5. rebuilt[s] = schema[s]
      <=> \A i \in DOMAIN schema[s] : RebuiltMember(schema[s][i]) = schema[s][i]
  <2>1. schema[s] = [i \in DOMAIN schema[s] |-> schema[s][i]]
    BY <1>1
  <2>. QED
    BY <1>3, <2>1
<1>. QED
  BY <1>4, <1>5

\* If nothing is lost, the second walk finds what the message names.
LEMMA SameFound ==
    ASSUME SignatureInv, stage = "verified", \A s \in types : rebuilt[s] = schema[s]
    PROVE  struct_set \cup {Root} = types
<1>1. /\ TypedDataTypeOK /\ TypesClosed /\ Root \in types /\ struct_set = Reachable
      /\ \A C \in SUBSET Structs : ClosedInSchema(C) => types \subseteq C \cup {Root}
      /\ Classes = rebuilt /\ types \in SUBSET Structs
  BY DEF SignatureInv, KeyErrorInv, GatherInv, RoundTripInv, TypedDataTypeOK, Classes
<1>2. IsClosed(types)
  BY <1>1 DEF TypesClosed, IsClosed, Refs
<1>3. struct_set \subseteq types
  BY <1>1, <1>2 DEF Reachable
<1>4. struct_set \in SUBSET Structs
  BY <1>1, <1>3
<1>5. ASSUME NEW s \in struct_set \cup {Root}, NEW i \in DOMAIN schema[s], IsStruct(schema[s][i])
      PROVE  schema[s][i].base \in struct_set
  <2>1. s \in types /\ schema[s] = Classes[s]
    BY <1>1, <1>3
  <2>2. schema[s][i].base \in Structs /\ schema[s][i].base \in Refs(s)
    BY <1>5, <2>1 DEF IsStruct, Refs
  <2>3. \A C \in SUBSET Structs : IsClosed(C) => schema[s][i].base \in C
    <3>. SUFFICES ASSUME NEW C \in SUBSET Structs, IsClosed(C) PROVE schema[s][i].base \in C
      OBVIOUS
    <3>1. s = Root \/ s \in C
      BY <1>1 DEF Reachable
    <3>. QED
      BY <2>2, <3>1 DEF IsClosed
  <2>. QED
    BY <1>1, <2>2, <2>3 DEF Reachable
<1>6. ClosedInSchema(struct_set)
  BY <1>5 DEF ClosedInSchema
<1>. QED
  BY <1>1, <1>3, <1>4, <1>6

LEMMA RoundTrip ==
    ASSUME SignatureInv, stage = "verified"
    PROVE  EncodeType = signature <=> LosesNothing
<1>1. /\ TypedDataTypeOK /\ RoundTripInv /\ Root \in types
      /\ signature = EncodedFrom(types, schema) /\ EncodeType = EncodedFrom(struct_set, rebuilt)
  BY DEF SignatureInv, KeyErrorInv, GatherInv, RoundTripInv, EncodeType, Classes
<1>2. LosesNothing <=> \A s \in types : rebuilt[s] = schema[s]
  BY <1>1, ClassKept DEF LosesNothing
<1>3. ASSUME \A s \in types : rebuilt[s] = schema[s] PROVE EncodeType = signature
  <2>1. struct_set \cup {Root} = types /\ struct_set \ {Root} = types \ {Root}
        /\ types \cup {Root} = types
    BY <1>1, <1>3, SameFound
  <2>2. [s \in struct_set \cup {Root} |-> rebuilt[s]] = [s \in types \cup {Root} |-> schema[s]]
    BY <1>3, <2>1
  <2>. QED
    BY <1>1, <2>1, <2>2 DEF EncodedFrom
<1>4. ASSUME EncodeType = signature PROVE \A s \in types : rebuilt[s] = schema[s]
  <2>1. [s \in struct_set \cup {Root} |-> rebuilt[s]] = [s \in types \cup {Root} |-> schema[s]]
    <3>1. EncodedFrom(struct_set, rebuilt).members = EncodedFrom(types, schema).members
      BY <1>1, <1>4
    <3>. QED
      BY <3>1 DEF EncodedFrom
  <2>. DEFINE f == [s \in struct_set \cup {Root} |-> rebuilt[s]]
              g == [s \in types \cup {Root} |-> schema[s]]
  <2>2. DOMAIN f = struct_set \cup {Root} /\ DOMAIN g = types \cup {Root}
        /\ (\A s \in DOMAIN f : f[s] = rebuilt[s]) /\ (\A s \in DOMAIN g : g[s] = schema[s])
    OBVIOUS
  <2>. HIDE DEF f, g
  <2>3. f = g
    BY <2>1 DEF f, g
  <2>. QED
    BY <2>2, <2>3
<1>. QED
  BY <1>2, <1>3, <1>4

\* A struct that is described and built again signs as it did exactly when no member
\* was an array of two dimensions or a struct named like a basic type.
THEOREM SignatureKeptExactly == TypedDataSpec => []SignatureKept
<1>1. TypedDataInit => SignatureInv
  BY GatherInvInit
     DEF TypedDataInit, TypedDataStart, SignatureInv, RoundTripInv, KeyErrorInv, TypesClosed,
         KeyErrorExplained
<1>2. SignatureInv => SignatureKept
  BY RoundTrip DEF SignatureKept
<1>. QED
  BY <1>1, <1>2, SignatureInvNext, PTL DEF TypedDataSpec

=============================================================================
