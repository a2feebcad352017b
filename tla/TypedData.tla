------------------------------ MODULE TypedData ------------------------------
(***************************************************************************)
(* EIP-712 structs (eip712/struct.py): the type signature of a struct that *)
(* is signed, the message that describes it to others (to_message) and the *)
(* struct that is built again from such a message (from_message).  Structs *)
(* may refer to each other and to themselves, so both the signature and    *)
(* the description walk a graph.  The walk is the recursion of             *)
(* _gather_reference_structs, with its call stack.                         *)
(***************************************************************************)
EXTENDS Integers, Sequences, SequencesExt

CONSTANTS
    N,          \* bound: number of struct classes
    Root,       \* the class of the struct that is signed
    Schemas,    \* the members that the classes may have
    LikeBasic   \* the sets of structs that may have such names as "stringList"

Structs == 1..N     \* numbered in the order of their names
Basic == 0          \* the type of a member that is no struct

\* A member: a basic type or a struct, plain or in an array of one or more dimensions.
Members == [base: Structs \cup {Basic}, dims: 0..2]

\* The annotation of a class that is not complete yet: setattr(..., None).
Placeholder == [base |-> -1, dims |-> 0]

ASSUME TypedDataAssumption ==
    /\ N \in Nat
    /\ Root \in Structs
    /\ Schemas \subseteq [Structs -> Seq(Members)]
    /\ LikeBasic \subseteq SUBSET Structs

VARIABLES
    schema,     \* the members of the program's classes
    likeBasic,  \* the structs whose names begin with that of a basic type
    stage,      \* what the walk is for, or what is done with its result
    struct_set, \* the structs the walk has found
    stack,      \* the activations of _gather_reference_structs
    signature,  \* the signature that was signed
    types,      \* the structs of the message
    parsed,     \* those from_message has made a class of
    rebuilt,    \* the members of from_message's classes
    resolved    \* those whose references it has set

tdvars == <<schema, likeBasic, stage, struct_set, stack, signature, types, parsed,
            rebuilt, resolved>>

Walks == {"sign", "describe", "verify"}
Stages == Walks \cup {"parse", "resolve", "verified", "keyError", "typeError"}

-----------------------------------------------------------------------------
(***************************************************************************)
(* The walk.                                                               *)
(***************************************************************************)

IsStruct(m) == m.base \in Structs /\ m.dims = 0

\* The classes being walked: the program's, or those made from its message.
Classes == IF stage \in {"verify", "verified"} THEN rebuilt ELSE schema

Frame(s) == [struct |-> s, next |-> 1]
Frames == [struct: Structs, next: Nat \ {0}]

\* The activation on top, and the stack when it looks at its next member.
Top == stack[Len(stack)]
Advanced == [stack EXCEPT ![Len(stack)].next = @ + 1]

\* A bug: only the members of the root are looked at.
EnteredNever(s) == Advanced
Entered(s) == Append(Advanced, Frame(s))

\* A bug: the walk does not get past a member that is no new struct.
SkippedNever == stack
Skipped == Advanced

\* The next member of the activation on top: a new struct is added and entered.
Visit ==
    /\ stage \in Walks
    /\ stack # << >>
    /\ Top.next <= Len(Classes[Top.struct])
    /\ LET m == Classes[Top.struct][Top.next]
       IN  IF IsStruct(m) /\ m.base \notin struct_set
           THEN /\ struct_set' = struct_set \cup {m.base}
                /\ stack' = Entered(m.base)
           ELSE stack' = Skipped /\ UNCHANGED struct_set
    /\ UNCHANGED <<schema, likeBasic, stage, signature, types, parsed, rebuilt, resolved>>

\* The activation on top has looked at all its members.
Leave ==
    /\ stage \in Walks
    /\ stack # << >>
    /\ Top.next > Len(Classes[Top.struct])
    /\ stack' = SubSeq(stack, 1, Len(stack) - 1)
    /\ UNCHANGED <<schema, likeBasic, stage, struct_set, signature, types, parsed,
                   rebuilt, resolved>>

\* The next walk begins with nothing found.
WalkAgain(next) == stage' = next /\ stack' = << Frame(Root) >> /\ struct_set' = {}

-----------------------------------------------------------------------------
(***************************************************************************)
(* What is done with its result.                                           *)
(***************************************************************************)

\* encode_type: the struct itself, then the others by name.
EncodedFrom(found, table) ==
    [order |-> <<Root>> \o SetToSortSeq(found \ {Root}, <),
     members |-> [s \in found \cup {Root} |-> table[s]]]

EncodeType == EncodedFrom(struct_set, Classes)

Sign ==
    /\ stage = "sign"
    /\ stack = << >>
    /\ signature' = EncodeType
    /\ WalkAgain("describe")
    /\ UNCHANGED <<schema, likeBasic, types, parsed, rebuilt, resolved>>

\* to_message begins with a set that holds the struct, whose __hash__ raises if its values,
\* or those of a struct in it, have a list for an array member (they may have a tuple
\* there, or None).  The walk that comes after it is a local matter, so the order is free.
RejectLists ==
    /\ stage = "describe"
    /\ stack = << >>
    /\ \E s \in struct_set \cup {Root} : \E i \in DOMAIN schema[s] : schema[s][i].dims > 0
    /\ stage' = "typeError"
    /\ UNCHANGED <<schema, likeBasic, struct_set, stack, signature, types, parsed,
                   rebuilt, resolved>>

\* Otherwise to_message names the types of the struct and of what the walk found.
ToMessage ==
    /\ stage = "describe"
    /\ stack = << >>
    /\ types' = struct_set \cup {Root}
    /\ stage' = "parse"
    /\ UNCHANGED <<schema, likeBasic, struct_set, stack, signature, parsed, rebuilt, resolved>>

\* Both patterns of from_message match one pair of brackets at most.
OneDimension(dims) == IF dims = 0 THEN 0 ELSE 1

\* from_solidity_type: a basic type, or None.  The name of a struct that begins with
\* that of a basic type is taken for it.
FromSolidityType(m) ==
    IF m.base = Basic \/ m.base \in likeBasic
    THEN [base |-> Basic, dims |-> OneDimension(m.dims)]
    ELSE Placeholder

\* The first pass makes a class of every type, in the order in which the set gave them.
Parse(s) ==
    /\ stage = "parse"
    /\ s \in types \ parsed
    /\ parsed' = parsed \cup {s}
    /\ rebuilt' = [rebuilt EXCEPT ![s] = [i \in DOMAIN schema[s] |-> FromSolidityType(schema[s][i])]]
    /\ stage' = IF parsed' = types THEN "resolve" ELSE "parse"
    /\ UNCHANGED <<schema, likeBasic, struct_set, stack, signature, types, resolved>>

Reference(m) == [base |-> m.base, dims |-> OneDimension(m.dims)]

\* A bug: the references come after the members that were set first.
FulfilledLast(class, ms) ==
    LET refs == SetToSortSeq({i \in DOMAIN class : class[i] = Placeholder}, <)
    IN  SelectSeq(class, LAMBDA m : m # Placeholder)
        \o [k \in DOMAIN refs |-> Reference(ms[refs[k]])]

\* A reference takes the place its placeholder has kept.
Fulfilled(class, ms) ==
    [i \in DOMAIN ms |-> IF class[i] = Placeholder THEN Reference(ms[i]) ELSE class[i]]

\* The second pass sets the references of a class, or raises at one of no type.
Resolve(s) ==
    /\ stage = "resolve"
    /\ s \in types \ resolved
    /\ IF \A i \in DOMAIN schema[s] : rebuilt[s][i] = Placeholder => schema[s][i].base \in types
       THEN /\ rebuilt' = [rebuilt EXCEPT ![s] = Fulfilled(rebuilt[s], schema[s])]
            /\ resolved' = resolved \cup {s}
            /\ IF resolved' = types
               THEN WalkAgain("verify")
               ELSE UNCHANGED <<stage, stack, struct_set>>
       ELSE /\ stage' = "keyError"
            /\ UNCHANGED <<rebuilt, resolved, stack, struct_set>>
    /\ UNCHANGED <<schema, likeBasic, signature, types, parsed>>

\* The rebuilt struct is walked for its own signature.
Verify ==
    /\ stage = "verify"
    /\ stack = << >>
    /\ stage' = "verified"
    /\ UNCHANGED <<schema, likeBasic, struct_set, stack, signature, types, parsed,
                   rebuilt, resolved>>

-----------------------------------------------------------------------------
NoSignature == [order |-> << >>, members |-> << >>]

TypedDataStart ==
    /\ stage = "sign"
    /\ struct_set = {}
    /\ stack = << Frame(Root) >>
    /\ signature = NoSignature
    /\ types = {}
    /\ parsed = {}
    /\ rebuilt = [s \in Structs |-> << >>]
    /\ resolved = {}

TypedDataInit ==
    /\ schema \in Schemas
    /\ likeBasic \in LikeBasic
    /\ TypedDataStart

TypedDataNext ==
    \/ Visit \/ Leave \/ Sign \/ RejectLists \/ ToMessage \/ Verify
    \/ \E s \in Structs : Parse(s) \/ Resolve(s)

TypedDataSpec == TypedDataInit /\ [][TypedDataNext]_tdvars

-----------------------------------------------------------------------------
Tables == [Structs -> Seq(Members)]

TypedDataTypeOK ==
    /\ schema \in Tables
    /\ likeBasic \in SUBSET Structs
    /\ stage \in Stages
    /\ struct_set \in SUBSET Structs
    /\ stack \in Seq(Frames)
    /\ types \in SUBSET Structs
    /\ parsed \in SUBSET types
    /\ resolved \in SUBSET types
    /\ rebuilt \in [Structs -> Seq(Members \cup {Placeholder})]

\* The structs that s has as plain members.
Refs(s) == {Classes[s][i].base : i \in {j \in DOMAIN Classes[s] : IsStruct(Classes[s][j])}}

\* C has all that the root refers to, directly or through a struct in C.
IsClosed(C) == Refs(Root) \subseteq C /\ \A s \in C : Refs(s) \subseteq C

\* The least such set.
Reachable == {s \in Structs : \A C \in SUBSET Structs : IsClosed(C) => s \in C}

\* A walk finds exactly the structs that the root refers to, however they refer to
\* each other: what is signed and what is described are the same structs.
GatheredIsReachable ==
    stage \in Walks /\ stack = << >> => struct_set = Reachable

\* from_message raises only because of an array: the walk does not enter the arrays of
\* structs, so that to_message does not describe their elements.
KeyErrorExplained ==
    stage = "keyError" =>
        \E s \in types : \E i \in DOMAIN schema[s] :
            LET m == schema[s][i]
            IN  m.dims > 0 /\ m.base \in Structs \ (types \cup likeBasic)

\* What from_message loses: all dimensions of an array but one, and structs that are
\* named like a basic type.
LosesNothing ==
    \A s \in types : \A i \in DOMAIN schema[s] :
        schema[s][i].dims < 2 /\ schema[s][i].base \notin likeBasic

\* The struct rebuilt from a message has the signature of the one that was signed,
\* exactly when the message lost nothing.
SignatureKept == stage = "verified" => (EncodeType = signature <=> LosesNothing)

\* Structs that refer to each other do not keep the walk from ending.
WalkEnds == <>(stage \in {"verified", "keyError", "typeError"})

-----------------------------------------------------------------------------
(***************************************************************************)
(* The inductive invariant of the walk.                                    *)
(***************************************************************************)

\* The structs among the first n members of s are found.
FoundBefore(s, n) ==
    \A i \in DOMAIN Classes[s] :
        i < n /\ IsStruct(Classes[s][i]) => Classes[s][i].base \in struct_set

\* All structs among the members of s are found, or s is being walked.
WalkedOrFound(s) ==
    \/ FoundBefore(s, Len(Classes[s]) + 1)
    \/ \E k \in DOMAIN stack : stack[k].struct = s

\* The classes made from the message: nothing yet, what the first pass sets, or what
\* the second makes of it.
RebuiltInv ==
    /\ resolved \subseteq parsed
    /\ stage \in {"sign", "describe"} => types = {}
    /\ stage = "resolve" => parsed = types
    /\ stage \in {"verify", "verified"} => rebuilt \in Tables
    /\ \A s \in Structs \ parsed : rebuilt[s] = << >>
    /\ \A s \in parsed \ resolved :
          rebuilt[s] = [i \in DOMAIN schema[s] |-> FromSolidityType(schema[s][i])]
    /\ \A s \in resolved : rebuilt[s] \in Seq(Members)

GatherInv ==
    /\ TypedDataTypeOK
    /\ RebuiltInv
    /\ stage \in Walks =>
        /\ \A k \in DOMAIN stack :
              /\ stack[k].struct \in struct_set \cup {Root}
              /\ FoundBefore(stack[k].struct, stack[k].next)
        /\ \A s \in struct_set \cup {Root} : WalkedOrFound(s)
        /\ \A C \in SUBSET Structs : IsClosed(C) => struct_set \subseteq C

\* A message describes every struct that a described struct has as a plain member.
TypesClosed ==
    \A s \in types : \A i \in DOMAIN schema[s] :
        IsStruct(schema[s][i]) => schema[s][i].base \in types

KeyErrorInv == GatherInv /\ TypesClosed /\ KeyErrorExplained

\* C has all that its structs and the root have as plain members in the program's classes.
ClosedInSchema(C) ==
    \A s \in C \cup {Root} : \A i \in DOMAIN schema[s] :
        IsStruct(schema[s][i]) => schema[s][i].base \in C

\* What the two passes together make of a member.
RebuiltMember(m) ==
    IF m.base = Basic \/ m.base \in likeBasic
    THEN [base |-> Basic, dims |-> OneDimension(m.dims)] ELSE Reference(m)

\* The structs of the message are the root and what it leads to, the signature is
\* theirs, and the classes made of the message are the images of their classes.
RoundTripInv ==
    /\ stage = "describe" => signature = EncodedFrom(Reachable, schema)
    /\ stage \notin {"sign", "describe", "typeError"} =>
        /\ Root \in types
        /\ signature = EncodedFrom(types, schema)
        /\ \A C \in SUBSET Structs : ClosedInSchema(C) => types \subseteq C \cup {Root}
    /\ \A s \in resolved :
          rebuilt[s] = [i \in DOMAIN schema[s] |-> RebuiltMember(schema[s][i])]
    /\ stage \in {"verify", "verified"} => resolved = types
    /\ stage = "verified" => struct_set = Reachable

SignatureInv == KeyErrorInv /\ RoundTripInv

=============================================================================
